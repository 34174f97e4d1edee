------------------------------ MODULE Conflist ------------------------------
(***************************************************************************)
(* WriteFile of internal/conflist, system call by system call: the         *)
(* comparison with the file in place, the temporary file, its contents in  *)
(* parts, its mode, the rename.  Any call may fail, the daemon may die     *)
(* between any two, and the container runtime opens and reads the file     *)
(* meanwhile.  Routes calls it in one step; this module shows that it may. *)
(***************************************************************************)
EXTENDS Naturals, FiniteSets, Sequences

CONSTANTS
  Content,    \* what conflist.Render may return
  Parts,      \* parts a list is written and read in
  NoFile,
  Torn,       \* anything but a whole list
  MaxChanges, \* bound: calls that fail, other lists and removals of the file
  MaxStrays,  \* bound: times the daemon cannot clean up behind itself
  MaxLosses   \* bound: times the node loses power, with what is not on disk

ASSUME PartsAssumption == Parts \in Nat \ {0}

\* Enough for the list, the temporary files left behind, the one being
\* written, and one that only a reader holds.
Inode == 1 .. MaxStrays + MaxLosses + 3

VARIABLES
  inode,    \* [data, len, public]: a list, the parts of it that are there, its mode
  path,     \* the inode the path names, 0 for none
  temps,    \* the inodes temporary names name
  dirty,    \* inodes not yet on disk
  want,     \* what the route reconciler renders
  pc,       \* the next call of WriteFile
  data,     \* its argument
  tmp,      \* its temporary file
  open,     \* the inode the runtime reads, 0 for none
  got,      \* the parts it has read
  last,     \* what its last read returned
  changes,
  strays,
  losses

disk   == <<inode, path, temps, dirty>>
call   == <<pc, data, tmp>>
reader == <<open, got, last>>
counts == <<changes, strays, losses>>
vars   == <<disk, want, call, reader, counts>>

Empty      == [data |-> NoFile, len |-> 0, public |-> FALSE]
ListOf(c)  == [data |-> c, len |-> Parts, public |-> TRUE]
Holds(i)   == IF i = 0 THEN NoFile
              ELSE IF inode[i].data \in Content /\ inode[i] = ListOf(inode[i].data)
              THEN inode[i].data ELSE Torn

\* The file may be there from an earlier run of the daemon.
Init ==
  /\ \E c \in Content \cup {NoFile} :
       /\ path = (IF c = NoFile THEN 0 ELSE 1)
       /\ inode = [i \in Inode |-> IF i = path THEN ListOf(c) ELSE Empty]
  /\ temps = {} /\ dirty = {} /\ want \in Content
  /\ pc = "idle" /\ data = NoFile /\ tmp = 0
  /\ open = 0 /\ got = <<>> /\ last = NoFile
  /\ changes = 0 /\ strays = 0 /\ losses = 0

-----------------------------------------------------------------------------
(***************************************************************************)
(* WriteFile.                                                              *)
(***************************************************************************)
\* The list of the last call in place of the one in the file.
Begin_Remembers ==
  /\ pc = "idle"
  /\ data' = want /\ pc' = (IF data = want THEN "idle" ELSE "create")
  /\ UNCHANGED <<disk, want, tmp, reader, counts>>

\* Identical content is left untouched; what cannot be read is not identical.
\* The mode is not compared.
Begin ==
  /\ pc = "idle"
  /\ data' = want
  /\ pc' = (IF path # 0 /\ inode[path].data = want /\ inode[path].len = Parts THEN "idle" ELSE "create")
  /\ UNCHANGED <<disk, want, tmp, reader, counts>>

Free == {i \in Inode \ temps : i # path /\ i # open}

\* The file itself, truncated.
Create_InPlace ==
  /\ pc = "create"
  /\ tmp' = (IF path # 0 THEN path ELSE CHOOSE i \in Free : TRUE)
  /\ inode' = [inode EXCEPT ![tmp'] = Empty] /\ temps' = temps \cup ({tmp'} \ {path})
  /\ pc' = "write"
  /\ UNCHANGED <<path, dirty, want, data, reader, counts>>

\* os.CreateTemp, in the same directory, with mode 0600.
Create ==
  /\ pc = "create"
  /\ tmp' = (CHOOSE i \in Free : TRUE)
  /\ inode' = [inode EXCEPT ![tmp'] = Empty] /\ temps' = temps \cup {tmp'}
  /\ pc' = "write"
  /\ UNCHANGED <<path, dirty, want, data, reader, counts>>

Write_PastEnd ==
  /\ pc = "write" /\ inode[tmp].len <= Parts
  /\ inode' = [inode EXCEPT ![tmp].data = data, ![tmp].len = @ + 1]
  /\ dirty' = dirty \cup {tmp}
  /\ pc' = (IF inode'[tmp].len > Parts THEN "chmod" ELSE "write")
  /\ UNCHANGED <<path, temps, want, data, tmp, reader, counts>>

\* f.Write, a part at a time.
Write ==
  /\ pc = "write"
  /\ inode' = [inode EXCEPT ![tmp].data = data, ![tmp].len = @ + 1]
  /\ dirty' = dirty \cup {tmp}
  /\ pc' = (IF inode'[tmp].len = Parts THEN "chmod" ELSE "write")
  /\ UNCHANGED <<path, temps, want, data, tmp, reader, counts>>

\* f.Chmod and f.Close.
Chmod ==
  /\ pc = "chmod"
  /\ inode' = [inode EXCEPT ![tmp].public = TRUE] /\ pc' = "rename"
  /\ UNCHANGED <<path, temps, dirty, want, data, tmp, reader, counts>>

Rename ==
  /\ pc = "rename"
  /\ path' = tmp /\ temps' = temps \ {tmp} /\ tmp' = 0 /\ pc' = "idle"
  /\ UNCHANGED <<inode, dirty, want, data, reader, counts>>

Change == changes < MaxChanges /\ changes' = changes + 1 /\ UNCHANGED <<strays, losses>>

\* A rename that fails leaves the temporary file.
Fails_Leaves ==
  /\ Change
  /\ pc \in {"create", "write", "chmod", "rename"}
  /\ pc' = (IF pc \in {"create", "rename"} THEN "idle" ELSE "remove")
  /\ UNCHANGED <<disk, want, data, tmp, reader>>

\* A call fails: there is nothing to remove yet, or the file is removed.  A
\* write that fails may have written a part, and a close that fails may come
\* after a chmod that did not.
Fails ==
  /\ Change
  /\ pc \in {"create", "write", "chmod", "rename"}
  /\ pc' = (IF pc = "create" THEN "idle" ELSE "remove")
  /\ UNCHANGED <<disk, want, data, tmp, reader>>

Remove ==
  /\ pc = "remove"
  /\ temps' = temps \ {tmp} /\ tmp' = 0 /\ pc' = "idle"
  /\ UNCHANGED <<inode, path, dirty, want, data, reader, counts>>

WriteFile == Begin \/ Create \/ Write \/ Chmod \/ Rename \/ Remove

-----------------------------------------------------------------------------
Stray == strays < MaxStrays /\ strays' = strays + 1 /\ UNCHANGED <<changes, losses>>

RemoveFails ==
  /\ Stray
  /\ pc = "remove"
  /\ tmp' = 0 /\ pc' = "idle"
  /\ UNCHANGED <<disk, want, data, reader>>

\* The daemon dies and is started again.
Crash ==
  /\ Stray
  /\ pc' = "idle" /\ data' = NoFile /\ tmp' = 0
  /\ UNCHANGED <<disk, want, reader>>

\* The kernel writes a file back in its own time; nothing asks it to.
WriteBack ==
  /\ losses < MaxLosses
  /\ \E i \in dirty : dirty' = dirty \ {i}
  /\ UNCHANGED <<inode, path, temps, want, call, reader, counts>>

\* The names survive and the contents may not.  The runtime starts over too.
PowerFails ==
  /\ losses < MaxLosses /\ losses' = losses + 1
  /\ \E lost \in SUBSET dirty :
       inode' = [i \in Inode |-> IF i \in lost THEN [inode[i] EXCEPT !.len = 0] ELSE inode[i]]
  /\ dirty' = {} /\ pc' = "idle" /\ data' = NoFile /\ tmp' = 0
  /\ open' = 0 /\ got' = <<>>
  /\ UNCHANGED <<path, temps, want, last, changes, strays>>

WantChanges ==
  /\ Change
  /\ want' \in Content \ {want}
  /\ UNCHANGED <<disk, call, reader>>

\* Another program removes the file.
FileRemoved ==
  /\ Change
  /\ path # 0 /\ path' = 0
  /\ UNCHANGED <<inode, temps, dirty, want, call, reader>>

\* The container runtime.
Open ==
  /\ open = 0 /\ path # 0
  /\ open' = path
  /\ UNCHANGED <<disk, want, call, got, last, counts>>

ReadPart ==
  /\ open # 0 /\ Len(got) < inode[open].len
  /\ got' = Append(got, inode[open].data)
  /\ UNCHANGED <<disk, want, call, open, last, counts>>

ReadEnd ==
  /\ open # 0 /\ Len(got) >= inode[open].len
  /\ last' = (IF Len(got) = Parts /\ \A i \in 1 .. Parts : got[i] = got[1] THEN got[1] ELSE Torn)
  /\ open' = 0 /\ got' = <<>>
  /\ UNCHANGED <<disk, want, call, counts>>

Environment ==
  \/ Fails \/ RemoveFails \/ Crash \/ WriteBack \/ PowerFails \/ WantChanges \/ FileRemoved
  \/ Open \/ ReadPart \/ ReadEnd

Next == WriteFile \/ Environment
Spec == Init /\ [][Next]_vars

\* The reconciler comes back, after an error at once, otherwise at the resync
\* (see Routes).
FairSpec == Spec /\ WF_vars(WriteFile)

-----------------------------------------------------------------------------
(***************************************************************************)
(* Properties.                                                             *)
(***************************************************************************)
\* Every variable has its type; no file is longer than a list.
TypeOK ==
  /\ inode \in [Inode -> [data : Content \cup {NoFile}, len : 0 .. Parts, public : BOOLEAN]]
  /\ path \in Inode \cup {0} /\ temps \subseteq Inode /\ dirty \subseteq Inode
  /\ want \in Content /\ data \in Content \cup {NoFile} /\ tmp \in Inode \cup {0}
  /\ pc \in {"idle", "create", "write", "chmod", "rename", "remove"}
  /\ open \in Inode \cup {0} /\ Len(got) <= Parts /\ last \in Content \cup {NoFile, Torn}
  /\ changes \in 0 .. MaxChanges /\ strays \in 0 .. MaxStrays
  /\ losses \in 0 .. MaxLosses

File == INSTANCE WholeFile WITH
  content <- Holds(path),
  reading <- Holds(open)

\* "A reader sees either the whole old list or the whole new one" (WriteFile):
\* with all its calls, failures and crashes it implements a file that is
\* replaced in one step, readable by all, under every reader; only a loss of
\* power can take the list from under them.
ImplementsWholeFile == File!Spec

\* "Nothing is left behind in the directory" (write_test.go): there are never
\* more temporary files than the one being written and one for each time the
\* daemon died, lost its power or could not remove one.
NothingLeftBehind ==
  Cardinality(temps) <= strays + losses + (IF tmp = 0 THEN 0 ELSE 1)

\* The list comes right, after failures, a removal, and even after a loss of
\* power that took the contents of the renamed file, since the file and not
\* a memory of it is compared.
ListComesRight == <>[](Holds(path) = want)

=============================================================================
