------------------------------ MODULE WholeFile ------------------------------
(***************************************************************************)
(* What internal/conflist promises the container runtime: a file that is   *)
(* replaced in one step, so that "a reader sees either the whole old list  *)
(* or the whole new one" (WriteFile).                                      *)
(***************************************************************************)
EXTENDS Naturals

CONSTANTS
  Content,  \* lists
  Torn,     \* what a loss of power leaves of one
  NoFile    \* there is no file, nothing is being read, nothing has been read

VARIABLES
  content,  \* the file
  reading,  \* the list a reader has opened
  last,     \* the list the last read that ended returned
  losses    \* times the node lost its power

vars == <<content, reading, last, losses>>

Init ==
  /\ content \in Content \cup {NoFile} /\ reading = NoFile /\ last = NoFile
  /\ losses = 0

Replace == content' \in Content /\ UNCHANGED <<reading, last, losses>>

\* By another program.
Remove == content # NoFile /\ content' = NoFile /\ UNCHANGED <<reading, last, losses>>

Open ==
  /\ reading = NoFile /\ content # NoFile /\ reading' = content
  /\ UNCHANGED <<content, last, losses>>

\* A read returns the list that was in place when it began, whole, whatever
\* replaced it since.
End ==
  /\ reading # NoFile /\ last' = reading /\ reading' = NoFile
  /\ UNCHANGED <<content, losses>>

\* Nothing was promised about the disk.
LosePower ==
  /\ losses' = losses + 1
  /\ content' \in {content} \cup (IF content = NoFile THEN {} ELSE {Torn})
  /\ reading' = NoFile /\ UNCHANGED last

Next == Replace \/ Remove \/ Open \/ End \/ LosePower
Spec == Init /\ [][Next]_vars
=============================================================================
