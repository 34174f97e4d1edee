---------------------------- MODULE StatusBoard -----------------------------
(***************************************************************************)
(* What the nodes promise whoever reads the status of a NodeNetworkPolicy  *)
(* (ADR 0004): one entry per node, written by that node alone, about the   *)
(* spec as it is at that moment, with the mode that the table the node put *)
(* on last has the policy in.                                              *)
(***************************************************************************)
EXTENDS Naturals

CONSTANTS
  Node,
  Policy,
  NoEntry,   \* the node has no entry
  Untold     \* the daemon has put no table on since it started

VARIABLES
  gen,      \* gen[p]: generation of policy p, 0 while there is none
  running,  \* running[n][p]: "Enforce", "Permissive", "none" or Untold
  board     \* board[p][n]: node n's entry

vars == <<gen, running, board>>

Blank == [n \in Node |-> NoEntry]

Init == board = [p \in Policy |-> Blank] /\ \A p \in Policy : gen[p] \in {0, 1}

\* A policy is created, edited or deleted.  Its entries come and go with it,
\* and outlive an edit.
Author(p) ==
  /\ \/ gen[p] = 0 /\ gen' = [gen EXCEPT ![p] = 1] /\ UNCHANGED board
     \/ gen[p] > 0 /\ gen' = [gen EXCEPT ![p] = @ + 1] /\ UNCHANGED board
     \/ gen[p] > 0 /\ gen' = [gen EXCEPT ![p] = 0] /\ board' = [board EXCEPT ![p] = Blank]
  /\ UNCHANGED running

\* A node puts on another table, or forgets which one it has on.
Turn(n) ==
  /\ running' # running /\ \A m \in Node \ {n} : running'[m] = running[m]
  /\ UNCHANGED <<gen, board>>

\* A node selected by p says the mode it runs, one that is not takes its entry
\* out, and one whose renderer refused p says that.
Report(n, p) ==
  /\ gen[p] > 0
  /\ \E e \in {NoEntry} \cup [gen : {gen[p]}, mode : {"Enforce", "Permissive", ""}, message : BOOLEAN] :
       /\ \/ e = NoEntry /\ running[n][p] = "none"
          \/ e # NoEntry /\ ~ e.message /\ e.mode = running[n][p]
          \/ e # NoEntry /\ e.message /\ e.mode = ""
       /\ board' = [board EXCEPT ![p][n] = e]
  /\ UNCHANGED <<gen, running>>

Next == \E n \in Node, p \in Policy : Author(p) \/ Turn(n) \/ Report(n, p)
Spec == Init /\ [][Next]_vars
=============================================================================
