-------------------------------- MODULE NvStore --------------------------------
(***************************************************************************)
(* What the commands of nvparm promise together: a store of entries that   *)
(* every command changes at once, or that it has torn.  While a cell is    *)
(* torn, and afterwards if the command does not commit it, nothing is said *)
(* about its content; `store' keeps what it held before.                   *)
(***************************************************************************)
EXTENDS NvLayout

CONSTANTS Procs, Commands, NoCommand

VARIABLES store, torn, asked

vars == <<store, torn, asked>>

Init ==
  /\ store \in Content /\ torn = {}
  /\ asked = [p \in Procs |-> NoCommand]

Ask(p) ==
  /\ asked[p] = NoCommand
  /\ \E c \in Commands : asked' = [asked EXCEPT ![p] = c]
  /\ UNCHANGED <<store, torn>>

\* Only cells of the blocks that a running command changes become torn.
Tear(p) ==
  /\ asked[p] # NoCommand /\ asked[p].kind \in Changes
  /\ \E C \in SUBSET Touched(asked[p]) : torn' = torn \cup C
  /\ UNCHANGED store

\* The command takes effect, on no other cell.  Clearing may stop after some of
\* its blocks.
Commit(p) ==
  /\ asked[p] # NoCommand /\ asked[p].kind \in Changes
  /\ \E C \in SUBSET Touched(asked[p]) :
       /\ asked[p].kind = "clear" \/ C = Touched(asked[p])
       /\ store' = [n \in Cells |->
                      IF n \in C THEN Effect(asked[p], n, store[n]) ELSE store[n]]
       /\ torn' = torn \ C

\* A command that only looks, or does nothing more.
Leave(p) == asked[p] # NoCommand /\ UNCHANGED <<store, torn>>

\* A step may also be the last one of the command.
Ends(p) == asked' = [asked EXCEPT ![p] = NoCommand]

Next ==
  \E p \in Procs :
    \/ Ask(p)
    \/ Tear(p) /\ (Ends(p) \/ UNCHANGED asked)
    \/ Commit(p) /\ (Ends(p) \/ UNCHANGED asked)
    \/ Leave(p) /\ Ends(p)

Spec == Init /\ [][Next]_vars
===============================================================================
