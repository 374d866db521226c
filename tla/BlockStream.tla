----------------------------- MODULE BlockStream -----------------------------
(***************************************************************************)
(* What the message pump promises, with no threads, channels, retries or   *)
(* errors: it learns of tips that only grow, starts at the first one it    *)
(* learns, and takes the blocks from there one at a time, in order, none   *)
(* twice, none beyond the tip.                                             *)
(***************************************************************************)
EXTENDS Integers

VARIABLES tip, cursor

vars == <<tip, cursor>>

Init == tip = 0 /\ cursor = 0

(* The first tip fixes where the stream begins: its own block is next.     *)
Start == cursor = 0 /\ tip' \in Nat /\ tip' > 1 /\ cursor' = tip' - 1

Learn == cursor # 0 /\ tip' \in Nat /\ tip' > tip /\ UNCHANGED cursor

Take == cursor < tip /\ cursor' = cursor + 1 /\ UNCHANGED tip

Next == Start \/ Learn \/ Take

Spec == Init /\ [][Next]_vars

FairSpec == Spec /\ WF_vars(Take)
=============================================================================
