------------------------------ MODULE PollBook ------------------------------
(***************************************************************************)
(* What the poll lifecycle promises, with no blocks, channels or failures: *)
(* a book of open polls with their deadlines and votes.  A poll enters it  *)
(* at most once, before its deadline and without votes; its votes are only *)
(* added to; when the height moves to the deadline or beyond, it is judged *)
(* and leaves; a judged poll never returns.                                *)
(***************************************************************************)
EXTENDS Integers, SequencesExt

VARIABLES
  open,    \* the open polls: poll id -> [deadline, votes]
  judged,  \* the ids of the polls that have been judged
  height   \* the highest block taken into account

bookVars == <<open, judged, height>>

Init == open = <<>> /\ judged = {} /\ height = 0

(* Polls that are neither open nor judged open together, with time to go;  *)
(* the others stay as they are.                                            *)
Register ==
  /\ DOMAIN open \subseteq DOMAIN open'
  /\ \A id \in DOMAIN open : open'[id] = open[id]
  /\ \A id \in DOMAIN open' \ DOMAIN open :
       /\ id \notin judged
       /\ open'[id].deadline \in Nat /\ open'[id].deadline > height
       /\ open'[id].votes = <<>>
  /\ UNCHANGED <<judged, height>>

Due(h) == {id \in DOMAIN open : open[id].deadline <= h}

(* The height moves on: every poll that is due is judged, at once, and the *)
(* others may collect votes.                                               *)
Advance ==
  /\ height' \in Nat /\ height' > height
  /\ judged' = judged \cup Due(height')
  /\ DOMAIN open' = DOMAIN open \ Due(height')
  /\ \A id \in DOMAIN open' :
       /\ open'[id].deadline = open[id].deadline
       /\ IsPrefix(open[id].votes, open'[id].votes)

Next == Register \/ Advance

Spec == Init /\ [][Next]_bookVars
=============================================================================
