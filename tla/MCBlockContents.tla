-------------------------- MODULE MCBlockContents --------------------------
(***************************************************************************)
(* Small blocks for BlockReading: two spellings of a chain whose           *)
(* parameters are loaded, one chain that is not, two txs.                  *)
(***************************************************************************)
EXTENDS BlockReading

CONSTANTS addrA, addrB, eth, Eth, base

MCLower == [c \in {eth, Eth, base} |-> IF c = Eth THEN eth ELSE c]
MCBroadcasters == <<>>
MCParams == eth :> 5
MCTxLists == {<<11>>, <<12>>, <<11, 12>>}
MCVoted == {<<>>, <<11>>, <<11, 12>>}
=============================================================================
