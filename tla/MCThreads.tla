----------------------------- MODULE MCThreads -----------------------------
(* Two chains, one block no one can decode, and voting periods at both     *)
(* ends of u16, past it, and not a number.                                 *)
EXTENDS Threads

CONSTANTS ethereum, base, poll

MCChainList == <<ethereum, base>>
MCPollLists == {<<>>, <<poll>>}
MCPeriods == {0, 65535, 65536, Garbled}
=============================================================================
