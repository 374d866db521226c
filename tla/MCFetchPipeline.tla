-------------------------- MODULE MCFetchPipeline --------------------------
(* A small instance of the message pump: two chains, a block that creates  *)
(* one poll or none.                                                       *)
EXTENDS FetchPipeline

CONSTANTS ethereum, base, poll

MCChainList == <<ethereum, base>>
MCPollLists == {<<>>, <<poll>>}
=============================================================================
