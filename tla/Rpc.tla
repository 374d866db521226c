-------------------------------- MODULE Rpc --------------------------------
(***************************************************************************)
(* The HTTP client (rpc.rs).  An answer of the node is NoBody, when there  *)
(* is nothing to read (no connection, an HTTP error, not the expected      *)
(* JSON), or the record the body holds:                                    *)
(*   [height]                 of a block, Garbled if it is not a number    *)
(*   [results]                of a block                                   *)
(*   [chains]                 the chain list                               *)
(*   [chain, revote, grace]   the parameters of a chain: two periods, as   *)
(*                            numbers or Garbled                           *)
(* A call returns Ok(value) or Err.                                        *)
(***************************************************************************)
EXTENDS Integers

CONSTANTS NoBody, Garbled

ASSUME RpcAssumption == Garbled \notin Nat

Ok(value) == [ok |-> TRUE, value |-> value]
Err == [ok |-> FALSE]

OkUnless(bad, value) == IF bad THEN Err ELSE Ok(value)

(* The header's height, not the requested one, is what get_block returns.  *)
HeightOf(answer) ==
  IF answer = NoBody THEN Err
  ELSE OkUnless(answer.height = Garbled, answer.height)

GetBlock(answer) == HeightOf(answer)
GetHead(answer) == HeightOf(answer)
GetBlockResults(answer) == IF answer = NoBody THEN Err ELSE Ok(answer.results)
GetChainList(answer) == IF answer = NoBody THEN Err ELSE Ok(answer.chains)

(* The periods are strings here: nothing looks at them yet.                *)
GetChainParams(answer) == IF answer = NoBody THEN Err ELSE Ok(answer)

(* ChainParams::from(json) parses them as u16 and unwraps.                 *)
FitsU16(period) == period \in 0..65535
FromPanics(params) == ~FitsU16(params.revote) \/ ~FitsU16(params.grace)
=============================================================================
