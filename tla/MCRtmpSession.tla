--------------------------- MODULE MCRtmpSession ---------------------------
(***************************************************************************)
(* RtmpSession for TLC: callers that call anything at any time.            *)
(***************************************************************************)
EXTENDS RtmpSession, TLC

(* Neither the threads nor the Lives are told apart by the specification.  *)
Symmetric == Permutations(Threads) \cup Permutations(Lives)

=============================================================================
