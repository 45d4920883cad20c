---------------------------- MODULE MCRtmpClient ----------------------------
(***************************************************************************)
(* RtmpClient for TLC.                                                     *)
(***************************************************************************)
EXTENDS RtmpClient

(* What a server sends unasked.                                            *)
EveryChatter == {"onBWDone", "ping", "close", "failed"}

=============================================================================
