---------------------------- MODULE MCCameraLive ----------------------------
(***************************************************************************)
(* CameraLive for TLC.                                                     *)
(***************************************************************************)
EXTENDS CameraLive, TLC

Symmetric == Permutations(Attempts) \cup Permutations(AudioTasks) \cup Permutations(Lives)
=============================================================================
