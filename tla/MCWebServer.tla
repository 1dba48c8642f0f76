---------------------------- MODULE MCWebServer ----------------------------
(***************************************************************************)
(* Instances of WebServer for TLC.  Descriptors and workers are            *)
(* interchangeable in the runs that check no liveness.                     *)
(***************************************************************************)
EXTENDS WebServer, TLC

ServerSymmetry == Permutations(Fds) \cup Permutations(Workers)
=============================================================================
