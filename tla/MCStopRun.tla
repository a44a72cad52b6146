----------------------------- MODULE MCStopRun -----------------------------
(***************************************************************************)
(* Commands and drivers for the runs of StopRun.                           *)
(***************************************************************************)
EXTENDS StopRun

AllKinds == {"run", "all", "page", "tx"}
OneRun   == {"run"}
Erring   == {"error"}
=============================================================================
