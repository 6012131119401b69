---------------------------- MODULE MCBacktestJobs ----------------------------
(***************************************************************************)
(* Two replicas and a job of two strategies, which either of them may      *)
(* start, claim, run and cancel; it fails, times out or loses a process at *)
(* every point, and its leases end early or late.                          *)
(***************************************************************************)
EXTENDS BacktestJobs

CONSTANTS api1, api2, j1

MCProcesses == {api1, api2}
MCJobs == {j1}
===============================================================================
