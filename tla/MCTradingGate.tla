---------------------------- MODULE MCTradingGate ----------------------------
(***************************************************************************)
(* Two callers in one process, which may die before it empties its cache:  *)
(* what a process sees that another one's activation does not reach.       *)
(***************************************************************************)
EXTENDS TradingGate, TLC

CONSTANTS c1, c2, api

MCCallers == {c1, c2}
MCProcessOf == [c \in MCCallers |-> api]
MCSymmetry == Permutations(MCCallers)
=============================================================================
