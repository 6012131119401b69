-------------------------- MODULE MCPaperExecution --------------------------
(***************************************************************************)
(* Two PAPER orders of one signal, with one key, each from either process; *)
(* and one alone, to see what becomes of its key.                          *)
(***************************************************************************)
EXTENDS PaperExecution

CONSTANTS o1, o2, k1, s1, b1, b2, api, worker

MCOrders == {o1, o2}
MCKeyOf == [o \in MCOrders |-> k1]
MCSignalOf == [o \in MCOrders |-> s1]
MCPaperId == [o \in MCOrders |-> IF o = o1 THEN b1 ELSE b2]

MCOneOrder == {o1}
MCOneKeyOf == [o \in MCOneOrder |-> k1]
MCOneSignalOf == [o \in MCOneOrder |-> s1]
MCOneId == [o \in MCOneOrder |-> b1]
=============================================================================
