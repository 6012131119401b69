------------------------ MODULE MCSubmissionIntent ------------------------
(***************************************************************************)
(* Three local orders, two of them with the same logical key, and two      *)
(* broker ids, so that both unique indexes are contended.                  *)
(***************************************************************************)
EXTENDS SubmissionIntent, TLC

CONSTANTS o1, o2, o3, k1, k2

MCOrders == {o1, o2, o3}
MCKeys == {k1, k2}
MCKeyOf == o1 :> k1 @@ o2 :> k1 @@ o3 :> k2
=============================================================================
