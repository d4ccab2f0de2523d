---------------------------- MODULE MCMesRestLink ----------------------------
(* One result, and one work order of its lot. *)
EXTENDS MesRestLink, TLC

CONSTANTS k1, o1, p1, c1

MCResults == {k1}
MCNumberOf == (k1 :> None)
MCLotOf == (k1 :> "L1") @@ (o1 :> "L1")
=============================================================================
