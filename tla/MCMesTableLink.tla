---------------------------- MODULE MCMesTableLink ----------------------------
(* Two inspection rows, two reviews at a time, both verdicts.                *)
EXTENDS MesTableLink

CONSTANTS k1, k2, p1, p2

MCResults == {k1, k2}
MCReviewers == {p1, p2}
MCOneReviewer == {p1}
=============================================================================
