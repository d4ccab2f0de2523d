-------------------------- MODULE MCResultDelivery --------------------------
(* Two tubes of one frame. *)
EXTENDS ResultDelivery, TLC

CONSTANTS a, b, d1

MCBatch == {a, b}
MCBatchFrameOf == (a :> 1) @@ (b :> 1)

Sym == Permutations({a, b})
=============================================================================
