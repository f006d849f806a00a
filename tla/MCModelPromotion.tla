-------------------------- MODULE MCModelPromotion --------------------------
(* Instances of ModelPromotion for TLC.  Two scores are enough to tell       *)
(* better, equal and worse apart.                                            *)
EXTENDS ModelPromotion

MCScore == 1..2
=============================================================================
