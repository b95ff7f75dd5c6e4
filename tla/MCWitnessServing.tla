--------------------------- MODULE MCWitnessServing ---------------------------
(***************************************************************************)
(* One block file and one request.                                         *)
(***************************************************************************)
EXTENDS WitnessServing

MCHeightLast == [f \in Files |-> 0]
=============================================================================
