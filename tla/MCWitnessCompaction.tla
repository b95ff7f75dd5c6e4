------------------------- MODULE MCWitnessCompaction -------------------------
(***************************************************************************)
(* Files 0..MaxFile: file 0 holds the higher blocks, as an ASSUMED file    *)
(* may, and the cfg leaves file 1 empty.                                   *)
(***************************************************************************)
EXTENDS WitnessCompaction

MCHeightLast == [f \in Files |-> IF f = 0 THEN 2 ELSE 1]
=============================================================================
