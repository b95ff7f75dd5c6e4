------------------------- MODULE MCAuxTemplateCache -------------------------
(***************************************************************************)
(* Workers are interchangeable, and so are contents.                       *)
(***************************************************************************)
EXTENDS AuxTemplateCache, TLC

Symmetry == Permutations(Workers) \cup Permutations(Contents)
=============================================================================
