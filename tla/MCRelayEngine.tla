---------------------------- MODULE MCRelayEngine ----------------------------
(***************************************************************************)
(* Small instances of RelayEngine for TLC.  Chunk ids are only compared    *)
(* and may be permuted; prefixes and peers are ordered.                    *)
(***************************************************************************)
EXTENDS RelayEngine, TLC

Symmetry == Permutations(ChunkIds)
=============================================================================
