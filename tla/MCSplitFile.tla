----------------------------- MODULE MCSplitFile -----------------------------
(* Instances of SplitFile for TLC. *)
EXTENDS SplitFile, TLC

(* read_offset is whatever the allocator left: nothing, or a value that is *)
(* no position of this file.                                               *)
MCFreshMemory == {0, StreamLen + 1}

Symmetry == Permutations(Readers)
=============================================================================
