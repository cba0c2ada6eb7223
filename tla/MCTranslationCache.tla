------------------------ MODULE MCTranslationCache ------------------------
(***************************************************************************)
(* Small instances of TranslationCache.  Keys are interchangeable: only    *)
(* equality of keys is used.                                               *)
(***************************************************************************)
EXTENDS TranslationCache, TLC

Symmetry == Permutations(Keys) \cup Permutations(Threads)
=============================================================================
