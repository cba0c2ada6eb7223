----------------------------- MODULE MCAdmission -----------------------------
(* Two threads, one browser that uses two addresses; tables of one entry. *)
EXTENDS Admission, TLC

CONSTANTS t1, t2, b1, a1, a2

MCThreads == {t1, t2}
MCBrowsers == {b1}
MCAddrs == {a1, a2}
MCSymmetry == Permutations(MCThreads) \cup Permutations(MCAddrs)
=============================================================================
