----------------------------- MODULE MCContexts -----------------------------
(* Two threads and three contexts that the library has seen created. *)
EXTENDS Contexts, TLC
CONSTANTS t1, t2, c1, c2, c3, x
MCThread == {t1, t2}
MCContext == {c1, c2, c3}
MCName == {x}
MCNone == {}
Symmetry == Permutations(MCThread)
=============================================================================
