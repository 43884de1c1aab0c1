--------------------------- MODULE MCWindowsCalls ---------------------------
(* Three threads that make calls, each of which reads or writes as it likes. *)
EXTENDS WindowsCalls
CONSTANTS t1, t2, t3
MCThread == {t1, t2, t3}
=============================================================================
