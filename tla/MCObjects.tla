------------------------------ MODULE MCObjects ------------------------------
(* Two threads; three contexts and a texture, or a program and two shaders; and a
   table with five keys.  x1, x2 and x3 are contexts in the first and names in the
   second. *)
EXTENDS Objects, TLC

CONSTANTS t1, t2, x1, x2, x3, tex

MCThread == {t1, t2}
MCContext == {x1, x2, x3}
MCName == {tex}
MCUnseen == {x1}
MCPicked == {<<"program", x1>>, <<"shader", x2>>, <<"shader", x3>>}

(* Keys 5, 10 and NULL hash alike in the smallest table, of 5 entries, and 10, 21
   and 32 in the next, of 11. *)
MCKey == {5, 10, 21, 31, 32}
MCHash == [k \in MCKey \cup {NULL} |-> IF k = NULL THEN 0 ELSE k]

Symmetry == Permutations({t1, t2}) \cup Permutations({x2, x3})
=============================================================================
