------------------------------ MODULE Objects ------------------------------
(* What libbugle knows of contexts and objects, in three machines that have no
   state in common: contexts with the objects that are asked about by name, shaders
   and programs, and a hash table such as those that hold them.  Their product says
   no more than each alone, so part is which of them moves.  The names of shaders
   and programs are the contexts of the first. *)
EXTENDS HashTable, Contexts

CONSTANT Picked

VARIABLES part, kind, flagged, attached, using, home, listed, shader_pc, maker, reused, strayed

shaders == <<kind, flagged, attached, using, home, listed, shader_pc, maker, reused, strayed>>

S == INSTANCE ShaderObjects WITH Name <- Context, pc <- shader_pc
ASSUME NoneAssumption == S!None \notin Context

ObjectsInit ==
    /\ part \in {"contexts", "shaders", "table"}
    /\ Init /\ S!Init /\ TableInit
    /\ part # "shaders" => \A t \in Thread : home[t] = t      \* any would do

ObjectsNext ==
    \/ part = "contexts" /\ Next /\ UNCHANGED <<part, shaders, table_vars>>
    \/ part = "shaders" /\ S!Next /\ UNCHANGED <<part, vars, table_vars>>
    \/ part = "table" /\ TableNext /\ UNCHANGED <<part, vars, shaders>>

ObjectsSpec == ObjectsInit /\ [][ObjectsNext]_<<part, vars, shaders, table_vars>>

(* The tables of each namespace list the shaders and programs OpenGL has, as far as the
   calls that end an object's life are made through that namespace (globjects.c:231). *)
ListedIsAlive == S!ListedIsAlive
=============================================================================
