----------------------------- MODULE RWLockSpec -----------------------------
(* What the users of a bugle_thread_rwlock_t rely on: any number of readers or
   one writer, and each of them leaves before the other kind comes in. *)
EXTENDS FiniteSets

CONSTANT Thread

VARIABLES readers, writers    \* the threads that hold the lock, by mode

vars == <<readers, writers>>

Init == readers = {} /\ writers = {}

Read(t) == /\ t \notin readers /\ writers = {}
           /\ readers' = readers \cup {t}
           /\ UNCHANGED writers

Write(t) == /\ readers = {} /\ writers = {}
            /\ writers' = {t}
            /\ UNCHANGED readers

Unlock(t) == /\ t \in readers \cup writers
             /\ readers' = readers \ {t} /\ writers' = writers \ {t}

Next == \E t \in Thread : Read(t) \/ Write(t) \/ Unlock(t)

Spec == Init /\ [][Next]_vars
=============================================================================
