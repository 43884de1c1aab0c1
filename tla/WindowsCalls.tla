---------------------------- MODULE WindowsCalls ----------------------------
(* Intercepted calls on Windows, where budgie_interceptor goes through a once
   control (ThreadOnce) to run initialise_all, which creates the reader-writer
   lock (RWLock) that filters_run takes next. *)
EXTENDS RWLock

CONSTANTS Modulus,      \* once->value is a LONG: 2^32 in the build
          MaxCalls      \* bound on the calls of all threads together

ASSUME WidthAssumption == Modulus \in Nat /\ 1 < Modulus /\ MaxCalls \in Nat

VARIABLES
    value, complete, once, runs, calls, wraps,  \* see ThreadOnce; once is its pc
    created         \* how often filters_initialise created the lock

Once == INSTANCE ThreadOnce WITH pc <- once

control == <<value, complete, once, runs, calls, wraps>>
all == <<vars, control, created>>

CallsInit == Init /\ Once!Init /\ created = 0

Enter(t) == Once!Enter(t) /\ UNCHANGED <<vars, created>>

(* bugle_thread_rwlock_init, in filters_initialise *)
Create(t) ==
    /\ once[t] = "function" /\ created < runs
    /\ created' = created + 1
    /\ mutex' = Free /\ count_lock' = Free /\ num_readers' = 0 /\ readers_done' = TRUE
    /\ UNCHANGED <<pc, control>>

Function(t) ==
    /\ \/ Once!Call(t)
       \/ Once!Finish(t) /\ created = runs /\ pc[t] = "idle"
       \/ Once!Spin(t)
    /\ UNCHANGED <<vars, created>>

(* filters_run, and the initialisers of the filter-sets, of which the debugger's
   may defer a change. *)
MayLock(t) == once[t] = "returned" \/ (once[t] = "function" /\ created = runs)
Lock(t) == /\ MayLock(t)
           /\ Call(t, "r_mutex") \/ Call(t, "w_mutex")
           /\ UNCHANGED <<control, created>>

LockStep(t) == Step(t) /\ UNCHANGED <<control, created>>

Return(t) == pc[t] = "idle" /\ Once!Return(t) /\ UNCHANGED <<vars, created>>

CallsNext == \E t \in Thread : \/ Enter(t) \/ Create(t) \/ Function(t)
                               \/ Lock(t) \/ LockStep(t) \/ Return(t)

CallsSpec == CallsInit /\ [][CallsNext]_all

(* Fairness of RWLock.  initialise_all locks finitely often and returns (SF: in
   between Finish is not enabled). *)
CallsFairSpec ==
    /\ CallsSpec /\ Fairness
    /\ \A t \in Thread : WF_all(Create(t)) /\ SF_all(Function(t))
-----------------------------------------------------------------------------
(* initialise_all runs once in each round of the counter ("We got here first.",
   threads_msvcrt.c:37). *)
RunsOnce == Once!RunsOnce

(* Every call gets past the once control, whoever runs the initialisation. *)
CallersReturn == Once!CallersReturn

(* "Any code that depends on the initialisation being complete must call
   BUGLE_RUN_CONSTRUCTOR on the constructor first" (posix/platform/threads.h:90):
   no thread is in the lock before it exists, nor while it is created anew. *)
CreatedBeforeUse == \A t \in Thread : pc[t] # "idle" => created = 1 /\ runs = 1
=============================================================================
