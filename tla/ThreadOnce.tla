----------------------------- MODULE ThreadOnce -----------------------------
(* bugle_thread_once of platform/threads_msvcrt.c, and its callers: every
   intercepted call runs budgie_interceptor, which goes through the same once
   control again (BUGLE_RUN_CONSTRUCTOR(initialise_all)). *)
EXTENDS Integers

CONSTANTS Thread,
          Modulus,      \* once->value is a LONG: 2^32 in the build
          MaxCalls      \* bound on the calls of all threads together

VARIABLES
    value, complete,    \* the fields of bugle_thread_once_t
    pc,                 \* where each thread is
    runs,               \* how often the function was begun
    calls,              \* calls so far
    wraps               \* history: how often value came back to 0

vars == <<value, complete, pc, runs, calls, wraps>>

Init == /\ value = 0 /\ complete = FALSE
        /\ pc = [t \in Thread |-> "outside"]
        /\ runs = 0 /\ calls = 0 /\ wraps = 0

Increment ==             \* InterlockedIncrement(&once->value)
    /\ value' = (value + 1) % Modulus
    /\ wraps' = IF value' = 0 THEN wraps + 1 ELSE wraps

\* Goes by whether the initialisation is complete.
EnterByFlag(t) ==
    /\ pc[t] = "outside" /\ calls < MaxCalls
    /\ calls' = calls + 1
    /\ Increment
    /\ pc' = [pc EXCEPT ![t] = IF complete THEN "spin" ELSE "first"]
    /\ UNCHANGED <<complete, runs>>

Enter(t) ==
    /\ pc[t] = "outside" /\ calls < MaxCalls
    /\ calls' = calls + 1
    /\ Increment
    /\ pc' = [pc EXCEPT ![t] = IF value' = 1 THEN "first" ELSE "spin"]
    /\ UNCHANGED <<complete, runs>>

Call(t) ==               \* (*function)() begins
    /\ pc[t] = "first"
    /\ runs' = runs + 1
    /\ pc' = [pc EXCEPT ![t] = "function"]
    /\ UNCHANGED <<value, complete, calls, wraps>>

\* Marks completion and misses that others wait for it.
FinishQuietly(t) ==
    /\ pc[t] = "function"
    /\ pc' = [pc EXCEPT ![t] = "returned"]
    /\ UNCHANGED <<value, complete, runs, calls, wraps>>

Finish(t) ==             \* the function returns, once->complete = 1
    /\ pc[t] = "function"
    /\ complete' = TRUE
    /\ pc' = [pc EXCEPT ![t] = "returned"]
    /\ UNCHANGED <<value, runs, calls, wraps>>

\* Trusts that whoever came first has finished by now.
SpinOnce(t) ==
    /\ pc[t] = "spin"
    /\ pc' = [pc EXCEPT ![t] = "returned"]
    /\ UNCHANGED <<value, complete, runs, calls, wraps>>

Spin(t) ==               \* while (!once->complete) Sleep(0)
    /\ pc[t] = "spin" /\ complete
    /\ pc' = [pc EXCEPT ![t] = "returned"]
    /\ UNCHANGED <<value, complete, runs, calls, wraps>>

Return(t) ==             \* the caller goes about the rest of its call
    /\ pc[t] = "returned"
    /\ pc' = [pc EXCEPT ![t] = "outside"]
    /\ UNCHANGED <<value, complete, runs, calls, wraps>>

Step(t) == Call(t) \/ Finish(t) \/ Spin(t) \/ Return(t)

Next == \E t \in Thread : Enter(t) \/ Step(t)

Spec == Init /\ [][Next]_vars

-----------------------------------------------------------------------------
PC == {"outside", "first", "function", "spin", "returned"}

TypeOK == /\ value \in 0..(Modulus - 1) /\ complete \in BOOLEAN
          /\ pc \in [Thread -> PC]
          /\ runs \in Nat /\ calls \in 0..MaxCalls /\ wraps \in Nat

(* The inductive invariant: as long as value has not wrapped around
   it counts the calls, so that one thread at most came first. *)
First(t) == pc[t] \in {"first", "function"}
OneFirst == \A t, u \in Thread : First(t) /\ First(u) => t = u
BeforeAll == calls = 0 => runs = 0 /\ \A t \in Thread : pc[t] = "outside"
RunsValue ==
    /\ complete => runs = 1
    /\ \A t \in Thread : /\ pc[t] = "first" => runs = 0
                         /\ pc[t] = "function" => runs = 1
CompleteLast == complete => \A t \in Thread : ~First(t)
ReturnedAfter == \A t \in Thread : pc[t] = "returned" => complete

IInv == TypeOK /\ value = calls /\ OneFirst /\ BeforeAll /\ RunsValue /\ runs <= 1 /\ CompleteLast /\ ReturnedAfter

(* "We got here first." (threads_msvcrt.c:37) is true of one call at most until the
   counter has come back to its start, and of one more each time it does: nothing keeps
   the function from running again after 2^32 calls. *)
RunsOnce == runs <= wraps + 1

(* Nobody goes on while a thread is still to initialise or at it ("spin until
   full completion", threads_msvcrt.c:46), in the first round of the counter. *)
CompleteOnReturn == \A t \in Thread : pc[t] = "returned" => complete /\ \A u \in Thread : ~First(u)

\* Every call gets through, whoever came first.
CallersReturn == \A t \in Thread : pc[t] \in {"first", "spin"} ~> pc[t] = "returned"
=============================================================================
