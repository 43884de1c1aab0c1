--------------------------- MODULE ProtocolStates ---------------------------
(* The life of a debugged process as doc/DocBook/protocol.xml tells it (lines
   119-140, 1186-1198 and the summary table from line 1290): startup, then
   running and stopped in alternation, then dead.  Each stop is announced to the
   debugger once, and a program with a debugger attached goes on only after the
   debugger knows that it stopped. *)
VARIABLES state,      \* "startup", "running", "stopped" or "dead"
          attached,   \* there is a debugger
          told        \* it knows of the stop the program is in

vars == <<state, attached, told>>

Init == state = "dead" /\ attached = TRUE /\ told = FALSE

Launch == /\ state = "dead" /\ attached
          /\ state' = "startup"
          /\ UNCHANGED <<attached, told>>

Run == /\ state = "startup"
       /\ state' = "running"
       /\ UNCHANGED <<attached, told>>

Stop == /\ state = "running"
        /\ state' = "stopped" /\ told' = ~attached
        /\ UNCHANGED attached

Tell == /\ state = "stopped" /\ ~told
        /\ told' = TRUE
        /\ UNCHANGED <<state, attached>>

Continue == /\ state = "stopped" /\ told
            /\ state' = "running" /\ told' = FALSE
            /\ UNCHANGED attached

Die == /\ state # "dead"
       /\ state' = "dead" /\ told' = FALSE
       /\ UNCHANGED attached

Detach == /\ attached
          /\ attached' = FALSE
          /\ told' = (state = "stopped")
          /\ UNCHANGED state

Next == Launch \/ Run \/ Stop \/ Tell \/ Continue \/ Die \/ Detach

Spec == Init /\ [][Next]_vars
=============================================================================
