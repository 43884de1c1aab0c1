---------------------------- MODULE DebugSession ----------------------------
(* A debugging session: the gldb GUI (gldb/gldb-gui.c over gldb/gldb-common.c)
   and the debugger filter-set inside the application (filters/debugger.c),
   joined by two pipes.

   The application's main thread runs debugger_callback before each GL call and
   debugger_error_callback after it; both end in debugger_loop, which takes one
   request per pass while the program runs and blocks in get_item while it is
   stopped.  A worker thread moves requests from the pipe to the request queue
   (Workqueue proves what that queue promises: a bounded FIFO).  The GUI sends
   requests when the user acts and handles one response per main-loop dispatch.
   Each process may die between any two steps; the GUI can start another one.

   MaxSeq and MaxPipe bound what the user does, never what the code does. *)
EXTENDS Integers, Sequences, SequencesExt

CONSTANTS
    Calls,         \* the API calls the application makes
    BreakName,     \* names the user types in "Add breakpoint"
    Known,         \* the names that budgie_function_id finds
    ToggledEvent,  \* events the user switches on and off
    SigpipeKills,  \* the application has the default disposition of SIGPIPE
    MaxSeq,        \* requests with a sequence number of their own
    MaxPipe        \* requests under way when the user acts once more

Event == {"GL_ERROR", "COMPILE_ERROR", "LINK_ERROR"}   \* REQ_EVENT_*
RequestQueueSlots == 3                                 \* BUGLE_WORKQUEUE_SIZE - 1

ASSUME NameAssumption == Known \subseteq BreakName
ASSUME EventAssumption == ToggledEvent \subseteq Event
ASSUME BoundAssumption == SigpipeKills \in BOOLEAN /\ MaxSeq \in Nat /\ MaxPipe \in Nat

VARIABLES
    \* filters/debugger.c and the GL state it depends on
    apc,           \* where the application's main thread is
    call,          \* the function call being intercepted
    gl,            \* "none": no context; "inside", "outside": of glBegin/glEnd
    stopped, break_on, break_on_event, break_on_next, start_id,
    \* the pipes and the application's request queue
    reqs, rq, reading, resps,
    \* gldb
    galive,        \* the gldb process runs and its pipe ends are open
    status, gbreak, gevent, seq, handlers, root, can_stop, can_continue,
    \* history
    started,       \* the last request sent that starts the program running
    base           \* seq when this process was started

debugger == <<stopped, break_on, break_on_event, break_on_next, start_id>>
app == <<apc, call, gl, debugger>>
requests == <<reqs, rq, reading>>
tables == <<gbreak, gevent>>
gui == <<status, seq, handlers, root, can_stop, can_continue>>
vars == <<app, requests, resps, galive, tables, gui, started, base>>

Loop == {"init", "pre", "post"}          \* inside debugger_loop
InBeginEnd == gl # "outside"             \* bugle_gl_in_begin_end
Stoppable == ~InBeginEnd                 \* stop_in_begin_end is never set
NoTree == -1

Null == [code |-> "NULL", id |-> 0]      \* what read_request hands over at EOF
Starts == {"RUN", "CONT", "STEP"}
Breaks == {"BREAK", "BREAK_EVENT"}

Init ==
    /\ apc = "exited" /\ call = "none" /\ gl = "none"
    /\ stopped = TRUE /\ break_on = {} /\ break_on_event = Event
    /\ break_on_next = FALSE /\ start_id = 0
    /\ reqs = <<>> /\ rq = <<>> /\ reading = FALSE /\ resps = <<>>
    /\ galive = TRUE /\ status = "DEAD"
    /\ gbreak = [f \in {} |-> TRUE] /\ gevent = Event
    /\ seq = 1 /\ handlers = <<>> /\ root = NoTree
    /\ can_stop = FALSE /\ can_continue = FALSE
    /\ started = 0 /\ base = 1
-----------------------------------------------------------------------------
(* The application. *)

\* The worker: read_request blocks on the pipe; at EOF it hands over NULL once.
Deliver ==
    /\ reading /\ apc # "exited"
    /\ Len(rq) < RequestQueueSlots
    /\ IF reqs # <<>>
       THEN rq' = Append(rq, Head(reqs)) /\ reqs' = Tail(reqs) /\ UNCHANGED reading
       ELSE ~galive /\ rq' = Append(rq, Null) /\ reading' = FALSE /\ UNCHANGED reqs
    /\ UNCHANGED <<app, resps, galive, tables, gui, started, base>>

\* Announces a stop ahead of the answers that are still to be read.
ReplyBreaksFirst(r, next) ==
    IF galive
    THEN /\ resps' = IF r.code \in Breaks THEN <<r>> \o resps ELSE Append(resps, r)
         /\ apc' = next
    ELSE apc' = (IF SigpipeKills THEN "exited" ELSE next) /\ UNCHANGED resps

\* Writing to a pipe whose reader is gone raises SIGPIPE.
Reply(r, next) ==
    IF galive THEN resps' = Append(resps, r) /\ apc' = next
    ELSE apc' = (IF SigpipeKills THEN "exited" ELSE next) /\ UNCHANGED resps

\* debugger_callback, up to debugger_loop
PreCallback(c) ==
    /\ apc = "idle"
    /\ call' = c
    /\ IF Stoppable /\ (c \in break_on \/ break_on_next)
       THEN /\ Reply([code |-> "BREAK", id |-> start_id], "pre")
            /\ stopped' = TRUE /\ break_on_next' = FALSE
       ELSE /\ apc' = "pre" /\ UNCHANGED <<stopped, break_on_next, resps>>
    /\ UNCHANGED <<gl, break_on, break_on_event, start_id, requests, galive, tables,
                   gui, started, base>>

\* glbeginend and trackcontext run between invoke and debugger_error
AfterCall(c) ==
    CASE c = "glXMakeCurrent" /\ gl = "none" -> "outside"
      [] c = "glBegin" /\ gl = "outside" -> "inside"
      [] c = "glEnd" /\ gl = "inside" -> "outside"
      [] OTHER -> gl

\* What bugle_gl_call_get_error can return: inside glBegin/glEnd only glGetError
\* itself is found in error, outside any other GL call can be.
CanErr(c, g) == c # "glXMakeCurrent" /\ ((c = "glGetError") <=> (g # "outside"))

\* The conditions of debugger_error_callback; LINK_ERROR likewise.
RaisedEvent(c, g, error, failed) ==
    IF "GL_ERROR" \in break_on_event /\ error THEN "GL_ERROR"
    ELSE IF "COMPILE_ERROR" \in break_on_event /\ c = "glCompileShader"
            /\ g = "outside" /\ failed THEN "COMPILE_ERROR"
    ELSE IF "LINK_ERROR" \in break_on_event /\ c = "glLinkProgram"
            /\ g = "outside" /\ failed THEN "LINK_ERROR"
    ELSE "none"

\* The call itself, then debugger_error_callback up to debugger_loop
Invoke ==
    /\ apc = "invoke"
    /\ gl' = AfterCall(call)
    /\ \E error, failed \in BOOLEAN :
          /\ error => CanErr(call, gl')
          /\ IF RaisedEvent(call, gl', error, failed) # "none"
             THEN /\ Reply([code |-> "BREAK_EVENT", id |-> start_id], "post")
                  /\ stopped' = TRUE
             ELSE apc' = "idle" /\ UNCHANGED <<stopped, resps>>
    /\ UNCHANGED <<call, break_on, break_on_event, break_on_next, start_id, requests,
                   galive, tables, gui, started, base>>

\* debugger_loop returns to its caller
Left == IF apc = "pre" THEN "invoke" ELSE "idle"

\* debugger_loop that reads requests only while the program is stopped.
LoopIfRunning ==
    /\ apc \in Loop /\ ~stopped
    /\ apc' = Left
    /\ UNCHANGED <<call, gl, debugger, requests, resps, galive, tables, gui, started, base>>

LoopNoData ==
    /\ apc \in Loop /\ ~stopped /\ rq = <<>>
    /\ apc' = Left
    /\ UNCHANGED <<call, gl, debugger, requests, resps, galive, tables, gui, started, base>>

\* Leaves the loop on NULL without marking the program as running.
LoopEOFStopped ==
    /\ apc \in Loop /\ rq # <<>> /\ Head(rq) = Null
    /\ rq' = Tail(rq)
    /\ apc' = Left
    /\ UNCHANGED <<call, gl, debugger, reqs, reading, resps, galive, tables, gui,
                   started, base>>

\* get_item returned NULL: "Error reading from debugger, continuing"
LoopEOF ==
    /\ apc \in Loop /\ rq # <<>> /\ Head(rq) = Null
    /\ rq' = Tail(rq)
    /\ stopped' = FALSE
    /\ apc' = Left
    /\ UNCHANGED <<call, gl, break_on, break_on_event, break_on_next, start_id,
                   reqs, reading, resps, galive, tables, gui, started, base>>

\* process_single_command, one action per kind of request
Takes(code) ==
    /\ apc \in Loop /\ rq # <<>> /\ Head(rq).code = code
    /\ rq' = Tail(rq)
    /\ UNCHANGED <<call, gl, reqs, reading, galive, tables, gui, started, base>>

Stays(s) == IF s THEN apc ELSE Left      \* while (stopped)

DoRun ==
    /\ Takes("RUN")
    /\ break_on_next' = FALSE /\ stopped' = FALSE /\ start_id' = Head(rq).id
    /\ Reply([code |-> "RUNNING", id |-> Head(rq).id], Left)
    /\ UNCHANGED <<break_on, break_on_event>>

\* Only REQ_RUN records the request that started the program.
DoContinueKeepsId(code) ==
    /\ Takes(code)
    /\ break_on_next' = (code = "STEP") /\ stopped' = FALSE
    /\ apc' = Left
    /\ UNCHANGED <<break_on, break_on_event, start_id, resps>>

DoContinue(code) ==
    /\ Takes(code)
    /\ break_on_next' = (code = "STEP") /\ stopped' = FALSE /\ start_id' = Head(rq).id
    /\ apc' = Left
    /\ UNCHANGED <<break_on, break_on_event, resps>>

DoBreak ==
    /\ Takes("SETBREAK")
    /\ LET r == Head(rq) IN
       IF r.name \in Known
       THEN /\ break_on' = IF r.on THEN break_on \cup {r.name} ELSE break_on \ {r.name}
            /\ Reply([code |-> "ANS", id |-> r.id], Stays(stopped))
       ELSE /\ UNCHANGED break_on
            /\ Reply([code |-> "ERROR", id |-> r.id], Stays(stopped))
    /\ UNCHANGED <<stopped, break_on_event, break_on_next, start_id>>

DoBreakEvent ==
    /\ Takes("SETEVENT")
    /\ LET r == Head(rq) IN
          /\ break_on_event' = IF r.on THEN break_on_event \cup {r.name}
                               ELSE break_on_event \ {r.name}
          /\ Reply([code |-> "ANS", id |-> r.id], Stays(stopped))
    /\ UNCHANGED <<stopped, break_on, break_on_next, start_id>>

\* The stop a query is answered from, if the program is stopped at all
AnsweredFrom == IF stopped THEN start_id ELSE NoTree

DoStateTree ==
    /\ Takes("STATE_TREE_RAW")
    /\ Reply([code |-> IF InBeginEnd THEN "ERROR" ELSE "STATE", id |-> Head(rq).id,
              asked |-> Head(rq).asked, from |-> AnsweredFrom], Stays(stopped))
    /\ UNCHANGED debugger

DoData ==
    /\ Takes("DATA")
    /\ \E code \in {"DATA", "ERROR"} :
          Reply([code |-> code, id |-> Head(rq).id, asked |-> Head(rq).asked,
                 from |-> AnsweredFrom], Stays(stopped))
    /\ UNCHANGED debugger

\* Answers a Stop without looking at whether the program already stopped.
DoAsyncAlways ==
    /\ Takes("ASYNC")
    /\ IF ~Stoppable
       THEN break_on_next' = TRUE /\ apc' = Stays(stopped)
            /\ UNCHANGED <<stopped, resps>>
       ELSE /\ stopped' = TRUE /\ break_on_next' = FALSE
            /\ Reply([code |-> "BREAK", id |-> start_id], apc)
    /\ UNCHANGED <<break_on, break_on_event, start_id>>

\* Forgets a Stop that arrives inside glBegin/glEnd.
DoAsyncIfStoppable ==
    /\ Takes("ASYNC")
    /\ IF stopped \/ ~Stoppable
       THEN apc' = Stays(stopped) /\ UNCHANGED <<stopped, break_on_next, resps>>
       ELSE /\ stopped' = TRUE /\ break_on_next' = FALSE
            /\ Reply([code |-> "BREAK", id |-> start_id], apc)
    /\ UNCHANGED <<break_on, break_on_event, start_id>>

\* Stops without saying so.
DoAsyncSilent ==
    /\ Takes("ASYNC")
    /\ IF ~stopped /\ ~Stoppable
       THEN break_on_next' = TRUE /\ apc' = Left /\ UNCHANGED stopped
       ELSE apc' = apc /\ stopped' = TRUE /\ break_on_next' = FALSE
    /\ UNCHANGED <<break_on, break_on_event, start_id, resps>>

DoAsync ==
    /\ Takes("ASYNC")
    /\ IF stopped
       THEN apc' = apc /\ UNCHANGED <<stopped, break_on_next, resps>>
       ELSE IF ~Stoppable
       THEN break_on_next' = TRUE /\ apc' = Left /\ UNCHANGED <<stopped, resps>>
       ELSE /\ stopped' = TRUE /\ break_on_next' = FALSE
            /\ Reply([code |-> "BREAK", id |-> start_id], apc)
    /\ UNCHANGED <<break_on, break_on_event, start_id>>

\* exit(1)
DoQuit ==
    /\ Takes("QUIT")
    /\ apc' = "exited"
    /\ UNCHANGED <<debugger, resps>>

\* The application ends, or is killed, whatever it was doing.
AppDies ==
    /\ apc # "exited"
    /\ apc' = "exited" /\ reqs' = <<>> /\ rq' = <<>>
    /\ UNCHANGED <<call, gl, debugger, reading, resps, galive, tables, gui, started, base>>
-----------------------------------------------------------------------------
(* gldb: what the user does.  Nothing in gldb changes the disposition of
   SIGPIPE, so writing to an application that is gone ends it. *)
Send(ms) ==
    IF apc = "exited" THEN galive' = FALSE /\ UNCHANGED reqs
    ELSE reqs' = reqs \o ms /\ UNCHANGED galive

SendIfAlive(ms) == IF status # "DEAD" THEN Send(ms) ELSE UNCHANGED <<reqs, galive>>

UserActs == galive /\ Len(reqs) + Len(rq) + Len(resps) < MaxPipe
Numbered == seq <= MaxSeq

SetBreakRequest(f, on) == [code |-> "SETBREAK", id |-> 0, name |-> f, on |-> on]
SetEventRequest(e, on) == [code |-> "SETEVENT", id |-> 0, name |-> e, on |-> on]

\* set_status that leaves the tree to the next RESP_STATE.
SetStatusOnly(s) == status' = s /\ UNCHANGED root

\* set_status destroys the tree on a change to RUNNING or STOPPED
SetStatus(s) ==
    /\ status' = s
    /\ root' = IF s # status /\ s \in {"RUNNING", "STOPPED"} THEN NoTree ELSE root

EventRequests == LET es == SetToSeq(Event) IN
    [i \in DOMAIN es |-> SetEventRequest(es[i], es[i] \in gevent)]
BreakRequests == LET fs == SetToSeq(DOMAIN gbreak) IN
    [i \in DOMAIN fs |-> SetBreakRequest(fs[i], gbreak[fs[i]])]

\* run_action over gldb_run: a new process, told every breakpoint before RUN
Run ==
    /\ galive /\ status = "DEAD" /\ Numbered
    /\ SetStatus("STARTED")
    /\ reqs' = EventRequests \o BreakRequests \o <<[code |-> "RUN", id |-> seq]>>
    /\ seq' = seq + 1 /\ started' = seq /\ base' = seq
    /\ apc' = "init" /\ call' = "none" /\ gl' = "none"
    /\ stopped' = TRUE /\ break_on' = {} /\ break_on_event' = Event
    /\ break_on_next' = FALSE /\ start_id' = 0
    /\ rq' = <<>> /\ reading' = TRUE /\ resps' = <<>>
    /\ UNCHANGED <<galive, tables, handlers, can_stop, can_continue>>

StopAction ==
    /\ UserActs /\ Numbered /\ can_stop /\ status = "RUNNING"
    /\ Send(<<[code |-> "ASYNC", id |-> seq]>>)
    /\ seq' = seq + 1
    /\ UNCHANGED <<app, rq, reading, resps, tables, status, handlers, root, can_stop,
                   can_continue, started, base>>

\* continue_action and step_action
ContinueAction(code) ==
    /\ UserActs /\ Numbered /\ can_continue
    /\ can_continue' = FALSE /\ can_stop' = TRUE
    /\ SetStatus("RUNNING")
    /\ Send(<<[code |-> code, id |-> seq]>>)
    /\ seq' = seq + 1 /\ started' = seq
    /\ UNCHANGED <<app, rq, reading, resps, tables, handlers, base>>

KillAction ==
    /\ UserActs /\ Numbered /\ can_continue
    /\ Send(<<[code |-> "QUIT", id |-> seq]>>)
    /\ seq' = seq + 1
    /\ UNCHANGED <<app, rq, reading, resps, tables, status, handlers, root, can_stop,
                   can_continue, started, base>>

\* Tells the application only while it is stopped.
SetBreakWhenStopped(f, on) ==
    /\ UserActs
    /\ gbreak' = [g \in DOMAIN gbreak \cup {f} |-> IF g = f THEN on ELSE gbreak[g]]
    /\ IF status = "STOPPED" THEN Send(<<SetBreakRequest(f, on)>>)
       ELSE UNCHANGED <<reqs, galive>>
    /\ UNCHANGED <<app, rq, reading, resps, gevent, gui, started, base>>

\* gldb_set_break
SetBreak(f, on) ==
    /\ UserActs
    /\ gbreak' = [g \in DOMAIN gbreak \cup {f} |-> IF g = f THEN on ELSE gbreak[g]]
    /\ SendIfAlive(<<SetBreakRequest(f, on)>>)
    /\ UNCHANGED <<app, rq, reading, resps, gevent, gui, started, base>>

\* gldb_set_break_event
SetBreakEvent(e, on) ==
    /\ UserActs
    /\ gevent' = IF on THEN gevent \cup {e} ELSE gevent \ {e}
    /\ SendIfAlive(<<SetEventRequest(e, on)>>)
    /\ UNCHANGED <<app, rq, reading, resps, gbreak, gui, started, base>>

\* A pane asks for data: gldb_gui_set_response_handler, then gldb_send_data_*
Query(extra) ==
    /\ handlers' = Append(handlers, seq)
    /\ seq' = seq + 1
    /\ Send(extra \o <<[code |-> "DATA", id |-> seq, asked |-> started]>>)

PaneQuery ==
    /\ UserActs /\ Numbered /\ status = "STOPPED"
    /\ Query(<<>>)
    /\ UNCHANGED <<app, rq, reading, resps, tables, status, root, can_stop,
                   can_continue, started, base>>

\* The user closes the window: gldb_shutdown, then the process exits
Shutdown ==
    /\ galive
    /\ galive' = FALSE
    /\ reqs' = IF apc = "exited" \/ status = "DEAD" THEN reqs
               ELSE IF status = "RUNNING"
               THEN reqs \o <<[code |-> "ASYNC", id |-> 0], [code |-> "QUIT", id |-> 0]>>
               ELSE reqs \o <<[code |-> "QUIT", id |-> 0]>>
    /\ resps' = <<>>
    /\ UNCHANGED <<app, rq, reading, tables, gui, started, base>>

\* gldb is killed.
GldbDies ==
    /\ galive
    /\ galive' = FALSE /\ resps' = <<>>
    /\ UNCHANGED <<app, requests, tables, gui, started, base>>
-----------------------------------------------------------------------------
(* gldb: response_callback, over gldb_process_response. *)

\* Erases the handlers at the head of the list whose response can no longer come
Remaining(id) == SelectInSeq(handlers, LAMBDA h : h >= id)
AfterErase(id) == IF Remaining(id) = 0 THEN <<>>
                  ELSE SubSeq(handlers, Remaining(id), Len(handlers))
Answers(id) == AfterErase(id) # <<>> /\ Head(AfterErase(id)) = id

Receives(codes) ==
    /\ galive /\ resps # <<>> /\ Head(resps).code \in codes
    /\ resps' = Tail(resps)
    /\ UNCHANGED <<app, rq, reading, tables, started, base>>

\* stopped(): the actions' sensitivity, then a request for the state tree
OnBreak ==
    /\ Receives(Breaks)
    /\ SetStatus("STOPPED")
    /\ handlers' = AfterErase(Head(resps).id)
    /\ can_stop' = FALSE /\ can_continue' = TRUE
    /\ Send(<<[code |-> "STATE_TREE_RAW", id |-> 0, asked |-> started]>>)
    /\ UNCHANGED seq

OnRunning ==
    /\ Receives({"RUNNING"})
    /\ SetStatus("RUNNING")
    /\ handlers' = AfterErase(Head(resps).id)
    /\ can_stop' = TRUE /\ can_continue' = FALSE
    /\ UNCHANGED <<reqs, galive, seq>>

\* The panes that show the tree update, and may ask for what it now lists.
OnState ==
    /\ Receives({"STATE"})
    /\ root' = Head(resps).from
    /\ \/ status = "STOPPED" /\ Numbered /\ Query(<<>>)
       \/ UNCHANGED <<reqs, galive, handlers, seq>>
    /\ UNCHANGED <<status, can_stop, can_continue>>

\* The handler of the request, if there is one, takes the response.
OnAnswer ==
    /\ Receives({"ANS", "ERROR", "DATA"})
    /\ LET id == Head(resps).id IN
       handlers' = IF Answers(id) THEN Tail(AfterErase(id)) ELSE AfterErase(id)
    /\ UNCHANGED <<reqs, galive, status, seq, root, can_stop, can_continue>>

\* child_exit_notify
OnEOF ==
    /\ galive /\ status # "DEAD" /\ apc = "exited" /\ resps = <<>>
    /\ SetStatus("DEAD")
    /\ can_stop' = FALSE /\ can_continue' = FALSE
    /\ UNCHANGED <<app, requests, resps, galive, tables, seq, handlers, started, base>>
-----------------------------------------------------------------------------
Process == DoRun \/ DoContinue("CONT") \/ DoContinue("STEP") \/ DoBreak \/ DoBreakEvent
           \/ DoStateTree \/ DoData \/ DoAsync \/ DoQuit
LoopStep == LoopNoData \/ LoopEOF \/ Process
Respond == OnBreak \/ OnRunning \/ OnState \/ OnAnswer \/ OnEOF

UserNext ==
    \/ Run \/ StopAction \/ ContinueAction("CONT") \/ ContinueAction("STEP")
    \/ KillAction \/ PaneQuery \/ Shutdown
    \/ \E f \in BreakName, on \in BOOLEAN : SetBreak(f, on)
    \/ \E e \in ToggledEvent, on \in BOOLEAN : SetBreakEvent(e, on)

Next ==
    \/ Deliver \/ (\E c \in Calls : PreCallback(c)) \/ Invoke \/ LoopStep \/ Respond
    \/ UserNext \/ AppDies \/ GldbDies

Spec == Init /\ [][Next]_vars

\* The call that makes the program stoppable again
Leaves == \/ gl = "none" /\ PreCallback("glXMakeCurrent")
          \/ gl = "inside" /\ PreCallback("glEnd")

(* Threads and the main loop are scheduled; calls return; the application goes
   on making calls and, as GL requires, ends what glBegin began.  Nothing is
   assumed of the user or of the deaths. *)
Fairness ==
    /\ WF_vars(Deliver) /\ WF_vars(LoopStep) /\ WF_vars(Invoke) /\ WF_vars(Respond)
    /\ WF_vars(\E c \in Calls : PreCallback(c))
    /\ SF_vars(Leaves)

FairSpec == Spec /\ Fairness
-----------------------------------------------------------------------------
Pending == rq \o reqs                    \* requests the application has yet to act on
Joined == galive /\ apc # "exited"       \* both ends are there
Has(s, codes) == \E r \in ToSet(s) : r.code \in codes

(* What gldb believes is what is: while its status is STOPPED the application is
   inside debugger_loop, stopped, by the start gldb sent last, with nothing
   under way in either direction that starts it or reports another stop.  The
   assertions of gldb_send_continue, gldb_send_step and gldb_send_async rest on
   this and on the sensitivity of the actions that call them. *)
StoppedTogether ==
    /\ Joined /\ status = "STOPPED" =>
           /\ apc \in {"pre", "post"} /\ stopped /\ start_id = started
           /\ ~Has(Pending, Starts) /\ ~Has(resps, Breaks)
    /\ galive => /\ can_continue => status = "STOPPED"
                 /\ can_stop => status = "RUNNING"

(* Neither side waits for the other: an application stopped in debugger_loop
   while gldb shows it running will be told to start, or has told gldb. *)
NoStandoff ==
    Joined /\ apc \in Loop /\ stopped /\ status # "STOPPED" =>
        Has(Pending, Starts) \/ Has(resps, Breaks)

(* "Asynchronous responses include a request ID field, which contains the
   request ID of the last request that started the program running"
   (protocol.xml:1195): a stop reaches gldb before it starts the program again,
   however a Stop request crossed a breakpoint, and it reaches gldb once. *)
BreakNamesStart ==
    galive => \A i, j \in DOMAIN resps :
        resps[i].code \in Breaks =>
            /\ resps[i].id = started
            /\ resps[j].code \in Breaks => i = j

\* The breakpoint tables the application will have when it has caught up: what the
\* last of the requests for a name says, or what it has if there is none.
Sets(r, code, name) == r.code = code /\ r.name = name
WillHave(code, name, table) ==
    \/ name \in table /\ \A i \in DOMAIN Pending : ~Sets(Pending[i], code, name)
    \/ \E i \in DOMAIN Pending :
          /\ Sets(Pending[i], code, name) /\ Pending[i].on
          /\ \A j \in DOMAIN Pending : j > i => ~Sets(Pending[j], code, name)
Eventually(f) == WillHave("SETBREAK", f, break_on)
EventuallyEvent(e) == WillHave("SETEVENT", e, break_on_event)

(* The two break tables agree up to the requests under way, whenever and in
   whichever state the user sets a breakpoint, over any number of runs. *)
BreakpointsConverge ==
    Joined => /\ \A f \in Known : Eventually(f) <=> (f \in DOMAIN gbreak /\ gbreak[f])
              /\ \A e \in Event : EventuallyEvent(e) <=> (e \in gevent)

(* A query is answered from the stop it was made in, and the state tree the
   panes read while the program is stopped is the tree of that stop. *)
AnsweredFromItsStop ==
    /\ \A r \in ToSet(resps) : "asked" \in DOMAIN r => r.from = r.asked
    /\ galive /\ status = "STOPPED" /\ root # NoTree => root = started

(* "Responses are always returned in the same order as the requests were
   received" (protocol.xml:715), which response_callback uses to erase the
   handlers a response overtakes: no handler is erased before its own response
   is there, unless its process died, and a handler is called for the answer to
   its own query and not for a stop or a start. *)
HandlersAnswered ==
    galive /\ resps # <<>> =>
        \A i \in DOMAIN handlers :
            /\ handlers[i] < Head(resps).id => handlers[i] < base
            /\ handlers[i] = Head(resps).id => "asked" \in DOMAIN Head(resps)

(* "Requests a running program to stop at the next available point"
   (protocol.xml:357): a Stop is answered, also inside glBegin/glEnd, also when
   the program stops of itself meanwhile.  A Stop the user has since overruled by
   starting the program again asks for nothing. *)
StopPending == \E i \in DOMAIN Pending :
    /\ Pending[i].code = "ASYNC"
    /\ \A j \in i .. Len(Pending) : Pending[j].code \notin Starts
StopHonoured == (galive /\ StopPending) ~> (status \in {"STOPPED", "DEAD"} \/ ~galive)

(* "If the process is running, we tell it to stop. It will then find QUIT on the
   command buffer and quit" (gldb-common.c:1211): closing the debugger ends the
   program, whatever it was doing. *)
QuitHonoured == Has(Pending, {"QUIT"}) ~> apc = "exited"

(* "Error reading from debugger, continuing" (debugger.c:1111): a debugger that
   is gone never leaves the program stopped for ever. *)
NeverAbandoned == ~galive ~> (apc = "exited" \/ ~stopped)
-----------------------------------------------------------------------------
Request ==
    [code : {"RUN", "CONT", "STEP", "ASYNC", "QUIT", "NULL"}, id : Nat]
    \cup [code : {"SETBREAK"}, id : {0}, name : BreakName, on : BOOLEAN]
    \cup [code : {"SETEVENT"}, id : {0}, name : Event, on : BOOLEAN]
    \cup [code : {"STATE_TREE_RAW"}, id : {0}, asked : Nat] \cup [code : {"DATA"}, id : Nat, asked : Nat]
Response ==
    [code : {"BREAK", "BREAK_EVENT", "RUNNING"}, id : Nat] \cup [code : {"ANS", "ERROR"}, id : {0}]
    \cup [code : {"STATE"}, id : {0}, asked : Nat, from : Nat \cup {NoTree}]
    \cup [code : {"DATA", "ERROR"}, id : Nat, asked : Nat, from : Nat \cup {NoTree}]

TypeOK ==
    /\ apc \in Loop \cup {"exited", "idle", "invoke"} /\ gl \in {"none", "inside", "outside"}
    /\ stopped \in BOOLEAN /\ break_on \subseteq Known /\ break_on_event \subseteq Event
    /\ start_id \in Nat
    /\ reqs \in Seq(Request) /\ rq \in Seq(Request) /\ reading \in BOOLEAN /\ resps \in Seq(Response)
    /\ galive \in BOOLEAN /\ status \in {"DEAD", "STARTED", "RUNNING", "STOPPED"}
    /\ DOMAIN gbreak \subseteq BreakName /\ IsFiniteSet(DOMAIN gbreak)
    /\ \A f \in DOMAIN gbreak : gbreak[f] \in BOOLEAN
    /\ gevent \subseteq Event /\ handlers \in Seq(Nat) /\ root \in Nat \cup {NoTree}
    /\ seq \in Nat /\ started \in Nat /\ base \in Nat
    /\ started < seq /\ base <= seq

\* Where the application is says whether it is stopped, and a gldb that is gone reads
\* nothing.
LoopInv ==
    /\ apc = "init" => stopped
    /\ apc \in {"idle", "invoke"} => ~stopped
    /\ ~galive /\ apc # "exited" => resps = <<>>
    /\ galive => (can_continue => status = "STOPPED") /\ (can_stop => status = "RUNNING")

(* One of the two has control, or hands it over: a request that starts the program
   is under way, or a response that says it stopped. *)
Signals == Breaks \cup {"RUNNING"}
SignalInv == galive =>
    /\ \A i \in DOMAIN resps : resps[i].code \in Signals =>
          /\ resps[i].id = started /\ status \in {"STARTED", "RUNNING"}
          /\ resps[i].code = "RUNNING" => status = "STARTED"
    /\ \A i, j \in DOMAIN resps : i < j /\ resps[i].code \in Signals /\ resps[j].code \in Signals =>
          resps[i].code = "RUNNING" /\ resps[j].code \in Breaks
ControlInv == Joined =>
    /\ status # "DEAD" /\ ~Has(Pending, {"NULL"})
    /\ status = "STOPPED" => stopped /\ ~Has(Pending, Starts)
    /\ status # "STOPPED" /\ stopped => Has(Pending, Starts) \/ Has(resps, Breaks)
    /\ ~stopped => ~Has(resps, Breaks)
    /\ apc = "init" => Has(Pending, Starts)
    /\ IF Has(Pending, Starts) THEN stopped /\ ~Has(resps, Signals) ELSE start_id = started
    /\ \A i, j \in DOMAIN Pending : Pending[i].code \in Starts =>
          /\ Pending[i].id = started /\ (Pending[i].code = "RUN" => status = "STARTED")
          /\ Pending[j].code \in Starts => i = j

\* Queries come before the request that ends the stop they are made in, and answers
\* before the response that announces the next.
Queries == {"STATE_TREE_RAW", "DATA"}
Asks(r) == "asked" \in DOMAIN r
QueryInv == Joined =>
    \A i \in DOMAIN Pending : Pending[i].code \in Queries =>
        /\ stopped /\ ~Has(resps, Breaks) /\ Pending[i].asked = start_id
        /\ \A j \in DOMAIN Pending : j < i => Pending[j].code \notin Starts
AnswerInv ==
    /\ \A i \in DOMAIN resps : Asks(resps[i]) => resps[i].from = resps[i].asked
    /\ galive =>
          /\ status = "STOPPED" => \A i \in DOMAIN resps : Asks(resps[i]) => resps[i].from = started
          /\ status = "STOPPED" /\ root # NoTree => root = started
          /\ \A i, j \in DOMAIN resps : i < j /\ resps[i].code \in Breaks => ~Asks(resps[j])

\* Each handler of this process is for a query that is under way, and so is its
\* answer before any with a greater number.
Answered(h, k) == \E j \in DOMAIN resps : j < k /\ Asks(resps[j]) /\ resps[j].id = h
Queried(h) == \E i \in DOMAIN Pending : Pending[i].code = "DATA" /\ Pending[i].id = h
Awaited(h) ==
    /\ \A k \in DOMAIN resps : resps[k].id > h => Answered(h, k)
    /\ Joined => Queried(h) \/ Answered(h, Len(resps) + 1)
HandlerInv == galive =>
    /\ \A i, j \in DOMAIN handlers : i < j => handlers[i] < handlers[j]
    /\ \A h \in ToSet(handlers) : h \notin {0, started} /\ h < seq /\ (h >= base => Awaited(h))

\* Numbers are given out in order, and queries travel in order.
InOrder ==
    /\ \A i \in DOMAIN Pending : Pending[i].id < seq
    /\ \A i, j \in DOMAIN Pending :
          i < j /\ Pending[i].code = "DATA" /\ Pending[j].code = "DATA" => Pending[i].id < Pending[j].id
NumberInv == galive => (\A i \in DOMAIN resps : resps[i].id < seq) /\ (Joined => InOrder)

\* The inductive invariant.
IInv == /\ TypeOK /\ LoopInv /\ SignalInv /\ ControlInv /\ QueryInv /\ AnswerInv /\ NumberInv
        /\ HandlerInv /\ BreakpointsConverge
-----------------------------------------------------------------------------
(* The debugger filter-set goes through the states of the protocol's document. *)
state == CASE apc = "exited" -> "dead"
           [] apc = "init" /\ stopped -> "startup"
           [] apc # "exited" /\ apc # "init" /\ stopped -> "stopped"
           [] apc # "exited" /\ ~stopped -> "running"
told == state = "stopped" /\ ~Has(resps, Breaks)
Protocol == INSTANCE ProtocolStates WITH attached <- galive
FollowsProtocol == Protocol!Spec
=============================================================================
