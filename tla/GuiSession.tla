----------------------------- MODULE GuiSession -----------------------------
(* The main window of gldb (gldb/gldb-gui.c) over several runs of programs: when
   a session begins and ends, and what may still be under way when it does.

   Three threads of control meet here.  A program answers requests and ends when
   it likes.  A worker (common/workqueue.c) reads its responses, one at a time,
   into a ring of Slots places.  The main loop of GLib dispatches the ring's
   source, the child watches (SIGCHLD) and the user's actions, and runs again
   inside a dialog: there GLib does not dispatch the source whose callback opened
   the dialog, nor, as it is modal, the user's actions, but the child watches it
   does.  A session therefore ends in one of two ways, in either order: the NULL
   that the worker hands over at end of file, or the child watch; both call
   child_exit_notify, which joins the worker.

   What the requests do is DebugSession's subject; here they are the responses
   they put into the ring.  MaxRuns, MaxClicks and MaxBreaks bound the user. *)
EXTENDS Naturals, Sequences, SequencesExt

CONSTANTS MaxRuns,     \* times the user presses Run
          MaxClicks,   \* what the user does in all of them
          MaxBreaks    \* breakpoints set before a run

Slots == 3             \* BUGLE_WORKQUEUE_SIZE - 1
Levels == 0 .. 1       \* mipmap levels of the texture on display
LastLevel == 1
Programs == 1 .. MaxRuns

ASSUME BoundAssumption == MaxRuns \in Nat /\ MaxClicks \in Nat /\ MaxBreaks \in Nat

VARIABLES
    \* the program of the present run
    run,       \* how many runs there were; the present one's number
    local,     \* it is a child of gldb, not at the other end of ssh
    prog,      \* "none", "loading", "running", "stopped", "exited"
    open,      \* a process has the writing end of its pipe
    zombies,   \* the runs whose child watch has yet to be dispatched
    reqs, out, \* the pipes
    \* the worker and its queue
    worker, hand, ring, queue,
    lib,       \* the run whose pipe lib_in reads, 0 when it is closed
    \* gldb
    gldb,      \* "up", "aborted" by an assertion, "killed" by SIGPIPE
    nest,      \* the dialog open inside response_callback
    joining,   \* inside bugle_workqueue_stop
    status, sens,
    progressive, active,    \* the images of the texture pane
    clicks, seq,
    \* history
    overtaken  \* a session ended while stopped() was showing a dialog

program == <<run, local, prog, open, zombies>>
work == <<worker, hand, ring, queue, lib>>
session == <<status, sens, overtaken>>
pane == <<progressive, active>>
vars == <<program, reqs, out, work, gldb, nest, joining, session, pane, clicks, seq>>

Null == [code |-> "null"]
Plain(code) == [code |-> code]

\* An image: the query its levels were allocated for, and those that filled them
Blank == [of |-> 0, got |-> {}]

Init ==
    /\ run = 0 /\ local = TRUE /\ prog = "none" /\ open = FALSE /\ zombies = {}
    /\ reqs = <<>> /\ out = <<>>
    /\ worker = "none" /\ hand = Null /\ ring = <<>> /\ queue = FALSE /\ lib = 0
    /\ gldb = "up" /\ nest = "none" /\ joining = FALSE
    /\ status = "dead" /\ sens = {"dead"}
    /\ progressive = Blank /\ active = Blank
    /\ clicks = 0 /\ seq = 1 /\ overtaken = FALSE
-----------------------------------------------------------------------------
(* The program, and the debugger filter-set inside it. *)

Takes(code) ==
    /\ prog \notin {"none", "exited"} /\ reqs # <<>> /\ Head(reqs).code = code
    /\ reqs' = Tail(reqs)

Answers(r) == out' = Append(out, r)

Outside == <<work, gldb, nest, joining, session, pane, clicks, seq>>

\* Whatever descendants the program leaves behind may keep its pipe open.
Ends ==
    /\ prog' = "exited" /\ reqs' = <<>>
    /\ open' \in BOOLEAN
    /\ zombies' = IF local THEN zombies \cup {run} ELSE zombies
    /\ UNCHANGED <<run, local, out, Outside>>

ProgramSets ==
    /\ Takes("set")
    /\ Answers(Plain(IF Head(reqs).known THEN "ans" ELSE "error"))
    /\ UNCHANGED <<program, Outside>>

ProgramStarts ==
    /\ Takes("run") /\ prog' = "running" /\ Answers(Plain("running"))
    /\ UNCHANGED <<run, local, open, zombies, Outside>>

ProgramContinues ==
    /\ Takes("cont") /\ prog' = "running"
    /\ UNCHANGED <<run, local, open, zombies, out, Outside>>

ProgramBreaks ==
    /\ prog = "running"
    /\ prog' = "stopped" /\ Answers(Plain("break"))
    /\ UNCHANGED <<run, local, open, zombies, reqs, Outside>>

ProgramAsync ==
    /\ Takes("async")
    /\ IF prog = "stopped" THEN UNCHANGED <<prog, out>>
       ELSE prog' = "stopped" /\ Answers(Plain("break"))
    /\ UNCHANGED <<run, local, open, zombies, Outside>>

\* Inside glBegin/glEnd, where it does not stop, no state is available.
ProgramTree ==
    /\ Takes("tree")
    /\ \/ Answers(Plain("state"))
       \/ prog = "running" /\ Answers(Plain("error"))
    /\ UNCHANGED <<program, Outside>>

ProgramData ==
    /\ Takes("data")
    /\ \E good \in BOOLEAN :
          Answers([code |-> "data", id |-> Head(reqs).id, level |-> Head(reqs).level,
                   good |-> good])
    /\ UNCHANGED <<program, Outside>>

ProgramQuits == prog \notin {"none", "exited"} /\ reqs # <<>> /\ Head(reqs).code = "quit" /\ Ends
ProgramDies == prog \notin {"none", "exited"} /\ Ends

LastHolderEnds ==
    /\ prog = "exited" /\ open
    /\ open' = FALSE
    /\ UNCHANGED <<run, local, prog, zombies, reqs, out, Outside>>

ProgramNext ==
    \/ ProgramSets \/ ProgramStarts \/ ProgramContinues \/ ProgramBreaks \/ ProgramAsync
    \/ ProgramTree \/ ProgramData \/ ProgramQuits \/ ProgramDies \/ LastHolderEnds
-----------------------------------------------------------------------------
(* The worker: bugle_workqueue_thread over queue_consume. *)

Apart == <<program, reqs, gldb, nest, joining, session, pane, clicks, seq>>

\* gldb_get_response: the next response, or NULL at end of file
WorkerReads ==
    /\ worker = "reading"
    /\ out # <<>> \/ ~open
    /\ IF out # <<>> THEN hand' = Head(out) /\ out' = Tail(out)
       ELSE hand' = Null /\ UNCHANGED out
    /\ worker' = "holding"
    /\ UNCHANGED <<Apart, ring, queue, lib>>

WorkerStores ==
    /\ worker = "holding" /\ Len(ring) < Slots
    /\ ring' = Append(ring, hand)
    /\ worker' = IF hand = Null THEN "done" ELSE "reading"
    /\ UNCHANGED <<Apart, out, hand, queue, lib>>

WorkerNext == WorkerReads \/ WorkerStores
-----------------------------------------------------------------------------
(* What the main loop's callbacks do. *)

\* child_exit_notify once the worker is joined: the queue goes, with its source,
\* gldb_notify_child_dead closes the pipes, and only Run is left.
EndSession ==
    /\ worker' = "none" /\ hand' = Null /\ ring' = <<>> /\ queue' = FALSE /\ lib' = 0
    /\ out' = <<>>
    /\ status' = "dead" /\ sens' = {"dead"}
    /\ overtaken' = (overtaken \/ nest = "gdb")
    /\ joining' = FALSE

\* child_exit_notify that tells gldb-common of the death before it stops the queue.
NotifyClosesFirst ==
    IF queue
    THEN /\ joining' = TRUE /\ lib' = 0 /\ status' = "dead"
         /\ UNCHANGED <<worker, hand, queue, out, sens, overtaken>>
    ELSE EndSession

\* child_exit_notify
Notify ==
    IF queue
    THEN /\ joining' = TRUE
         /\ UNCHANGED <<worker, hand, queue, lib, out, session>>
    ELSE EndSession

\* A request written into a pipe that nobody reads raises SIGPIPE.
Send(ms) ==
    IF ~open THEN gldb' = "killed" /\ UNCHANGED reqs
    ELSE /\ reqs' = IF prog = "exited" THEN reqs ELSE reqs \o ms
         /\ UNCHANGED gldb

\* assert(cond) in gldb_send_*, then the request
SendIf(cond, ms) == IF cond THEN Send(ms) ELSE gldb' = "aborted" /\ UNCHANGED reqs

\* gldb_texture_pane_id_changed: a request for each level of the texture
TextureRequests(id) ==
    [i \in 1 .. LastLevel + 1 |-> [code |-> "data", id |-> id, level |-> i - 1]]
Query == Send(TextureRequests(seq)) /\ seq' = seq + 1

\* gldb_texture_pane_response_callback that keeps what it has of another image.
FirstIfNone(r) ==
    IF r.level = 0 /\ progressive.of = 0 THEN [of |-> r.id, got |-> {}] ELSE progressive

\* TEXTURE_CALLBACK_FLAG_FIRST
First(r) == IF r.level = 0 THEN [of |-> r.id, got |-> {}] ELSE progressive

Filled(r) == IF r.good THEN [First(r) EXCEPT !.got = @ \cup {r.id}] ELSE First(r)

\* stopped(), after notebook_update
FinishStopped ==
    /\ sens' = (sens \ {"running"}) \cup {"stopped"}
    /\ SendIf(status' # "dead", <<Plain("tree")>>)
-----------------------------------------------------------------------------
(* The main loop. *)

InLoop == gldb = "up" /\ ~joining

\* queue_dispatch, response_callback: the source is not dispatched inside itself.
Dispatches(code) ==
    /\ InLoop /\ nest = "none" /\ queue
    /\ ring # <<>> /\ Head(ring).code = code
    /\ ring' = Tail(ring)

Quiet == <<program, worker, hand, queue, lib, out, joining, overtaken, clicks>>

\* A response_callback to which NULL is one response more.
OnNullIgnored ==
    /\ Dispatches("null")
    /\ UNCHANGED <<Quiet, reqs, gldb, nest, status, sens, pane, seq>>

OnNull ==
    /\ Dispatches("null")
    /\ Notify
    /\ UNCHANGED <<program, reqs, gldb, nest, pane, clicks, seq>>

OnAnswer ==
    /\ Dispatches("ans")
    /\ UNCHANGED <<Quiet, reqs, gldb, nest, status, sens, pane, seq>>

OnError ==
    /\ Dispatches("error")
    /\ nest' = "error"
    /\ UNCHANGED <<Quiet, reqs, gldb, status, sens, pane, seq>>

OnRunning ==
    /\ Dispatches("running")
    /\ status' = "running"
    /\ sens' = (sens \ {"stopped", "dead"}) \cup {"running", "live"}
    /\ UNCHANGED <<Quiet, reqs, gldb, nest, pane, seq>>

\* If the backtrace is on display and gdb's answer does not parse, a dialog comes
\* up in notebook_update, in the middle of stopped().
OnBreak ==
    /\ Dispatches("break")
    /\ status' = "stopped"
    /\ \/ nest' = "gdb" /\ UNCHANGED <<sens, reqs, gldb>>
       \/ FinishStopped /\ UNCHANGED nest
    /\ UNCHANGED <<Quiet, pane, seq>>

\* The texture pane, if it is on display, asks for the texture it shows.
OnState ==
    /\ Dispatches("state")
    /\ \/ status = "stopped" /\ Query
       \/ UNCHANGED <<reqs, gldb, seq>>
    /\ UNCHANGED <<Quiet, nest, status, sens, pane>>

OnData ==
    /\ Dispatches("data")
    /\ LET r == Head(ring) IN
       IF r.level = LastLevel
       THEN active' = Filled(r) /\ progressive' = Blank
       ELSE progressive' = Filled(r) /\ UNCHANGED active
    /\ UNCHANGED <<Quiet, reqs, gldb, nest, status, sens, seq>>

\* child_exit_callback, whichever run the child was of
ChildWatch(p) ==
    /\ InLoop /\ p \in zombies
    /\ zombies' = zombies \ {p}
    /\ Notify /\ (queue => UNCHANGED ring)
    /\ UNCHANGED <<run, local, prog, open, reqs, gldb, nest, pane, clicks, seq>>

JoinReturns ==
    /\ gldb = "up" /\ joining /\ worker = "done"
    /\ EndSession
    /\ UNCHANGED <<program, reqs, gldb, nest, pane, clicks, seq>>

CloseDialog ==
    /\ InLoop /\ nest # "none"
    /\ nest' = "none" /\ UNCHANGED status
    /\ IF nest = "gdb" THEN FinishStopped ELSE UNCHANGED <<sens, reqs, gldb>>
    /\ UNCHANGED <<Quiet, ring, pane, seq>>

Dispatch ==
    \/ OnNull \/ OnAnswer \/ OnError \/ OnRunning \/ OnBreak \/ OnState \/ OnData
-----------------------------------------------------------------------------
(* The user.  A modal dialog takes every event of the main window. *)

UserActs == InLoop /\ nest = "none" /\ clicks < MaxClicks /\ clicks' = clicks + 1

Asks == <<program, out, work, nest, joining, overtaken, pane>>

\* run_action over gldb_execute and gldb_run: the break events, the breakpoints, RUN
Run ==
    /\ InLoop /\ nest = "none" /\ run < MaxRuns
    /\ "dead" \in sens /\ status = "dead"
    /\ run' = run + 1 /\ local' \in BOOLEAN /\ prog' = "loading" /\ open' = TRUE
    /\ \E n \in 0 .. MaxBreaks : \E known \in [1 .. n -> BOOLEAN] :
          reqs' = [i \in 1 .. 3 |-> [code |-> "set", known |-> TRUE]]
                  \o [i \in 1 .. n |-> [code |-> "set", known |-> known[i]]]
                  \o <<Plain("run")>>
    /\ worker' = "reading" /\ ring' = <<>> /\ queue' = TRUE /\ lib' = run'
    /\ status' = "started"
    /\ UNCHANGED <<zombies, out, hand, gldb, nest, joining, sens, overtaken, pane,
                   clicks, seq>>

StopAction ==
    /\ UserActs /\ "running" \in sens /\ status = "running"
    /\ SendIf(status \notin {"dead", "stopped"}, <<Plain("async")>>)
    /\ UNCHANGED <<Asks, status, sens, seq>>

\* continue_action, step_action
ContinueAction ==
    /\ UserActs /\ "stopped" \in sens
    /\ sens' = (sens \ {"stopped"}) \cup {"running"}
    /\ status' = "running"
    /\ SendIf(status = "stopped", <<Plain("cont")>>)
    /\ UNCHANGED <<Asks, seq>>

KillAction ==
    /\ UserActs /\ "stopped" \in sens
    /\ SendIf(status # "dead", <<Plain("quit")>>)
    /\ UNCHANGED <<Asks, status, sens, seq>>

ChooseTexture ==
    /\ UserActs /\ status = "stopped"
    /\ Query
    /\ UNCHANGED <<Asks, status, sens>>

UserNext == Run \/ StopAction \/ ContinueAction \/ KillAction \/ ChooseTexture
-----------------------------------------------------------------------------
Next ==
    \/ ProgramNext \/ WorkerNext \/ Dispatch \/ (\E p \in Programs : ChildWatch(p))
    \/ JoinReturns \/ CloseDialog \/ UserNext

Spec == Init /\ [][Next]_vars

(* The worker and the main loop are scheduled, and GLib dispatches every source
   that stays ready.  Nothing is assumed of the programs and of the user, who
   need not even close a dialog. *)
FairSpec ==
    /\ Spec
    /\ WF_vars(WorkerNext) /\ WF_vars(Dispatch) /\ WF_vars(JoinReturns)
    /\ \A p \in Programs : WF_vars(ChildWatch(p))
-----------------------------------------------------------------------------
(* The session, the queue, the worker and the pipe come and go together although
   three callbacks and two threads take part: the worker reads the open pipe of
   the present program and nothing else, nothing is left in a ring that is freed,
   and the menu offers what the status allows, on which the assertions of
   gldb_send_continue, gldb_send_quit, gldb_send_async and gldb_send_state_tree
   rest.  These fail in one way only, which `overtaken' names: the program ends
   while stopped() shows a dialog, and when it is closed stopped() goes on. *)
SessionIntact ==
    /\ worker = "reading" => lib = run
    /\ queue <=> status # "dead"
    /\ ring # <<>> \/ worker # "none" => queue
    /\ gldb = "aborted" => overtaken
    /\ InLoop /\ nest = "none" =>
           /\ "stopped" \in sens <=> status = "stopped"
           /\ "running" \in sens <=> status = "running"
           /\ "dead" \in sens <=> status \in {"dead", "started"}

(* The image on display, and the one being put together, is of one query and of
   one stop, however queries follow each other and whichever levels of an image
   were outstanding when a program ended. *)
ImageWhole ==
    /\ active.got \subseteq {active.of}
    /\ progressive.got \subseteq {progressive.of}

\* The join waits for ever: the ring is full, and only this thread empties it.
Overrun == joining /\ worker = "holding" /\ Len(ring) = Slots
\* The join waits for a process that has the pipe: one that the program left
\* behind, or, when the child watch was of an earlier run, the program itself.
HeldOpen == joining /\ worker = "reading" /\ open

(* The end of a program is shown.  Either signal of it alone is enough: of a
   remote program gldb has no child watch, of one whose pipe is held open it gets
   no end of file.  The exceptions are the ways in which the main thread hangs in
   child_exit_notify, a response that waits in an open dialog, and the death of
   gldb itself. *)
EndIsShown ==
    (prog = "exited" /\ (local \/ ~open)) ~>
        \/ status = "dead"
        \/ Overrun \/ HeldOpen
        \/ ~local /\ nest # "none"
        \/ gldb # "up"
-----------------------------------------------------------------------------
(* Requests and responses.  A texture is asked for level by level, so that what is
   under way is in the order of Key. *)
Request ==
    [code : {"set"}, known : BOOLEAN] \cup [code : {"run", "cont", "async", "tree", "quit"}]
    \cup [code : {"data"}, id : Nat, level : Levels]
Answer ==
    [code : {"ans", "error", "running", "break", "state"}]
    \cup [code : {"data"}, id : Nat, level : Levels, good : BOOLEAN]
Image == [of : Nat, got : SUBSET Nat]

\* The responses on their way to the main loop
Responses == ring \o (IF worker = "holding" THEN <<hand>> ELSE <<>>) \o out

TypeOK ==
    /\ run \in Nat /\ local \in BOOLEAN
    /\ prog \in {"none", "loading", "running", "stopped", "exited"}
    /\ open \in BOOLEAN /\ zombies \subseteq Nat
    /\ reqs \in Seq(Request) /\ out \in Seq(Answer)
    /\ worker \in {"none", "reading", "holding", "done"} /\ hand \in Answer \cup {Null}
    /\ ring \in Seq(Answer \cup {Null}) /\ queue \in BOOLEAN /\ lib \in Nat
    /\ gldb \in {"up", "aborted", "killed"} /\ nest \in {"none", "error", "gdb"}
    /\ joining \in BOOLEAN
    /\ status \in {"dead", "started", "running", "stopped"}
    /\ sens \subseteq {"dead", "live", "running", "stopped"}
    /\ progressive \in Image /\ active \in Image
    /\ clicks \in Nat /\ seq \in Nat \ {0} /\ overtaken \in BOOLEAN

\* A program that runs has its pipe, its queue and its worker; they go after it.
QueueInv ==
    /\ prog \notin {"none", "exited"} => open /\ queue
    /\ prog \in {"none", "exited"} => reqs = <<>>
    /\ prog = "none" => ~open
    /\ queue <=> status # "dead"
    /\ queue <=> worker # "none"
    /\ queue => lib = run
    /\ ~queue => ring = <<>> /\ out = <<>> /\ ~joining
    /\ worker = "done" \/ (worker = "holding" /\ hand = Null) => ~open

\* The menu offers what the status allows, but for a dialog inside stopped().
MenuInv ==
    /\ gldb = "up" /\ nest # "gdb" =>
          /\ "stopped" \in sens <=> status = "stopped"
          /\ "running" \in sens <=> status = "running"
          /\ "dead" \in sens <=> status \in {"dead", "started"}
    /\ gldb = "up" /\ nest = "gdb" =>
          IF status = "dead" THEN overtaken ELSE status = "stopped" /\ "dead" \notin sens
    /\ gldb = "aborted" => overtaken

\* A program, in state p with requests qs, says that it runs before it says, in the
\* responses rs, that it stopped.
Starting(rs, qs, p) ==
    /\ \A q \in ToSet(qs) : q.code \in {"set", "run"}
    /\ p \in {"running", "stopped"} => \E r \in ToSet(rs) : r.code = "running"
    /\ \A i \in DOMAIN rs : rs[i].code = "break" =>
          \E j \in DOMAIN rs : j < i /\ rs[j].code = "running"
StartInv == status = "started" => Starting(Responses, reqs, prog)

(* Levels travel in order, each image's after the one before; a level that is not the
   first is of the image being put together, or its first one is still to come. *)
IsData(r) == r.code = "data"
Key(r) == 2 * r.id + r.level
Before(r, s) == IsData(r) /\ IsData(s) => Key(r) < Key(s)
Ordered(s) == \A i, j \in DOMAIN s : i < j => Before(s[i], s[j])
Opens(s, id) == \E r \in ToSet(s) : IsData(r) /\ r.id = id /\ r.level = 0
Fits(r, rs, qs, of, n) == IsData(r) =>
    /\ of <= r.id /\ r.id < n
    /\ r.level = 0 => r.id # of
    /\ r.level = 1 => r.id = of \/ Opens(rs, r.id) \/ Opens(qs, r.id)
InOrder(rs, qs, of, n) ==
    /\ Ordered(rs) /\ Ordered(qs)
    /\ \A r \in ToSet(rs), q \in ToSet(qs) : Before(r, q)
    /\ \A r \in ToSet(rs) \cup ToSet(qs) : Fits(r, rs, qs, of, n)
    /\ of < n
LevelInv == InOrder(Responses, reqs, progressive.of, seq)

\* The inductive invariant
IInv == TypeOK /\ QueueInv /\ MenuInv /\ StartInv /\ LevelInv /\ ImageWhole
=============================================================================
