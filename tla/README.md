# A verification development for bugle

BuGLe intercepts the OpenGL calls of a program, passes each through a chain of
filters, and lets a debugger (gldb) stop the program at a call and look at its
OpenGL state.  This directory holds TLA+ modules of the parts of it in which
threads, processes or plug-ins meet, the TLC configurations that check them, and
proofs for TLAPS.  Paths below are relative to `src/`, the directory of the
program in the repository, unless they start with `doc/`.

How to run it, from this directory:

    tlc -config Workqueue.cfg MCWorkqueue      # any run of PROJECT.json
    tlapm Workqueue_proofs.tla                 # or any other *_proofs module

`PROJECT.json` lists the runs with the properties of each, for every property a
mutation of the model that breaks it, the source lines of every definition, the
hazards and the theorems.

## 1. The system

    application ── intercepted call ──> budgie_interceptor (interceptor.c)
                                          │ once: initialise_all, load_config
                                          v
                                   filters_run (filters.c), read lock
                     trackcontext, globjects, glbeginend, ... invoke ... debugger
                                                                          │
         worker thread ── request_queue (common/workqueue.c) ──> debugger_loop
              ^                                                           │
              │ pipe: requests                          pipe: responses   v
         gldb-common.c <── gldb-gui.c, panes <── response queue <── worker thread

| component | state | operations | interacts with |
|---|---|---|---|
| work queue, `common/workqueue.c` | ring, two semaphores, a lock, a thread | start, stop, free, has_data, get_item, wakeup callback | debugger filter-set (requests), GUI (responses) |
| debugger filter-set, `filters/debugger.c` | stopped, break tables, break_on_next, start_id | before and after each call; one operation per request | work queue, pipes, filters, glbeginend |
| gldb core, `gldb/gldb-common.c` | status, break tables, sequence numbers, state tree | run, continue, step, stop, quit, queries, responses | pipes, GUI |
| gldb GUI, `gldb/gldb-gui*.c` | action sensitivity, response handlers, panes | user actions, response_callback, end of the child | gldb core, response queue |
| filter chain, `filters.c` | active flags, lists of active callbacks, deferred list, bypass table, a rwlock | filters_run, activate, deactivate, defer, finalise, shutdown | every filter-set, key presses, debugger |
| order and loading, `filters.c`, `interceptor.c` | dependencies, orders, list of filter-sets | register, add, sort, load, shut down | configuration, plug-ins |
| threads on Windows, `platform/threads_msvcrt.c` | once counter; rwlock of two critical sections and an event | once, rdlock, wrlock, unlock | interceptor, filters |
| contexts and objects, `objects.c`, `glwin/trackcontext.c`, `gl/globjects.c` | object per context and namespace, current object per thread, list of objects alive | create, make current, destroy, bind, delete | filter chain, debugger (lists of textures etc.) |
| begin/end, display lists, `gl/glbeginend.c`, `gl/gldisplaylist.c` | flags and objects per context | glBegin, glEnd, glNewList, glEndList | debugger, every filter that renders |
| input, `input.c` | keys and their handlers, mouse state | XNextEvent, XPeekEvent, XIfEvent and the like | filters (toggle keys), camera |
| statistics, `stats.c`, `filters/stats_*.c`, `statsparse.y` | signals, samples, expressions | register, activate, update, evaluate | logstats, showstats |
| hash table, list, `common/` | entries | set, get, walk | everything |
| protocol and streams, `common/protocol.c`, `common/io.c` | buffers | send, receive | both ends of the session |
| visual and checking filter-sets, `filters/` | pixels, matrices, memory ranges | callbacks | filter chain |
| state inspection, `gl/glstate.c` and others | none (tables) | queries | debugger |
| generator and run-time library, `budgie/`, `budgielib/` | none at run time but address tables | | build |

### What is hard here, and what makes each part correct

*Interleaving.*  The work queue is a hand-made ring in which the consumer takes
no lock; it must lose no item and no wakeup.  The Windows rwlock has an unlock
that guesses the mode from a counter.  Two threads may go through the
initialisation at once.  A key press rebuilds the lists that a call walks.

*Two processes.*  A Stop request crosses a breakpoint; the user sets
breakpoints before, during and after a run; either process dies between any two
steps.  Each side must know who has control, and never wait for the other when
the other waits for it.

*Order.*  The GUI throws away response handlers on the strength of the order of
the responses.  Plug-ins register orders and dependencies that may be circular,
doubled or missing.  Deferred changes must come after the call.

*Stale state.*  A tree or a list of objects of an earlier stop; a bypass table
computed once; a context that was destroyed while it was current; a shader that
went with the last program it was attached to; a mouse motion that was under way
when the pointer was warped.

*Numeric edges.*  One permit fewer than slots; the valences of the sort; the
32-bit counter of the once control; a hash table that forgets at each growth how
full it is.

The list `hazards` in PROJECT.json has these at their lines, each with the
properties that would fail, or the reason why none does.

## 2. The modules

| module | models | abstract specification |
|---|---|---|
| `Workqueue`, `MCWorkqueue`, `Workqueue_proofs` | `common/workqueue.c`, both threads | `BoundedFifo` |
| `DebugSession`, `MCDebugSession`, `DebugSession_proofs` | `filters/debugger.c`, `gldb/gldb-common.c`, `gldb/gldb-gui.c` | `ProtocolStates` (doc/DocBook/protocol.xml) |
| `RWLock` | the rwlock of `platform/threads_msvcrt.c` | `RWLockSpec` |
| `ThreadOnce` | the once control of the same file | |
| `WindowsCalls`, `MCWindowsCalls`, `WindowsCalls_proofs` | intercepted calls through both: composes `ThreadOnce` and `RWLock` | `RWLockSpec` |
| `Filters`, `MCFilters`, `Filters_proofs` | the chain at run time in `filters.c`; uses `RWLockSpec` as its lock | |
| `FilterOrder` | `register_order`, `compute_order` | `OrderSpec` |
| `FilterSets`, `FilterSets_proofs` | registration, configuration, adding, loading, shutdown; composes `FilterOrder` | `OrderSpec` |
| `DrawChecks`; proofs in `Filters_proofs` | the checks of drawing calls in `filters/checks.c` | |
| `Primitives`; proofs in `FilterSets_proofs` | `filters/stats_primitives.c` with `gl/gldisplaylist.c` and `filters/logstats.c` | |
| `Screenshot`; proofs in `FilterSets_proofs` | `filters/screenshot.c` | what was to be seen, from a history of the swaps |
| `Overrides`; proofs in `Filters_proofs` | wireframe, frontbuffer and classify of `filters/modify.c`; `filters/camera.c` | what the application set, as a history |
| `SetsAtWork` | the instances of `DrawChecks`, `Primitives`, `Screenshot` and `Overrides`, side by side | |
| `MCFilterSets` | `FilterSets` and `SetsAtWork`, with values | |
| `Contexts`, `MCContexts` | `trackcontext.c`, `objects.c`, the shared part of `globjects.c` | |
| `ShaderObjects` | shaders and programs in `globjects.c` | |
| `HashTable` | `common/hashtable.c`, both copies | the map, as a history variable |
| `Objects`, `MCObjects`, `Objects_proofs` | composes `Contexts`, `ShaderObjects` and `HashTable`, one at a time | |
| `Input`, `MCInput`, `Input_proofs` | `input.c`: keys, pointer and the queue of events | |
| `GuiSession`, `GuiSession_proofs` | main loop, dialogs, child watches and panes of `gldb/gldb-gui*.c`, over successive programs | a session at a time (`SessionIntact`) |

Definitions that are said in their comment to leave something out
(`WPostIfEmpty`, `DoAsyncSilent`, `FreeForwards`, ...) are the mutations; no
action uses them.

### Workqueue

One step per access to a shared variable: `WConsume`, `WWaitSpace`, `WLock`,
`WStore`, `WUnlock`, `WPost`, `WWakeup` are the lines of `worker_thread`;
`HasLock` to `HasUnlock` those of `bugle_workqueue_has_data`, `GetCall` to
`GetPost` those of `bugle_workqueue_get_item`.  The main thread makes any call
whose assertions hold.  `Sleep` and `Wake` stand for an event loop that polls and
then sleeps until the wakeup callback runs, which is what GLib's loop does in the
GUI.  `items` starts out with `Junk`, what the allocator left there.

### DebugSession

`apc` is where the application's main thread is: in the loop of the initialiser
(`init`), of the callback before (`pre`) or after (`post`) a call, in the call,
or outside.  The requests that are on the pipe are `reqs`, those in the request
queue `rq`, with the capacity `Workqueue` proves (`Deliver` is the worker);
`resps` are the responses on the pipe and in gldb's queue together, since
nothing tells the two apart.  Each request of `process_single_command` is an
action (`DoRun`, `DoContinue`, `DoBreak`, `DoBreakEvent`, `DoStateTree`, `DoData`,
`DoAsync`, `DoQuit`).  On gldb's side each user action and each kind of response
is an action, with the sensitivity of the menu actions as `can_stop` and
`can_continue`, because the assertions of gldb-common.c rest on it.  Writing to a
process that is gone ends the writer (`Send`, `Reply`) unless SIGPIPE is ignored
(`SigpipeKills`): gldb never changes its disposition, the application may.
`started` and `base` are history: the last request that started the program, and
the first number of this process.  Answers have no content but the stop they were
asked in and the stop they come from.

### RWLock, ThreadOnce, WindowsCalls

One step per call into Windows or access to `num_readers`.  `u_test` is the point
of unlock at which a reader and a writer are the same to the code.  `ThreadOnce`
has the counter's width as `Modulus`; `wraps` is history, how often the counter came back
to 0, so that `RunsOnce` allows the function one run in each round of the counter.  `WindowsCalls` lets a thread lock only in
a call, after the once control has let it pass, or in the initialiser itself.  The
initialiser creates the lock (`Create`), so that a second run of it would
overwrite a lock in use.

### Filters

Each acquisition and release of `active_callbacks_rwlock` is a step, and so is
each callback of a walk.  A thread's record in `frame` has a ghost, `list`: the
list it began to walk.  `Process` is what the loop of `filters_run` does to a
deferred change: it casts the record to something larger and acts on memory that
is not its own, which is modelled by its possible outcomes, nothing or the end of
the process.  `hooked` records which hook a filter-set saw last.  The order of
`Loaded` is the one `FilterOrder` produces, the flags at the start are arbitrary.

### FilterOrder, FilterSets

A step per turn of each loop of `compute_order`, in the order of the code.  `FilterSets` starts with the
libraries' registrations in any order, then `load_config` with a chain of names,
then the recursion of `filter_set_add` with an explicit stack, then the sort, the
loaders, any of which may refuse, and the shutdown.  A required filter-set that
is not installed ends the program (`AddDependency`), as the null pointer does.

### Contexts

An intercepted call is two steps or more: the real call, then what the filters
make of it (`MakeCurrent`, `Track`; `Bind`, `Lock`, `Check`, `Set`), or the other
way round (`DestroyCall`, `Free`, `Destroy`).  Real calls may fail.  The OpenGL
side is `group`, `gl_current`, `alive` and `destroyed`.  Objects are named by the
context they were made for; names are of one type, the textures.

### ShaderObjects

A call that may end the life of shaders or programs is four steps or more: the
filter `globjects_pre`, which notes what to check (`UseProgram`, `DetachShader`,
`DeleteShader`, `DeleteProgram`; `glDeleteObjectARB` is the last two), the real call
(`Invoke`), in which OpenGL also drops what nothing holds any more (`Dropped`), and
then for each check the question (`Ask`) and the removal (`DeleteSingle`), with the
lock only around the latter.  The tables belong to a namespace, which a thread reaches
through its current context (globjects.c:64-84).  Every thread has one context; `home` is
the namespace of that context, any partition of the threads, because contexts that share
objects may have one namespace or several (trackcontext.c:268-283, 332-337; see
`SharersAgree` in section 4).  `listed` has the entries of all tables, and a step looks
into those of its own namespace only (`Entries`, `In`).  Three variables are history:
`maker`, the namespace in which a name was created last; `strayed`, entries whose object
went by a call made through another namespace, which the code leaves in the table;
`reused`, names that OpenGL gave out while a thread stood between question and removal, whose
entry that removal takes away.  `ListedIsAlive` says of each namespace that its tables are right
but for these two.  The application is taken to see to it that
no two calls attach, detach or delete at once, as OpenGL asks of it, and to use a name only
once the call that created it is back (`Known`); creations, and `glUseProgram` with itself,
overlap freely.  A `glCreateShader` that fails is left out: it returns 0, which
globjects.c:261-268 lists without a question.

### DrawChecks

What the checks filter-set does before a drawing call: `Ranges` are the bytes it finds
that the call will read, in the order in which it looks at them, and the actions try one
after the other.  Buffers are compared with their size (`Compare`).  Client memory is
read (`Lock`, `Setjmp`, `Install`, `Read`, `Restore`), and where that fails the handler
jumps to where sigsetjmp was called last, by whatever thread.  What OpenGL reads is said
apart (`ReadsOf`), vertex by vertex; the code wants the bytes between them, too (`Gap`).
`glMultiDrawElements` looks at as many indices of
each draw as there are draws; `Stray` is what comes of it.

### Primitives

The counts of stats_primitives.c beside what OpenGL draws: `displaylist` and `objects`
are the library's, `compiling` and `lists` those of OpenGL, and `Drawn` counts triangles
by what a mode means instead of by the formulas of `Triangles`.  The filter and the call
it belongs to are one action, since only one thread calls.

### HashTable

The tables are used under their owners' locks, so a step is a turn of one of the
loops that write.  A search writes nothing; `EndsAt` is where it ends.  The list of
primes is made by the first call that grows a table (`FirstPrime` to `LastPrime`).
`map` is history, what was set since the table was cleared.

### Input

The X server, the queue of events and the thread that is inside one of the
intercepted calls of Xlib.  A call goes through the queue as `input.c` does: events
that the handlers want are taken off and acted on, the rest is returned or left.
Motions that are under way while the pointer is warped are in the queue with the
place they were measured from.  Handlers are asked again for each event, as the
code asks them, so that their answer may change between press and release.
`zero` are the functions that return 0 with an event; none, or those of libX11.  The loop of
such a function ends on the first event it gets, wanted or not (`Returnable`, `Deliver`).
`held`, `steady`, `handed`, `promised` and `stale` are history: what the application saw, the
keys since whose press nothing changed that `event_predicate` looks at, the keys of which a
function handed over a wanted event in that way since the press, what was announced, and
the keys that the camera holds of an earlier press.  `PressesPaired` is about the keys in
`steady` that are not in `handed`, and `HotkeysServed` about functions that are not in `zero`:
with those of libX11 both sentences of input.c are false of an event that comes while a
function waits (section 4).  The last are the ones that
`camera_key_callback` (filters/camera.c:303) was never told the release of, because the
camera was off or the modifiers had changed by then; nothing else clears them, so a key
pressed again is in `camera.pressed` before its new press is dealt with, and
`PressesPaired` is about what this press did.  `MoveAssumption` is that motion keys are
registered with their releases (filters/camera.c:568-576).

### Screenshot

An action is a swap of the buffers: `TooSoon`, `Skipped` (within glBegin/glEnd), `Video`
with libavcodec, `Stream` with a pipe to an encoder, `Still` for a picture.  A frame is
the number of the swap that shows it, and `out` is what was encoded or written.  `video_data`
is the ring with its pixels and buffer objects as map_screenshot and unmap_screenshot leave
them, and how often each place is due.  `Moments`, `SwapOf`, `Due` and `Shown` say, from the
history `swaps` alone, what was to be seen: the ticks of the clock, each with the first swap
from then on, or the swaps themselves.  `VideoFollowsTime` compares `out` with them by their
ranks.  `ModeAssumption` has what `screenshot_initialise` and the types of the variables give:
a ring has a place, and just one for pictures.  Which filters run the swap, and the context switch around it,
are left out.

### Overrides

One of wireframe, frontbuffer and camera is loaded.  `gl` is the state of OpenGL per context,
`ctx` the object the filter-set keeps for it, and `Handled` its handle_activation, which
runs when the flag is changed (`Toggle`, by any thread) and when the context is made
current.  A call of the application is one step, with what the filters do before and after
it: the flag does not change meanwhile (read lock), and no other thread has the context.
`app` is history, what the application made of `gl`; `seen` is the flag when the context
could last take notice.  A context in which the code loses what the application set is put
in `spoilt`, at the step where that happens, and not followed further; section 4 lists
these steps.  The most important is a call made in a context that could not take notice of
a change of the flag (`Unseen`), being current in another thread or within glBegin/glEnd
then: `OverrideIsUndone` is about when the filter-sets read back and put back, not about
that.  Matrices count moves of the camera and of the application.

### GuiSession

gldb's main loop with everything that re-enters it: a dialog that is run inside a
callback dispatches the response queue, the child watch and the user's actions
again.  The worker of the responses, the child and the pipe are on the other side;
`run` counts the programs that were started, and a child watch belongs to one of
them.  A texture pane gathers its levels over several responses (`ImageWhole`).
GLib does not dispatch a source again inside its own callback; this is taken from
its documentation.  The requests and the content of the answers are in
`DebugSession`.

## 3. The runs

Numbers are distinct states, as TLC reports them.

| run | bounds | states | shows |
|---|---|---|---|
| `workqueue` | ring of 4 as in the code, 2 items | 276,769 | `PollHolds`; implements `BoundedFifo`; `SleeperIsWoken` under fairness |
| `debug_session` | 4 calls, 1 breakpoint, 1 event toggled, MaxSeq 3, MaxPipe 2, SIGPIPE ignored | 1,052,010 | the two sides agree (`StoppedTogether`, `NoStandoff`, `BreakNamesStart`, `BreakpointsConverge`), answers belong to their stop and handler (`AnsweredFromItsStop`, `HandlersAnswered`), the protocol document's states (`FollowsProtocol`) |
| `debug_session_liveness` | no breakpoints, MaxSeq 4, MaxPipe 3, SIGPIPE kills | 98,289 | `StopHonoured`, `QuitHonoured`, `NeverAbandoned` |
| `gui_session` | 2 programs, 2 clicks, 1 breakpoint | 1,060,519 | `SessionIntact`, `ImageWhole`, `EndIsShown` |
| `windows_calls` | 3 threads, 4 calls, a counter of 16 values | 5,543 | `RunsOnce` in the first round of the counter, refinement of readers/writers, no use before creation, `LockServed`, `CallersReturn` |
| `filters` | 2 threads, 3 functions, 3 filters, 2 deferred | 148,563 | `StableWalk`, `BypassSafe`, `CallsEnd` |
| `filter_sets` | 4 filter-sets, 3 registrations, chain of 1; 1,016 drawing calls and one of another thread; 2 contexts, 1 display list, 2 swaps, 2 batches each; videos of 4 swaps, rings of 1 to 3 places, 2 sizes; 1 context, 2 threads, 2 moves each of application and camera | 1,127,949 | list closed, sort right or refused, loaded in order; `IllegalIsIgnored`; `FramesReported`; `VideoFollowsTime`; `OverrideIsUndone` |
| `contexts` | 2 threads; 3 contexts and 1 texture; 1 program with 2 shaders, in one namespace or two; tables of 5 and 11 entries with 5 keys | 1,463,563 | `CurrentIsGl`, `ListsAlive`; `ListedIsAlive`; `ProbesEnd`, `FindsWhatWasSet` |
| `input` | 2 keys, 2 windows, 5 handlers, 3 moves, a queue of 3; functions that return what libX11's do, or never 0 | 225,418 | `PressesPaired`, `PendingHonest`, `CallsReturn`, `HotkeysServed` |

`contexts` checks three machines that have no state in common, and `filter_sets` five, one
at a time (`part`): the product would say nothing more.

Why the bounds suffice.  Every counter of the work queue is bounded by the
ring, so that run is exhaustive for the code's own constants (`BUGLE_WORKQUEUE_SIZE`
is 4, common/workqueue.c:30); two items tell a lost, doubled or swapped one.  A
crossing of a Stop with a breakpoint and a restart take three numbered requests
(Run, Stop, Continue or a query); MaxPipe limits when the user acts again, not
what the code may put on the pipes.  Three threads are two readers and a writer, or
two writers and a reader, and make four calls, so that one comes back after the
initialisation; the theorems of section 5 lift the number.  In `filters` the flag
and callback kinds cover each case of `compute_active_callbacks`.  Three
registrations reach every circle of up to three filter-sets and a doubled order;
that everything depends on `log` comes on top, since `bugle_filter_set_new` does
that.  Three contexts are two that share with a third.  Of `ShaderObjects` also the
instance was run in which OpenGL may give either of two names to a program or to a shader
(631,811 states).  In
`HashTable`, SIZE_MAX is 127 and the tables stop at the second prime; the theorems
lift both, and the keys are chosen to collide in both tables and with NULL.  In
`gui_session` two programs are an old one whose end comes late and a new one.  Of
`DrawChecks`, client memory is eight bytes that can be read, with bytes before and after
that cannot, a buffer has eight bytes, and size_t has 64 values: enough for each range to
end just inside, just outside, or to wrap around.  Elements are of one or two bytes,
packed or three apart, per vertex or per two instances.  The shapes of `Primitives` have
vertices left over and, for each formula of the code but the simplest, one case.  Three moves of
`input` are a press, its release and one thing between; two presses of one key with the
camera switched between take five, for which the invariants were run once without
liveness (more than 5 million states, not to the end), and the theorems lift the number.
Four swaps fill each ring and go once around; a frame of the video lasts two units and a pause up to
three, so that swaps come too soon, in time, and late enough to repeat a frame.
Of `Overrides`, contexts meet only in the flag, which a second thread changes as a second context would see it, so that one context is enough; two
moves tell a saved matrix from an older one.

`CHECK_DEADLOCK FALSE` is in every configuration because each system may stop: the
source runs dry, the process exits, the user does nothing, the bound of a model is
reached.

### Fairness

* Workqueue: both threads are scheduled and the mutex does not starve a waiter.
  `WConsume` has no fairness: the source may block for ever.
* DebugSession: worker, application and GUI main loop are scheduled, and calls
  return.  The application goes on making calls, and leaves glBegin/glEnd as
  OpenGL requires (strong fairness on `Leaves`).  Nothing is assumed of the user
  or of deaths.
* RWLock: each thread unlocks what it locked, and a critical section does not pass
  a waiter over for ever.
* ThreadOnce in WindowsCalls: strong fairness on the actions of the control,
  since `initialise_all` locks and unlocks finitely often and then returns.
* Filters: callbacks return.  Strong fairness on taking the lock is what
  `LockServed` shows of the Windows lock.  POSIX leaves the choice between readers
  and writers to the implementation, so on an implementation that prefers readers
  `CallsEnd` depends on the readers pausing.
* Input: the thread inside an intercepted call goes on.  Nothing is assumed of the
  user, the server or the application.
* GuiSession: the worker, the main loop's dispatch, the join and the child watches
  go on.  Nothing is assumed of the program, nor that the user closes a dialog
  before anything else happens.
* Contexts, ShaderObjects, HashTable, FilterSets, DrawChecks, Primitives,
  Screenshot and Overrides have no liveness property; that the loops of HashTable end is `ProbesEnd`.

## 4. Disagreements between code and text

Three runs end in a violation, each of one property that states what a text of the
repository says.

* `filters_defer` (`DeferredHappens`): the deferred list has records of one type,
  the loop casts them to another.
* `contexts_share` (`SharersAgree`): "context that owns the namespace - possibly
  self" (glwin/trackcontext.c:54), but a context that shares with none gets a null
  pointer instead of itself, so a context that is created to share with it gets a
  namespace of its own, and the debugger lists only what was bound in the present
  context.

* `input_release` (`NoOrphanRelease`): event_predicate is to return TRUE on release as well
  "so that the release event does not appear to the app without the press event"
  (input.c:225), but it compares the modifiers of the release too (172-174): let go of
  Shift before the key, and the application gets just that.

Seen while modelling, not run:

* "Error reading from debugger, continuing" (filters/debugger.c:1111) holds once.  The
  breakpoints and events stay armed; a program that ignores SIGPIPE and meets the
  next one waits for ever for a request nobody can send.  With the default
  disposition SIGPIPE ends it, as `debug_session_liveness` has it.
* The counter of the once control counts every intercepted call and wraps around:
  "We got here first." (platform/threads_msvcrt.c:37) is then said a second time, and the
  filter lock is created anew under whoever holds it.  `RunsOnce` allows for the second run;
  the other properties of `WindowsCalls` are of the first round.
* Deferring a change "prevents a self-deadlock" (filters.c:96), but the functions that
  defer take the write lock (filters.c:614), and a callback of a filter that calls them
  holds the read lock.  POSIX lets pthread_rwlock_wrlock report EDEADLK there, but
  filters.c does not look at the result; the Windows lock waits for itself.
* gldb: the join of the response worker hangs while four or more responses are
  outstanding (`Overrun`), or while a descendant of the program holds the pipe
  (`HeldOpen`); a program that ends while stopped() shows a dialog fails the
  assertion of gldb-common.c:1071; the buffer pane reads RESP_ERROR as data.
* A request written after the program exited, and before its end of file is
  dispatched, raises SIGPIPE in gldb (gldb/gldb-gui.c:660); GUI and program may both
  block in a write on full pipes (gldb/gldb-common.c:1003).
* glDeleteProgram(0), which is legal, makes globjects.c read a count that nothing set
  (gl/globjects.c:282-289); `DeleteZero` has it.  A program that a destroyed context
  used stays listed.
* A texture or shader that was created in one context and goes by a call made in a context
  that shares with it, but has another namespace, stays listed in the first one's
  (gl/globjects.c:64-84, 104, 197): "Shaders disappear when no longer attached to ANY
  program" (231), but what is updated is the caller's table.  `strayed` has these
  entries.  A name that is given out anew between the question and the removal is
  taken off the list with the old object (373-391; `reused`).
* lock() takes its mutex through a null pointer in a context that was used but not
  created (gl/globjects.c:78, `LockNowhere`); a context destroyed by one thread while
  current in another leaves that thread a freed object (glwin/trackcontext.c:356),
  and the entry of a destroyed context in initial_values is kept (line 261).
* A key NULL fills no entry of a table but is counted, and its value cannot be found
  (common/hashtable.c:257-264); trackcontext.c sets such a key (lines 332-336).
* A key whose letter is written in lower case is swallowed but never acted on, as
  the handlers are matched with the keysym of level 1 (input.c:231;
  doc/DocBook/manpages/bugle.xml:95).
* A step is not a stop at the next call if that call is within glBegin/glEnd or
  there is no context (doc/DocBook/protocol.xml:220 has no such exception);
  `DebugSession` has the behaviour (`Stoppable`).
* `filters_shutdown` runs at exit without the lock (filters.c:274, comment
  filters.c:86); with `ExitBusy = TRUE` the invariants of `Filters` fail.
* The activation hook of a filter-set that starts active is never run
  (filters.c:583: the flag is set before `filter_set_activate_nolock` tests it;
  doc/DocBook/manpages/camera.xml:38 only asks that the filter-set be activated).  `LoadFilterSets` has it so.
* A dependency keeps the flag of whoever asked first ("FIXME: deps should also be
  activated", filters.c:499).
* The result of `compute_order` on filter-sets is not looked at: with circular
  orders they are loaded as they were added, and `RequiredIsLoaded` says so.
* A glNewList that failed returns between `bugle_gl_begin_internal_render` and
  its end (gl/gldisplaylist.c:107); glEndList without a list reads through a null
  pointer (line 128).
* checks_glMultiDrawElements gives checks_min_max the number of draws for the number of
  indices (filters/checks.c:900, where count_ptr[i] was meant): too few are looked at, or
  indices after the last one, in memory that was not tried.  `DrawChecks` has it
  (`Counted`), and `IllegalIsIgnored` leaves such calls out.
* The first element of an array that is read is looked for at first times the size of an
  element, not the stride (filters/checks.c:514, 585); `IllegalIsIgnored` says where that
  matters (`Aligned`).
* While one thread has the handler of checks.c in place, a SIGSEGV of any other thread
  jumps to the first one's stack.  Zero instances or a negative count are reported as
  unreadable memory.
* stats_primitives_update counts a triangle too many for a quad strip with an odd number
  of vertices (filters/stats_primitives.c:74); a call that OpenGL refuses is counted all
  the same, glDeleteLists leaves the counts of the lists, and a glCallList that is itself
  compiled is counted then.  Two threads add to a signal without a lock (stats.c:152).
* "latency between readpixels and encoding" (filters/screenshot.c:104): whatever video_lag
  is, the frame that is encoded is the one before (line 463), the latency is one frame, and
  the last one is never encoded; with a lag of 1, a resize repeats the last one.
* A swap within glBegin/glEnd loses its time: it is counted before screenshot_start refuses
  (filters/screenshot.c:555-569), and the video is too short by it.
* After a write error the pipe is closed and set to NULL, but the video goes on: the next
  frame is written to NULL (filters/screenshot.c:644-652); `Stream` has it (`crashed`).  The
  result of lavc_initialise is not looked at (line 580).
* wireframe takes its own lines for the application's mode in a context that is first made
  current while it is active, since wireframe_context_init draws the lines and does not set
  `active` (filters/modify.c:156), and when only the front's mode is set (line 218).
  frontbuffer keeps the wrong buffer when a framebuffer object is bound, or when OpenGL
  refuses a glDrawBuffer (line 367).  doc/DocBook/manpages/wireframe.xml says that
  activation at run time is "not fully supported".
* A context that cannot take notice of an activation, because it is current in another
  thread or within glBegin/glEnd, is overridden by the next call all the same, and not
  put back; the camera then loads a matrix that was never saved (filters/camera.c:373).
* The key that resets the camera does not set `dirty` (filters/camera.c:311-314): the scene
  stays as it is until the application changes the matrix or the camera moves, where
  doc/DocBook/manpages/camera.xml:129 has it restore the camera.  camera_get does not look at
  what was asked for, and writes 16 values over any answer (lines 411-420).  A motion key
  that is held while the camera is deactivated counts as held when it is active again.
* The loops of XNextEvent, XWindowEvent, XMaskEvent and XIfEvent that skip intercepted events
  go on only while the real function does not return 0 (input.c:290, 430, 477, 567), and
  those of libX11 return 0.  "If the former, we process it and start again" (326-333) is
  then not so: a hotkey that comes while one of them waits is handed to the application and its
  handler is not run; and if a key's press was extracted before, its release may be handed
  over without it, which line 225 means to exclude.  `Deliver` has it; `HotkeysServed` and
  `PressesPaired` leave it out (`zero`, `handed`).
* `bugle_thread_rwlock_destroy` passes CloseHandle the address of the handle.

## 5. What is proved

TLAPS checks these for every value of the constants that satisfies the
assumptions named.

**Workqueue** (`Workqueue_proofs`; any ring of at least 2 slots, any set of items;
`SizeAssumption`, `JunkAssumption`).  None of the safety properties is inductive by
itself: that a slot is free when the worker writes it follows from the number of
permits, not from head and tail.  `IInv` adds that the semaphores account for every
slot, corrected by the step each thread is in (`DataPermits`, `SpacePermits`), that
the lock belongs to who is between its calls, that each slot between head and tail
holds an item, and what the last poll still says.  `Invariance` proves `IInv` with a
lemma per group of conjuncts and a case per action; `NeverOverwritesThm`,
`PollHoldsThm`, `NoMissedSignalThm` and `NoUseAfterFreeThm` follow.  `Refinement`
proves that the ring implements `BoundedFifo`: `WStore` appends (lemma
`StoreRefines`), `GetRead` takes (`ReadRefines`), and the rest stutters
(`OthersStutter`), over lemmas on the arithmetic of the ring.

**RWLock** (`WindowsCalls_proofs`, first part; any finite set of threads, fewer than the writer bit:
`ThreadAssumption`, `BitAssumption`, `FreeAssumption`).  `IInv` gives each word of the
lock its meaning: `num_readers` is the number of counted threads plus the bit if one
is due (`CountValue`), the event is set exactly when nobody is counted and no change
is under way (`EventValue`), each section belongs to the thread that is in it, and a
writer is alone.  `BitAssumption` is what keeps the count and the bit apart in one word.
From `IInv` follow `RWLockExclusion`, `RWLockUnlock` (the guess is right),
`RWLockNoLostSignal` and `RWLockRefinement`.

**WindowsCalls** (`WindowsCalls_proofs`, second part; as for `RWLock`, and `WidthAssumption`: the
counter has more than one value).  `CallsRunOnce` holds however many calls are made: by
`RoundsInv`, the runs, and the thread that came first and has yet to run the function, are
together as many as the rounds of the counter that were begun.  The others assume fewer
calls than the counter has values (`NoWrap`), and need to: with a modulus of 4 and more
calls TLC finds the second run, which creates the lock anew, at once.  `CallsInv` is the invariant of the once control, the
invariant of the lock, and what ties them: nobody is at the lock who was not let pass or is
not the initialiser, so that the step that creates the lock finds it unused.  That gives
`CallsComplete` (nobody returns before the function is complete),
`CallsCreateFirst`, and `CallsRefinement`: the three together implement `RWLockSpec`.

**Filters** (`Filters_proofs`; any filters, functions and threads; `LoadedAssumption`, and
`ExitBusy = FALSE`: no thread exits while others are in a call, which section 4 has the
reason for).  `IInv` says who holds the lock from where each thread is, that the lists are
those of the flags unless a writer is between a change and compute_active_callbacks, that
a walk's list is the list, and that no list has more than was registered for its function.
The last rests on `FlattenSeq`, which the community modules define by a recursive
function: `FlattensExists` and `FlattensType` are shown by least elements, since a set of
numbers that is not empty has one.  `FiltersStableWalk` and `FiltersBypassSafe` follow.

**Overrides** (`Filters_proofs`, second part; any threads and contexts, and any number of moves:
`NoContextAssumption`, no context and no object is the value for none).  `OverrideIsUndone` compares
`gl` with `app` at every moment, so it has to be shown how they differ.  `Known` says this for
each of the filter-sets while it is active: the polygon mode, the buffer or the view of the top
of the stack is the filter-set's, and the object has the application's.  `Kept` adds that they
are equal otherwise, and that the application itself has no view, which makes what the camera
reads back as original harmless.  `OverrideIInv` is this for every context that was current and
is not spoilt, with `active` the flag that the context saw last and whether it is real, and
nothing but the initial state for one that never was.  There is a lemma for each operation; the
calls on matrices rest on `MatrixStackFacts`, `TransformedFacts` and `CameraViews`.
`OverridesInvariant` and `OverridesUndone` are the results.  They say nothing of a context
that is spoilt, so they do not say that a change of the flag is safe for contexts that are
current in another thread: of those it is shown only as long as none of the overridden calls is
made in them before they are made current again.

**Contexts** (`Objects_proofs`, first part; any threads and names, any finite set of contexts:
`NullAssumption`, `ContextAssumption`).  What the library takes to be current differs from
OpenGL's while a call is under way, and a list differs from what is alive.  `IInv` says by
how much: the parts on OpenGL (`GlInv`), on objects per context (`ObjectInv`), on the
current object (`CurrentInv`), on who shares with whom (`RootInv`, `NamespaceInv`), on the
lock, and `ListInv`, which is stated for each share group and name, with the threads that
are `Busy` with it.  `ContextsCurrentIsGl` and `ContextsListsAlive` follow.

**ShaderObjects** (`Objects_proofs`, second part; any threads and names, any
partition of the threads' contexts into namespaces, and any `Picked`: `NoneAssumption`).
What OpenGL drops is decided in `Invoke`, what to check before it, and
what is listed after both, so `IInv` ties the three: OpenGL keeps no flagged object that
nothing holds (`DroppedInv`); nobody else changes objects while a thread is between its
filter and the real call, but for `glUseProgram` and creations (`CallInv`); what may go
with that call is among its checks (`CheckInv`); and what a namespace lists and is gone is among the
checks of a thread of that namespace, or went by a call made through another
(`Accounted`, for each namespace, kind and name, `ListInv`).  The step that matters is `BecomeInv`: whatever
`Dropped` yields is among the checks.  `InvokeInv` shows that for each kind of call, since
by `DroppedInv` only what this call let go of can drop.  `ShadersListedIsAlive` follows.
`ObjectsParts` proves that the product which the run checks is, part by part, each of the
three machines.

**DebugSession** (`DebugSession_proofs`; any calls, names, bounds and dispositions of
SIGPIPE; `NameAssumption`, `EventAssumption`, `BoundAssumption`).  Both processes may die
at any step and gldb starts new ones.  No property is inductive by itself; `IInv` says

* `LoopInv`, `SignalInv`, `ControlInv`: one side has control, or a request that starts the
  program is under way, or a response that says it stopped; there is at most one of these,
  and it carries the number of the last start;
* `QueryInv`, `AnswerInv`: queries come before the start that ends their stop, and answers
  before the announcement of the next stop;
* `NumberInv`: requests travel in the order of their numbers, which are below `seq`;
* `HandlerInv`: handlers are in order, and the answer of each is still to come: its query
  is under way, or its answer, before any response with a greater number;
* `BreakpointsConverge` itself.

`AppSteps` reduces the application's steps to seven kinds (`AppKinds`): it goes on, stops
of itself, dies, starts, takes a setting, answers, or is interrupted.  Each part of `IInv`
is kept by each kind (the lemmas in `Kinds`) and by each step of gldb (those in `Gui`),
given the parts above it.  `response_callback`'s loop and `gldb_run`'s list of
breakpoints get lemmas of their own (`AnswersSuffix`, `RunRequests`).  Seven theorems
follow, one for each property of the run `debug_session`; the last,
`SessionFollowsProtocol`, maps each step to a step of `ProtocolStates` or a stutter.

**GuiSession** (`GuiSession_proofs`; any number of runs, clicks and breakpoints,
`BoundAssumption`; the ring has the code's number of places, and a texture two levels).
`IInv` adds to the two properties

* `QueueInv`: a program that has not ended has its pipe, its queue and its worker, and the
  worker's NULL comes after the pipe is closed, so that nothing is under way when the join
  returns or when `child_exit_notify` finds no queue;
* `MenuInv`: what the menu offers, also while a dialog inside `stopped()` is open;
* `StartInv`: a program says that it runs before it says that it stopped, without which a
  break could be shown while the status is still "started" and Run would be offered;
* `LevelInv`: the levels asked for are under way in one order, over the requests and then
  the responses, each of an image that is to come or is being put together.

The last two are operators on two queues (`Starting`, `InOrder`), and so are their lemmas,
one for each thing that happens to the queues (`OrderAnswers`, `OrderAsks`, `OrderShows`,
`OrderEnds`, ...).  `Responses` is the ring, the worker's hand and the pipe in a row, so
that the worker only moves the borders (`WorkerMoves`).  Each action is one of these
things.  `GuiSessionIntact` and `GuiImageWhole` follow.

**FilterSets, FilterOrder** (`FilterSets_proofs`; any filter-sets, registrations, installed
libraries and chains; `NamesAssumption`).  The proof is about `FilterSets`, which has the
sort's steps by INSTANCE.  For the sort, `Sorter!IInv` says that a valence is the number of
places where the item is mentioned and which were not gone through (`Standing`: in the first
loop those the loop has passed, in the walk those the walk has yet to come to), and that the
queue and what is ordered are, without repetition, the items without valence.  So what is
put in front is mentioned by none that is still to come, which keeps the order (`TakeInv`);
and if the walk ends early, each item that is left is mentioned by another that is left,
which is a circle.  That an arranged list has no circle is shown by the last position of one
(`RespectsNotCyclic`).  For the rest, `IInv` says that the calls of `filter_set_add` on the
stack are for filter-sets that are each there once and not yet on the list, that each has
added what it required so far or is just calling for it (`StackInv`), that nothing else is
added and not on the list (`ListInv`), and that what is loaded is a prefix of the list
(`LoadedInv`).  `FilterSetsListClosed`, `FilterSetsSortsOrFails` and
`FilterSetsRequiredIsLoaded` follow.  That the recursion and the sort end is not stated:
each of their steps adds, passes or takes off one of finitely many things.

**HashTable** (`Objects_proofs`, third part; any set of keys, any hash function, any width of
size_t: `KeyAssumption`, `HashAssumption`, `SizeAssumption`).  That a loop which probes
finds a free entry does not follow from `count`, which starts at 0 again at each growth.
`TableInv` has what it does follow from: each size is more than twice the one before
(`Doubles`), and the occupied entries are at most `count` and the size before
(`Room`), which together leave an entry free; while a table is moved, the new one holds
what the old one held so far (`Moving`); every entry is where a search for its key ends
(`BothInPlace`), which rests on a lemma that a search has one end; and the entries hold
the map (`HoldsMap`).  `TableProbesEnd` and `TableFindsWhatWasSet` follow.  The existence
of an end needs no induction: it is the free or matching entry of least distance, which
`ProbesEnd` provides and the model's steps choose.

**Input** (`Input_proofs`; any keys, windows, masks and handlers, however much the user and
the other thread do: `FocusAssumption`, `AskAssumption` (presses and releases are asked for
together), `HandlerAssumption`, `MoveAssumption`).  `PressesPaired` speaks of the moment a
release arrives; its reasons lie at the press, some steps before.  `KeyInv` carries them
along, for each steady key that is not in `handed`, over the queue, the event in hand and what the application
got: there is one release at most and its press is before it (`Ordered`); the press has the
modifiers the release has or will have (`Paired`), so that both get one answer from
`event_predicate`; once the press is gone, the application has it or the release will be
wanted (`Settled`); and if the camera heard of the press, a handler is still to come that
tells it of the release (`LetGo`).  Each thing that can happen to an event is a lemma on
these operators (`TakenOff`, `HandedOver`, `PassedOn`, `PutDown`, ...), and each action one
or two of them.  `PendingHonest` is inductive with `CallInv`, over what a step does to the
number of events for the application (`NumberAppend`, `NumberRemove`).  `InputPressesPaired`
and `InputPendingHonest` follow.  An earlier form of `PressesPaired`, which counted keys of
earlier presses too, could not be proved and is false with five moves: hence `stale`.

**DrawChecks** (`Filters_proofs`, last part; any threads, calls, arrays and memory:
`CallerAssumption`, `DrawCallsAssumption`, `ContentAssumption`).  Two halves.  `DrawIInv` is
about the threads: of a call that is being checked, every range was good or is still to be
tried; between sigsetjmp and the end of a check, the jump buffer, the handler and what it
replaced belong to the thread that has checks_mutex (`Held`); and nothing crashes but a call
whose indices are counted wrong, since no other looks past its indices (`AstrayNone`).
`CallGood` is about one call: its ranges are good exactly if all that is between the first and
the last byte of each array that a draw may read is there.  It comes from the sums of the code
(`AttributeValid`): that the elements of instances are as many as the rounded quotient
says (`DivisorElements`), that multiplying by a stride keeps the order (`Strides`), that a
range which does not reach the end of size_t is not folded by its modulus (`BytesValid`).
`DrawsChecked` joins them.  `DrawCallsAssumption` says that no size or address of a call goes
beyond size_t: of one that does, the code tries the wrong bytes.  The proof is why the
property speaks of gaps (`Gap`): memory between two elements that nobody reads has to be there
as well, which instances with memory in one piece do not show.

**Primitives** (`FilterSets_proofs`, last part but one; any contexts, lists, batches and shapes:
`ShapesAssumption`).  Of each mode, the formula of the code is the number of pieces that
OpenGL makes (`Pieces`), but for a quad strip with a vertex left over, which the assumption
leaves out (see section 4).  `StatisticsInv`: a list object has the counts of what its list
draws, what is being compiled has an object that counts the same, and the signals are ahead
of those of the last swap by what was drawn since.  `StatisticsReported` follows.

**Screenshot** (`FilterSets_proofs`, last part; any modes, sizes, rates and rings, however
many swaps: `ModeAssumption`).  What is out lags behind what was to be seen, and the count
of a place is of the frame that was read back there, not of the one encoded: so
`ShotsInv` follows an enumeration `e` of the moments that are due (`Enumerates`).  All of it is
out but the moments of the frame captured last, which is in the place that is fetched next,
with as many times due as are left (`Encoding`, `Pending`); that what is read back into a
place is what will be encoded from it, whether it was mapped, copied or encoded from before,
is `PlaceFacts`.  `Clock` says which ticks were seen and that `video_frame_time` is the time
of the next, so that a step adds to `e` exactly the ticks that have passed, all for its own
swap (`Adds`), or none.  Once the size has changed, and for pictures, what is out is
`Shown`, its last frame perhaps repeated (`Matches`).  From an enumeration the ranks of
the property are its places, and `ShotsFollowTime` follows.  Nothing is said after an error
of the pipe, nor does the property.

Only model-checked: liveness, which the prover does not reach (`SleeperIsWoken`,
`LockServed`, `CallersReturn`, `CallsEnd`, `StopHonoured`, `QuitHonoured`,
`NeverAbandoned`, `EndIsShown`, `CallsReturn`, `HotkeysServed`).  Every safety property of
the passing runs is a theorem.  What a recursive definition computes is proved only where a
least counterexample will do, as for `FlattenSeq`.

## 6. What is not modelled

* Pixel channels: planned, below.
* In statistics: expressions, integrals over time, the other generators and showstats.
  In the checks: textures, and conditions on glBegin/glEnd.
* In `Screenshot`: the encoder and its errors, several contexts, each with buffer objects of
  its own.
* In `Overrides`: display lists (what the filter-sets do while one is compiled goes into it),
  texturing in wireframe, the camera's frustum and speed, and camera_get.
* State inspection, eps.c, logging, viewers, window-system
  glue, wire formats: data and output, whose control is the chain's.
* The generator and the parsers: no state at run time.
* The POSIX platform layer: wrappers; the models assume what POSIX promises.
* In `Contexts`: a context destroyed by one thread while current in another, two
  threads in the table of contexts at once (`trackcontext_destroycontext` takes no lock,
  and `doc/locks.txt` leaves locks to the user), a new context at an old address, auxiliary
  contexts, and types of objects that belong to one context.
* In `GuiSession`: the dialog in which the target is chosen, attaching gdb, and the list of
  response handlers and quitting, which are in `DebugSession`.
* In `HashTable`: destructors and the copies of string keys.
* In `DebugSession`: (de)activation of filter-sets (see `Filters`), the obsolete
  screenshot request, pipes that fill up.

The components in PROJECT.json say it file by file.

## 7. The plan

Done, in this order: `Workqueue` and its proofs; `DebugSession`; `RWLock`,
`ThreadOnce`, `WindowsCalls` and proofs; `Filters`; `FilterOrder`, `FilterSets`;
`Contexts`; `Input`; `GuiSession`; `HashTable` and its proofs; `ShaderObjects`;
`DrawChecks`; `Primitives`; `Screenshot`; `Overrides`; the proofs of `WindowsCalls`,
`Filters`, `Contexts`, `DebugSession`, `GuiSession`, `FilterSets`, `ShaderObjects`,
`Input`, `Overrides`, `DrawChecks`, `Primitives` and `Screenshot`.

Next modules:

1. Expressions over two samples (stats.c).
2. The pixel channels of gldb (gldb/gldb-channels.c) and the binary search of
   budgielib, as functions against a reference.

Next theorem: that the recursion of `filter_set_add` and the sort end, by a measure.
