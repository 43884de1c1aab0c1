------------------------------- MODULE Input -------------------------------
(* Key and pointer interception on X11, input.c: each of Xlib's functions that
   hand out events takes those which a handler wants out of the queue, acts on
   them and lets the application see the others.  The handlers are what the
   filter-sets register: a toggle key of a filter-set (the camera's), the keys of
   the camera, which it only wants while it is active, and keys that set a flag.

   Xlib's queue and the connection it is filled from are one sequence.  One thread
   asks for events, with its context current; another may switch the camera. *)
EXTENDS Naturals, Sequences, SequencesExt, FiniteSets

CONSTANTS
    Key, Window,
    Focus,       \* the window with the keyboard focus
    Handlers,    \* handlers, in order: [key, state, press, upper, guarded, action]
    Masks,       \* event masks that the application asks with, sets of types
    Typed,       \* types that it asks for by XCheckTypedEvent
    Dga,         \* camera_dga
    MaxMoves,    \* bound on what the user, the server and the other thread do
    MaxQueue     \* bound on the events that wait when they do something

Type == {"press", "release", "motion", "other"}
States == {"plain", "shifted"}       \* key.state & STATE_MASK
Places == {"centre", "off"}          \* of the pointer in its window
NoWindow == "no window"

ASSUME FocusAssumption == Focus \in Window /\ NoWindow \notin Window
ASSUME AskAssumption ==
    /\ Masks \subseteq SUBSET Type /\ Typed \subseteq Type
    /\ \A m \in Masks : "press" \in m <=> "release" \in m
    /\ Typed \cap {"press", "release"} = {}
HandlerSet ==
    [key : Key, state : States, press : BOOLEAN, upper : BOOLEAN, guarded : BOOLEAN,
     action : {"toggle", "move", "grab", "flag"}]
ASSUME HandlerAssumption == Handlers \in Seq(HandlerSet)
\* camera_initialise registers the releases of its motion keys with their presses.
ASSUME MoveAssumption ==
    \A i \in 1..Len(Handlers) : Handlers[i].action = "move" /\ Handlers[i].press =>
        \E j \in 1..Len(Handlers) : Handlers[j] = [Handlers[i] EXCEPT !.press = FALSE]
ASSUME BoundAssumption == Dga \in BOOLEAN /\ MaxMoves \in Nat /\ MaxQueue \in Nat

VARIABLES
    camera,      \* [on, intercept, pressed]: is it active, camera_intercept, ctx->pressed
    mouse,       \* [active, first, window]
    queue,
    call,        \* the function the application is in
    got,         \* the event it took last
    user,        \* [down, state, pointer]
    zero,        \* the classes of functions that return 0 with an event
    moves,
    held,        \* keys the application saw pressed and not released
    steady,      \* keys for which event_predicate was one and the same since the press
    handed,      \* keys of which a function returned a wanted event with 0 since the press
    promised,    \* how many events XPending or XPeekEvent announced
    stale        \* keys in camera.pressed from before their last press

history == <<held, steady, handed, promised, stale>>
vars == <<camera, mouse, queue, call, got, user, zero, moves, history>>

NoEvent == [type |-> "none"]
Idle == [at |-> "idle"]
KeyEvent(t, k, s) == [type |-> t, key |-> k, state |-> s, window |-> Focus]
Motion(p) == [type |-> "motion", window |-> p.window, place |-> p.place]
Expose(w) == [type |-> "other", window |-> w]
IsKey(e) == e.type \in {"press", "release"}

Blocking == {"next", "if", "peek", "peek_if"}
Peeks == {"peek", "peek_if"}
\* libX11 returns 1 from XPeekEvent, and 0 from the other blocking functions.
Libx11 == Blocking \ {"peek"}

Init ==
    /\ camera \in [on : BOOLEAN, intercept : {TRUE}, pressed : {{}}]
    /\ mouse = [active |-> FALSE, first |-> TRUE, window |-> NoWindow]
    /\ queue = <<>> /\ call = Idle /\ got = NoEvent
    /\ user = [down |-> {}, state |-> "plain",
               pointer |-> [window |-> Focus, place |-> "off"]]
    /\ zero \in {{}, Libx11}
    /\ moves = 0 /\ held = {} /\ steady = {} /\ handed = {} /\ promised = 0 /\ stale = {}
-----------------------------------------------------------------------------
(* event_predicate: the press is not compared, so that releases match too, and
   wanted is asked whether it is a press or a release. *)
Catches(h, e) == h.key = e.key /\ h.state = e.state
Wants(h) == h.guarded => camera.on
\* Compares the press as well.
WantedExactly(e) ==
    \/ mouse.active /\ e.type = "motion"
    \/ IsKey(e) /\ \E i \in 1..Len(Handlers) :
           Catches(Handlers[i], e) /\ Wants(Handlers[i]) /\ Handlers[i].press = (e.type = "press")

Wanted(e) ==
    \/ mouse.active /\ e.type = "motion"
    \/ IsKey(e) /\ \E i \in 1..Len(Handlers) : Catches(Handlers[i], e) /\ Wants(Handlers[i])

(* handle_event for a key: the keysym is that of the shifted key, and the press
   must be the one the handler is for. *)
Matches(h, e) == Catches(h, e) /\ h.upper /\ h.press = (e.type = "press")

\* The places of the events for the application
Foreign(q) == {j \in 1..Len(q) : ~Wanted(q[j])}
Asked(e) == e.window \in call.ask.windows /\ e.type \in call.ask.types

\* Passes the application's own predicate on.
AcceptsAsked(e) == Asked(e)

(* What a real function accepts: the blocking ones run on XIfEvent with
   if_block_intercept. *)
Accepts(e) == Asked(e) \/ (call.class \in {"if", "peek_if"} /\ Wanted(e))

At(at) == call.at = at
FirstWanted == SelectInSeq(queue, Wanted)
FirstAccepted == SelectInSeq(queue, Accepts)

(* The events that are still to be dispatched. *)
InHand == IF At("idle") THEN {} ELSE {call.ev} \ {NoEvent}
Coming == ToSet(queue) \cup InHand

(* What was said on the strength of event_predicate lapses when its answer may
   change. *)
Predicate(on, active) ==
    /\ steady' = IF on = camera.on THEN steady ELSE {}
    /\ promised' = IF on = camera.on /\ active = mouse.active THEN promised ELSE 0
    /\ UNCHANGED <<held, handed, stale>>
-----------------------------------------------------------------------------
(* bugle_input_grab_pointer, bugle_input_release_pointer. *)
Grabbed == [mouse EXCEPT !.active = TRUE, !.first = TRUE]
Released == [mouse EXCEPT !.active = FALSE]

(* camera_activation, camera_deactivation. *)
Switched(on) ==
    IF ~camera.intercept THEN mouse ELSE IF on THEN Grabbed ELSE Released
SwitchCamera(on) ==
    /\ camera' = [camera EXCEPT !.on = on]
    /\ mouse' = Switched(on)
    /\ Predicate(on, mouse'.active)

(* XWarpPointer: the pointer's arrival is a motion like any other; whether a warp
   to the place where it already is makes one is left open. *)
Warp(w, q) ==
    LET target == [window |-> w, place |-> "centre"] IN
    /\ user' = [user EXCEPT !.pointer = target]
    /\ \/ queue' = Append(q, Motion(target))
       \/ user.pointer = target /\ queue' = q

(* The callbacks of the handlers: toggle_filterset, camera_key_callback,
   bugle_input_key_callback_flag. *)
Toggle ==
    SwitchCamera(~camera.on) /\ UNCHANGED queue
Move(k, press) ==
    /\ camera' = [camera EXCEPT !.pressed = IF press THEN @ \cup {k} ELSE @ \ {k}]
    /\ queue' = IF press THEN Append(queue, Expose(user.pointer.window)) ELSE queue
    /\ stale' = stale \ {k}
    /\ UNCHANGED <<mouse, held, steady, handed, promised>>
Grab ==
    /\ camera' = [camera EXCEPT !.intercept = ~@]
    /\ mouse' = IF camera.intercept THEN Released ELSE Grabbed
    /\ Predicate(camera.on, mouse'.active)
    /\ UNCHANGED queue
Callback(h, e) ==
    \/ h.action = "toggle" /\ Toggle
    \/ h.action = "move" /\ Move(e.key, e.type = "press")
    \/ h.action = "grab" /\ Grab
    \/ h.action = "flag" /\ UNCHANGED <<camera, mouse, queue, history>>
-----------------------------------------------------------------------------
(* What the application knows once it looks at the event it got. *)
Seen ==
    IF got.type = "press" THEN held \cup {got.key}
    ELSE IF got.type = "release" THEN held \ {got.key}
    ELSE held

Enter(class, ask) ==
    /\ At("idle")
    /\ call' = [at |-> IF class = "count" THEN "count" ELSE "extract", class |-> class,
                ask |-> ask, any |-> FALSE, ev |-> NoEvent, back |-> "", next |-> 0]
    /\ held' = Seen /\ got' = NoEvent
    /\ UNCHANGED <<camera, mouse, queue, user, zero, moves, steady, handed, promised, stale>>

Anything == [windows |-> Window, types |-> Type]
XNextEvent == Enter("next", Anything)
XPeekEvent == Enter("peek", Anything)
XIfEvent == \E m \in Masks : Enter("if", [windows |-> Window, types |-> m])
XMaskEvent == \E m \in Masks : Enter("if", [windows |-> Window, types |-> m])
XWindowEvent ==
    \E m \in Masks, w \in Window : Enter("if", [windows |-> {w}, types |-> m])
XPeekIfEvent == \E m \in Masks : Enter("peek_if", [windows |-> Window, types |-> m])
XCheckIfEvent == \E m \in Masks : Enter("check", [windows |-> Window, types |-> m])
XCheckMaskEvent == \E m \in Masks : Enter("check", [windows |-> Window, types |-> m])
XCheckWindowEvent ==
    \E m \in Masks, w \in Window : Enter("check", [windows |-> {w}, types |-> m])
XCheckTypedEvent == \E t \in Typed : Enter("check", [windows |-> Window, types |-> {t}])
XCheckTypedWindowEvent ==
    \E t \in Typed, w \in Window : Enter("check", [windows |-> {w}, types |-> {t}])
XPending == Enter("count", Anything)
XEventsQueued == Enter("count", Anything)

(* extract_events takes out one wanted event after the other. *)
ExtractTake ==
    /\ At("extract") /\ FirstWanted # 0
    /\ queue' = RemoveAt(queue, FirstWanted)
    /\ call' = [call EXCEPT !.at = "handle", !.any = TRUE, !.ev = queue[FirstWanted],
                            !.back = "extract", !.next = 1]
    /\ UNCHANGED <<camera, mouse, got, user, zero, moves, history>>

(* Every wanted event is gone: XPending counts again if there was one, the others
   go on to the real function. *)
Return(e) == call' = Idle /\ got' = e
\* Counts once, before the extraction.
AfterExtractOnce == IF call.class # "count" THEN "wait" ELSE "counted"

AfterExtract ==
    IF call.class # "count" THEN "wait" ELSE IF call.any THEN "count" ELSE "counted"

ExtractDone ==
    /\ At("extract") /\ FirstWanted = 0
    /\ IF AfterExtract = "counted"
       THEN Return(NoEvent) /\ promised' = call.next
       ELSE call' = [call EXCEPT !.at = AfterExtract] /\ UNCHANGED <<got, promised>>
    /\ UNCHANGED <<camera, mouse, queue, user, zero, moves, held, steady, handed, stale>>

(* The loop of XPending and XEventsQueued; call.next has the number. *)
Count ==
    /\ At("count")
    /\ IF queue = <<>>
       THEN Return(NoEvent) /\ promised' = 0
       ELSE /\ call' = [call EXCEPT !.at = "extract", !.any = FALSE, !.next = Len(queue)]
            /\ UNCHANGED <<got, promised>>
    /\ UNCHANGED <<camera, mouse, queue, user, zero, moves, held, steady, handed, stale>>

(* The real function: it blocks, finds an event, or finds none. *)
RealTake ==
    /\ At("wait") /\ FirstAccepted # 0
    /\ queue' = IF call.class \in Peeks THEN queue ELSE RemoveAt(queue, FirstAccepted)
    /\ call' = [call EXCEPT !.at = "took", !.ev = queue[FirstAccepted]]
    /\ UNCHANGED <<camera, mouse, got, user, zero, moves, history>>
RealNone ==
    /\ At("wait") /\ FirstAccepted = 0 /\ call.class \notin Blocking
    /\ Return(NoEvent)
    /\ UNCHANGED <<camera, mouse, queue, user, zero, moves, history>>

(* The loop that every function has: an event that is wanted is not returned,
   provided the function that found it did not return 0.  Those of libX11 do, so that
   an event that arrives while they wait goes to the application, wanted or not. *)
Returnable(e) == call.class \in zero \/ ~Wanted(e)

Deliver ==
    /\ At("took") /\ Returnable(call.ev)
    /\ Return(IF call.class \in Peeks THEN NoEvent ELSE call.ev)
    /\ handed' = IF Wanted(call.ev) /\ IsKey(call.ev) /\ call.class \notin Peeks
                  THEN handed \cup {call.ev.key} ELSE handed
    /\ promised' = IF Wanted(call.ev) THEN promised
                   ELSE IF call.class \in Peeks THEN IF promised = 0 THEN 1 ELSE promised
                   ELSE IF promised = 0 THEN 0 ELSE promised - 1
    /\ UNCHANGED <<camera, mouse, queue, user, zero, moves, held, steady, stale>>
Retry ==
    /\ At("took") /\ ~Returnable(call.ev)
    /\ call' = IF call.class \in Peeks
               THEN [call EXCEPT !.at = "extract", !.ev = NoEvent]
               ELSE [call EXCEPT !.at = "handle", !.back = "wait", !.next = 1]
    /\ UNCHANGED <<camera, mouse, queue, got, user, zero, moves, history>>
-----------------------------------------------------------------------------
(* handle_event: for a motion the pointer is brought back to the centre of the
   window in which the grab began; the camera hears of what it did since. *)
\* Goes on taking each motion for the first one.
AnchoredNot(w) == [mouse EXCEPT !.window = w]

Anchored(w) == [mouse EXCEPT !.first = FALSE, !.window = w]

Moved(e) == e.window = mouse.window /\ e.place # "centre"

Warps(e) == e.window # mouse.window \/ Moved(e)

(* The callback, camera_mouse_callback, redraws. *)
Recentre(e) == IF Moved(e) THEN Append(queue, Expose(user.pointer.window)) ELSE queue

HandleMotion ==
    /\ At("handle") /\ call.ev.type = "motion"
    /\ call' = [call EXCEPT !.at = call.back, !.ev = NoEvent]
    /\ \/ ~mouse.active /\ UNCHANGED <<mouse, queue, user>>
       \/ /\ mouse.active /\ Dga
          /\ queue' = Append(queue, Expose(user.pointer.window))
          /\ UNCHANGED <<mouse, user>>
       \/ /\ mouse.active /\ ~Dga /\ mouse.first
          /\ mouse' = Anchored(call.ev.window)
          /\ Warp(call.ev.window, queue)
       \/ /\ mouse.active /\ ~Dga /\ ~mouse.first
          /\ UNCHANGED mouse
          /\ IF Warps(call.ev)
             THEN Warp(mouse.window, Recentre(call.ev))
             ELSE UNCHANGED <<queue, user>>
    /\ UNCHANGED <<camera, got, zero, moves, history>>

(* ... for a key the handlers that match are tried in turn. *)
NextHandler ==
    SelectInSubSeq(Handlers, call.next, Len(Handlers), LAMBDA h : Matches(h, call.ev))
HandleKey ==
    /\ At("handle") /\ IsKey(call.ev) /\ NextHandler # 0
    /\ call' = [call EXCEPT !.next = NextHandler + 1]
    /\ IF Wants(Handlers[NextHandler])
       THEN Callback(Handlers[NextHandler], call.ev)
       ELSE UNCHANGED <<camera, mouse, queue, history>>
    /\ UNCHANGED <<got, user, zero, moves>>
HandleEnd ==
    /\ At("handle") /\ IsKey(call.ev) /\ NextHandler = 0
    /\ call' = [call EXCEPT !.at = call.back, !.ev = NoEvent, !.next = 0]
    /\ UNCHANGED <<camera, mouse, queue, got, user, zero, moves, history>>
-----------------------------------------------------------------------------
(* The user, the server and the other thread. *)
Happens == moves < MaxMoves /\ Len(queue) < MaxQueue /\ moves' = moves + 1
Press(k) ==
    /\ Happens /\ k \notin user.down
    /\ user' = [user EXCEPT !.down = @ \cup {k}]
    /\ queue' = Append(queue, KeyEvent("press", k, user.state))
    /\ steady' = IF \E e \in Coming \cup {got} : IsKey(e) /\ e.key = k
                  THEN steady \ {k} ELSE steady \cup {k}
    /\ handed' = handed \ {k}
    /\ stale' = stale \cup (camera.pressed \cap {k})
    /\ UNCHANGED <<camera, mouse, call, got, zero, held, promised>>
Release(k) ==
    /\ Happens /\ k \in user.down
    /\ user' = [user EXCEPT !.down = @ \ {k}]
    /\ queue' = Append(queue, KeyEvent("release", k, user.state))
    /\ UNCHANGED <<camera, mouse, call, got, zero, history>>
Shift ==
    /\ Happens
    /\ user' = [user EXCEPT !.state = IF @ = "plain" THEN "shifted" ELSE "plain"]
    /\ steady' = steady \ user.down
    /\ UNCHANGED <<camera, mouse, queue, call, got, zero, held, handed, promised, stale>>
Point(w) ==
    /\ Happens
    /\ user' = [user EXCEPT !.pointer = [window |-> w, place |-> "off"]]
    /\ queue' = Append(queue, Motion(user'.pointer))
    /\ UNCHANGED <<camera, mouse, call, got, zero, history>>
Redraw ==
    /\ Happens
    /\ queue' = Append(queue, Expose(Focus))
    /\ UNCHANGED <<camera, mouse, call, got, user, zero, history>>
OtherThread ==
    /\ Happens /\ SwitchCamera(~camera.on)
    /\ UNCHANGED <<queue, call, got, user, zero>>

Asks ==
    \/ XNextEvent \/ XPeekEvent \/ XIfEvent \/ XMaskEvent \/ XWindowEvent \/ XPeekIfEvent
    \/ XCheckIfEvent \/ XCheckMaskEvent \/ XCheckWindowEvent \/ XCheckTypedEvent
    \/ XCheckTypedWindowEvent \/ XPending \/ XEventsQueued
Inside ==
    \/ ExtractTake \/ ExtractDone \/ Count \/ RealTake \/ RealNone \/ Deliver \/ Retry
    \/ HandleMotion \/ HandleKey \/ HandleEnd
Environment ==
    \/ \E k \in Key : Press(k) \/ Release(k)
    \/ \E w \in Window : Point(w)
    \/ Shift \/ Redraw \/ OtherThread

Next == Asks \/ Inside \/ Environment
Spec == Init /\ [][Next]_vars
(* The application's thread is scheduled while it is in a call. *)
FairSpec == Spec /\ WF_vars(Inside)
-----------------------------------------------------------------------------
(* While nothing that event_predicate looks at changes between a press and the
   release of the same key, both go to the same place: the application gets no
   release without its press, and the camera does not go on moving after the key
   is up (event_predicate takes releases as well as presses, input.c:161, 225).  What
   the camera still holds of an earlier press says nothing of this one.
   This is of keys none of whose wanted events was returned with 0: a function
   of libX11 that has waited hands over the event that arrives without a look at
   it (the loops of input.c:290, 430, 477 and 567 end), so that a press may be
   extracted and its release go to the application.  For functions that do not return
   0, handed is empty. *)
PressesPaired ==
    /\ got.type = "release" /\ got.key \in steady \ handed => got.key \in held
    /\ \A k \in ((camera.pressed \ stale) \cap steady) \ handed :
           k \in user.down \/ \E e \in Coming : e.type = "release" /\ e.key = k

(* The comment at input.c:225, without that condition: "event_predicate returns True
   on release as well, so that the release event does not appear to the app without
   the press event."  This is with functions that return what the loops expect. *)
NoOrphanRelease == zero = {} /\ got.type = "release" => got.key \in held

(* As many events as XPending or XPeekEvent announced are there for the
   application: it does not block on events that were taken away from it
   (input.c:657). *)
PendingHonest ==
    promised <= Cardinality(Foreign(queue))
                + (IF call.at = "took" /\ call.class \notin Peeks /\ ~Wanted(call.ev)
                   THEN 1 ELSE 0)

(* "Interception events may occur before the real function ever returns ... If the
   former, we process it and start again" (input.c:326-333): a press of a filter's key
   that is there, or arrives, while the application waits in a blocking function comes to the
   handlers, unless the application's own event was first and the call is back, or the
   filter no longer wants the key.  This is of functions that do not return 0 with an
   event; where libX11 does, the loops end on it and the application gets the key. *)
Presses == [type : {"press"}, key : Key, state : States, window : {Focus}]
Waiting(e) == At("wait") /\ call.class \in Blocking \ zero /\ e \in ToSet(queue) /\ Wanted(e)
Handled(e) == At("handle") /\ call.ev = e
Lapsed(e) == e \in Coming /\ ~Wanted(e)
HotkeysServed ==
    \A e \in Presses :
        Waiting(e) ~> \/ Handled(e) \/ Lapsed(e)
                      \/ At("idle") /\ e \in ToSet(queue)

(* A call that need not wait, or for which an event is there, returns: handling
   events makes no end of new ones (each warp is a motion again, input.c:212). *)
HasAsked == \E e \in ToSet(queue) : ~Wanted(e) /\ Asked(e)
MustReturn == ~At("idle") /\ (call.class \notin Blocking \/ HasAsked)
CallsReturn == MustReturn ~> ~MustReturn
-----------------------------------------------------------------------------
(* The inductive invariant. *)
Event ==
    [type : {"press", "release"}, key : Key, state : States, window : {Focus}]
    \cup [type : {"motion"}, window : Window, place : Places]
    \cup [type : {"other"}, window : Window]
Calls ==
    [at : {"count", "extract", "wait", "took", "handle"}, class : Blocking \cup {"count", "check"},
     ask : [windows : SUBSET Window, types : SUBSET Type], any : BOOLEAN,
     ev : Event \cup {NoEvent}, back : {"", "extract", "wait"}, next : Nat]

TypeOK ==
    /\ camera \in [on : BOOLEAN, intercept : BOOLEAN, pressed : SUBSET Key]
    /\ mouse \in [active : BOOLEAN, first : BOOLEAN, window : Window \cup {NoWindow}]
    /\ ~mouse.first => mouse.window \in Window
    /\ queue \in Seq(Event) /\ got \in Event \cup {NoEvent}
    /\ call \in {Idle} \cup Calls
    /\ user \in [down : SUBSET Key, state : States, pointer : [window : Window, place : Places]]
    /\ moves \in Nat /\ promised \in Nat
    /\ held \subseteq Key /\ steady \subseteq Key /\ handed \subseteq Key /\ stale \subseteq Key

\* Where a call is, and what it has in hand.
CallInv ==
    /\ ~At("idle") => got = NoEvent /\ ("press" \in call.ask.types <=> "release" \in call.ask.types)
    /\ call.at \in {"count", "extract", "wait"} => call.ev = NoEvent
    /\ call.at \in {"took", "handle"} => call.ev # NoEvent
    /\ call.at \in {"wait", "took"} => call.class # "count"
    /\ At("handle") => call.next > 0
    /\ At("handle") => \/ call.back = "extract" /\ call.any
                       \/ call.back = "wait" /\ call.class # "count"
    /\ At("took") /\ call.class \in Peeks => \E j \in 1..Len(queue) : queue[j] = call.ev
    /\ At("extract") /\ call.class = "count" /\ ~call.any => call.next <= Len(queue)

(* What a steady key, k, has on its way: q is the queue, h the event that was taken
   off it and is in hand, at the handlers from place n on (n = 0: not yet there), g
   what the application got, u the user, and on whether the camera is active. *)
Of(e, type, k) == e.type = type /\ e.key = k
Holds(q, type, k) == \E j \in 1..Len(q) : Of(q[j], type, k)
KeyWanted(on, k, s) ==
    \E i \in 1..Len(Handlers) :
        Handlers[i].key = k /\ Handlers[i].state = s /\ (Handlers[i].guarded => on)
\* A handler from place n on tells the camera of the release.
Lets(on, k, s, n) ==
    \E i \in 1..Len(Handlers) :
        LET w == Handlers[i] IN
        i >= n /\ w.key = k /\ w.state = s /\ ~w.press /\ w.upper /\ w.action = "move" /\ (w.guarded => on)

\* It has one release at most, after its press, and none while it is down.
Ordered(k, q, h, g, has, u) ==
    /\ \A i, j \in 1..Len(q) :
           Of(q[i], "release", k) => /\ Of(q[j], "press", k) => j < i
                                     /\ Of(q[j], "release", k) => j = i
    /\ Of(h, "release", k) => ~Holds(q, "press", k) /\ ~Holds(q, "release", k)
    /\ Of(g, "release", k) => /\ k \notin u.down /\ k \in has
                              /\ ~Holds(q, "press", k) /\ ~Holds(q, "release", k)
    /\ k \in u.down => ~Holds(q, "release", k) /\ ~Of(h, "release", k)

\* A press has the modifiers that its release has, or will have.
Alike(k, s, q, u) ==
    \/ k \in u.down /\ u.state = s
    \/ \E j \in 1..Len(q) : Of(q[j], "release", k) /\ q[j].state = s
Paired(k, q, h, n, u, on) ==
    /\ \A i \in 1..Len(q) : Of(q[i], "press", k) => Alike(k, q[i].state, q, u)
    /\ Of(h, "press", k) => Alike(k, h.state, q, u)
    /\ n > 0 /\ IsKey(h) /\ h.key = k => KeyWanted(on, k, h.state)

\* If the press is dealt with, the application has it, or the release is wanted too.
Settled(k, q, h, seen, u, on) ==
    ~Holds(q, "press", k) /\ ~Of(h, "press", k) /\ k \notin seen =>
        /\ k \in u.down => KeyWanted(on, k, u.state)
        /\ \A j \in 1..Len(q) : Of(q[j], "release", k) => KeyWanted(on, k, q[j].state)
        /\ Of(h, "release", k) => KeyWanted(on, k, h.state)

\* What the camera takes for pressed it will be told of.
LetGo(k, q, h, n, u, on) ==
    \/ k \in u.down /\ Lets(on, k, u.state, 0)
    \/ \E j \in 1..Len(q) : Of(q[j], "release", k) /\ Lets(on, k, q[j].state, 0)
    \/ Of(h, "release", k) /\ Lets(on, k, h.state, n)

Taken == At("handle") \/ (At("took") /\ call.class \notin Peeks)
Hand == IF Taken THEN call.ev ELSE NoEvent
From == IF At("handle") THEN call.next ELSE 0
KeyInv ==
    \A k \in steady \ handed :
        /\ Ordered(k, queue, Hand, got, held, user)
        /\ Paired(k, queue, Hand, From, user, camera.on)
        /\ Settled(k, queue, Hand, Seen, user, camera.on)
        /\ k \in camera.pressed \ stale => LetGo(k, queue, Hand, From, user, camera.on)

IInv == TypeOK /\ CallInv /\ KeyInv /\ PendingHonest
=============================================================================
