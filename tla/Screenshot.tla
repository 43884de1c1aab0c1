----------------------------- MODULE Screenshot -----------------------------
(* filters/screenshot.c: at a swap of the buffers the frame is read back, into a ring of
   video_lag places, and a frame is encoded from there, as often as the rate of the video
   asks for; or a single picture is written if its key was pressed.

   A frame is the number of the swap that shows it.  mode is what the user configured and
   the build has: [video, lavc (or a pipe to ppmtoy4m), allframes, lag, pbo, map (does
   glMapBuffer succeed?)].  The filter-set may be inactive for a while: then there is no
   Swap.  One context is current throughout, and encoding succeeds. *)
EXTENDS Integers, Sequences, FiniteSets

CONSTANTS
    Mode,           \* the records that mode may be
    Size,           \* of the window, positive
    Step,           \* video_frame_step, in the unit of now
    MaxPause,       \* bounds on the time between two swaps,
    MaxTime,        \* on all of it,
    MaxSwaps        \* and on the swaps

NoPixels == -1      \* a null pointer
NoPbo == -1
Blank == 0          \* new memory

VARIABLES
    mode, now, size,
    video_data,     \* the ring: [width, pixels, pbo, pbo_mapped, multiplicity]
    video_cur, video_first, video_done, video_frame_time,
    keypress_screenshot,
    pipe,           \* "open", "broken", or "closed"
    crashed,
    out,            \* what was encoded or written: [frame, size]
    swaps           \* history, the swaps the filter saw: [time, size, ok, key]

ring == <<video_data, video_cur>>
timing == <<video_first, video_done, video_frame_time>>
vars == <<mode, now, size, ring, timing, keypress_screenshot, pipe, crashed, out, swaps>>

(* No clock runs backwards here, a ring has a place, and no window is empty.  Pictures
   are written at once: screenshot_initialise sets video_lag to 1. *)
ModeAssumption ==
    /\ Mode \subseteq [video : BOOLEAN, lavc : BOOLEAN, allframes : BOOLEAN, lag : Nat \ {0},
                       pbo : BOOLEAN, map : BOOLEAN]
    /\ \A m \in Mode : ~m.video => m.lag = 1
    /\ Size \subseteq Nat \ {0}
    /\ Step \in Nat \ {0} /\ MaxPause \in Nat /\ MaxTime \in Nat

Timed == mode.video /\ mode.lavc /\ ~mode.allframes
Place == 0 .. mode.lag - 1
Empty == [width |-> 0, pixels |-> NoPixels, pbo |-> NoPbo, pbo_mapped |-> FALSE, multiplicity |-> 0]

\* screenshot_initialise; calloc
Init ==
    /\ mode \in Mode /\ now = 0 /\ size \in Size
    /\ video_data = [i \in Place |-> Empty] /\ video_cur = 0
    /\ video_first = TRUE /\ video_done = FALSE /\ video_frame_time = 0
    /\ keypress_screenshot \in IF mode.video THEN {FALSE} ELSE BOOLEAN
    /\ pipe = "open" /\ crashed = FALSE
    /\ out = <<>> /\ swaps = <<>>
-----------------------------------------------------------------------------
Frame == Len(swaps) + 1

\* prepare_screenshot_data
Prepared(d) ==
    IF (d.pixels = NoPixels /\ d.pbo = NoPbo) \/ d.width # size
    THEN [d EXCEPT !.width = size, !.pbo = IF mode.pbo THEN Blank ELSE NoPbo,
                   !.pixels = IF mode.pbo THEN NoPixels ELSE Blank]
    ELSE d

\* glReadPixels, into the buffer object if there is one
ReadBack(d) == IF d.pbo = NoPbo THEN [d EXCEPT !.pixels = Frame] ELSE [d EXCEPT !.pbo = Frame]

(* map_screenshot: mapping the buffer, or a copy of it in memory that stays.
   unmap_screenshot leaves pbo_mapped as it was. *)
Mapped(d) ==
    IF d.pbo = NoPbo THEN d
    ELSE [d EXCEPT !.pixels = d.pbo, !.pbo_mapped = (d.pixels = NoPixels /\ mode.map)]
Unmapped(d) == IF d.pbo # NoPbo /\ d.pbo_mapped THEN [d EXCEPT !.pixels = NoPixels] ELSE d

\* do_screenshot: the place to encode from, and whether the size is still that of place 0
Fetch == (video_cur + mode.lag - 1) % mode.lag
Resized == mode.video /\ ~video_first /\ size # video_data[0].width

(* The ring with the new frame, and the frame that is fetched from it, count times. *)
Captured(data) == IF Resized THEN data ELSE [data EXCEPT ![video_cur] = ReadBack(Prepared(@))]
Encoded(data, times) ==
    [k \in 1 .. times |-> [frame |-> Mapped(data[Fetch]).pixels, size |-> data[Fetch].width]]

Encode(data, times) ==
    IF data[Fetch].width = 0 THEN out' = out /\ video_data' = data
    ELSE /\ out' = out \o Encoded(data, times)
         /\ video_data' = [data EXCEPT ![Fetch] = Unmapped(Mapped(@))]

Advance == video_cur' = (video_cur + 1) % mode.lag

(* The swap becomes history.  Time passes until the next one, if there is one; the
   window may change its size and the key may be pressed. *)
Swapped(ok) ==
    /\ swaps' = Append(swaps, [time |-> now, size |-> size, ok |-> ok, key |-> keypress_screenshot])
    /\ IF Len(swaps') = MaxSwaps
       THEN UNCHANGED <<now, size>> /\ keypress_screenshot' = FALSE
       ELSE /\ now' \in now .. (IF Timed THEN now + MaxPause ELSE now) /\ now' <= MaxTime
            /\ size' \in Size
            /\ keypress_screenshot' \in IF mode.video THEN {FALSE} ELSE BOOLEAN
    /\ UNCHANGED mode
-----------------------------------------------------------------------------
FrameTime == IF video_first THEN now ELSE video_frame_time
Ticks == IF now < FrameTime THEN 0 ELSE (now - FrameTime) \div Step + 1

\* Adds to what is left from the last time.
MultiplicityKept ==
    IF Timed THEN video_data[video_cur].multiplicity + Ticks ELSE 1

\* The ticks that have passed since the last frame that was captured
Multiplicity == IF Timed THEN Ticks ELSE 1

Counted == [video_data EXCEPT ![video_cur].multiplicity = Multiplicity]

Swapping == ~crashed /\ Len(swaps) < MaxSwaps
Recording == Swapping /\ mode.video /\ ~video_done

\* "drop the frame because it is too soon"
TooSoon ==
    /\ Recording /\ Timed /\ Ticks = 0
    /\ Swapped(TRUE)
    /\ UNCHANGED <<ring, timing, pipe, crashed, out>>

(* screenshot_start fails within glBegin/glEnd, after the time has been counted *)
Skipped ==
    /\ Recording /\ (Timed => Ticks > 0)
    /\ IF Timed THEN video_data' = Counted /\ video_frame_time' = FrameTime + Ticks * Step
       ELSE IF mode.lavc THEN video_data' = Counted /\ UNCHANGED video_frame_time
       ELSE UNCHANGED <<video_data, video_frame_time>>
    /\ Swapped(FALSE)
    /\ UNCHANGED <<video_cur, video_first, video_done, pipe, crashed, out>>

\* screenshot_video with libavcodec
Video ==
    /\ Recording /\ mode.lavc /\ (Timed => Ticks > 0)
    /\ LET data == Captured(Counted) IN Encode(data, data[Fetch].multiplicity)
    /\ video_frame_time' = IF Timed THEN FrameTime + Ticks * Step ELSE video_frame_time
    /\ video_done' = Resized /\ video_first' = FALSE
    /\ Advance /\ Swapped(TRUE)
    /\ UNCHANGED <<pipe, crashed>>

(* ... and with the pipe, through screenshot_stream.  After an error the pipe is closed,
   but the video goes on. *)
Stream ==
    /\ Recording /\ ~mode.lavc
    /\ LET data == Captured(video_data) IN
       IF data[Fetch].width > 0 /\ pipe = "broken"
       THEN /\ video_data' = [data EXCEPT ![Fetch] = Unmapped(Mapped(@))]
            /\ pipe' = "closed" /\ UNCHANGED <<out, crashed>>
       ELSE /\ Encode(data, 1)
            /\ crashed' = (data[Fetch].width > 0 /\ pipe = "closed") /\ UNCHANGED pipe
    /\ video_done' = Resized /\ video_first' = FALSE
    /\ Advance /\ Swapped(TRUE)
    /\ UNCHANGED video_frame_time

(* screenshot_file *)
Still ==
    /\ Swapping /\ ~mode.video /\ keypress_screenshot
    /\ \/ /\ Encode(Captured(video_data), 1)
          /\ video_first' = FALSE /\ Advance /\ Swapped(TRUE)
       \/ Swapped(FALSE) /\ UNCHANGED <<out, ring, video_first>>
    /\ UNCHANGED <<video_done, video_frame_time, pipe, crashed>>

NoStill ==
    /\ Swapping /\ ~mode.video /\ ~keypress_screenshot
    /\ Swapped(TRUE)
    /\ UNCHANGED <<ring, timing, pipe, crashed, out>>
-----------------------------------------------------------------------------
\* The encoder dies; SIGPIPE is ignored, or the program ends here.
Break ==
    /\ mode.video /\ ~mode.lavc /\ pipe = "open" /\ pipe' = "broken"
    /\ UNCHANGED <<mode, now, size, ring, timing, keypress_screenshot, crashed, out, swaps>>

Next ==
    \/ TooSoon \/ Skipped \/ Video \/ Stream \/ Still \/ NoStill
    \/ Break

Spec == Init /\ [][Next]_vars
-----------------------------------------------------------------------------
(* What was to be seen: of a video with all frames, each swap from the first on; of
   another, at each tick the first swap from then on; and the swaps with the key pressed.
   A swap within glBegin/glEnd is left out, and its ticks with it, and the video ends when
   the size changes. *)
Ok == {i \in DOMAIN swaps : swaps[i].ok}
Earliest(S) == CHOOSE i \in S : \A j \in S : i <= j
Start == Earliest(Ok)
AtTick(k) ==
    {i \in DOMAIN swaps : i >= Start /\ swaps[i].time >= swaps[Start].time + k * Step}

\* The moments at which something may be due, and the swap each asks for
Moments ==
    IF Ok = {} THEN {}
    ELSE IF Timed THEN {k \in 0 .. MaxTime : AtTick(k) # {}}
    ELSE DOMAIN swaps
SwapOf(k) == IF Timed THEN Earliest(AtTick(k)) ELSE k
Picture(k) == [frame |-> SwapOf(k), size |-> swaps[SwapOf(k)].size]

Due == {k \in Moments : swaps[SwapOf(k)].ok}
Shown ==
    {k \in Due : IF mode.video THEN \A j \in Due : j <= k => Picture(j).size = swaps[Start].size
                 ELSE swaps[k].key}
Rank(k) == Cardinality({j \in Shown : j <= k})

(* "By default, a frame is captured 30 times per second.  If this option is set, every
   frame is captured" (screenshot.xml, allframes): the video shows at each moment the
   frame that it should, in its size and order and once, and is behind by fewer frames
   than the ring is long, whatever was mapped or copied and however long the pauses are;
   a picture is of the swap after its key was pressed.  After the size has changed, the
   last frame may be repeated. *)
VideoFollowsTime ==
    pipe = "open" =>
    /\ \A k \in Shown : Rank(k) <= Len(out) => out[Rank(k)] = Picture(k)
    /\ \A n \in DOMAIN out : n > Cardinality(Shown) =>
          video_done /\ \E k \in Shown : Rank(k) = Cardinality(Shown) /\ out[n] = Picture(k)
    /\ Cardinality({SwapOf(k) : k \in {j \in Shown : Rank(j) > Len(out)}}) < mode.lag
=============================================================================
