----------------------------- MODULE SetsAtWork -----------------------------
(* Filter-sets at work, once they are loaded: four machines that have no state in
   common.  The checks of drawing calls, the statistics of triangles, videos and
   pictures, and the filter-sets that override the state of OpenGL. *)

CONSTANTS
    Caller,                                             \* threads
    DrawCalls, Readable, BufferSize, Content, Width,    \* see DrawChecks
    Sharer, List, Shape, MaxBatches, MaxFrames,         \* see Primitives: Context, and MaxSwaps
    Mode, Size, Step, MaxPause, MaxTime, MaxSwaps,      \* see Screenshot
    Context, NoContext, MaxMoves, MaxView               \* see Overrides

VARIABLES
    draw_pc, mutex, buf, handler, old_act, draw_crashed,
    gl_current, compiling, gl_lists, drawn, displaylist, objects, primitives, signals, cur, swaps,
    list_crashed,
    mode, now, size, video_data, video_cur, video_first, video_done, video_frame_time,
    keypress_screenshot, pipe, video_crashed, out, swap_history,
    override_set, override_active, current, begin_end, gl, ctx, pointer, app, seen, reset, spoilt

draws == <<draw_pc, mutex, buf, handler, old_act, draw_crashed>>
statistics == <<gl_current, compiling, gl_lists, drawn, displaylist, objects, primitives, signals,
                cur, swaps, list_crashed>>
video == <<mode, now, size, video_data, video_cur, video_first, video_done, video_frame_time,
           keypress_screenshot, pipe, video_crashed, out, swap_history>>
override == <<override_set, override_active, current, begin_end, gl, ctx, pointer, app, seen, reset, spoilt>>

C == INSTANCE DrawChecks WITH
    Thread <- Caller, Calls <- DrawCalls, pc <- draw_pc, crashed <- draw_crashed
Statistics == INSTANCE Primitives WITH Context <- Sharer, lists <- gl_lists, MaxSwaps <- MaxFrames, crashed <- list_crashed
Shots == INSTANCE Screenshot WITH crashed <- video_crashed, swaps <- swap_history
O == INSTANCE Overrides WITH
    Thread <- Caller, None <- NoContext, loaded <- override_set, active <- override_active

ASSUME CallerAssumption == C!ThreadAssumption
ASSUME DrawCallsAssumption == C!CallsAssumption
ASSUME ContentAssumption == C!MemoryAssumption
ASSUME ShapesAssumption == Statistics!ShapeAssumption
ASSUME PicturesAssumption == Shots!ModeAssumption
ASSUME NoContextAssumption == O!NoneAssumption
-----------------------------------------------------------------------------
\* A drawing call is passed on if what it reads is there, and ignored if not.
IllegalIsIgnored == C!IllegalIsIgnored

\* What is reported at a swap was drawn since the one before.
FramesReported == Statistics!FramesReported

\* A video shows what was to be seen when it was, a picture what was when its key was pressed.
VideoFollowsTime == Shots!VideoFollowsTime

\* What a filter-set overrides is known, and put back when it is no longer active.
OverrideIsUndone == O!OverrideIsUndone
=============================================================================
