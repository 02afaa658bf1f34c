------------------------------ MODULE RtdOutput ------------------------------
(***************************************************************************)
(* The output of MMS: threads of MMS compose the picture with imlib        *)
(* (renderer.cpp) and the thread of RTDdev (rtdout.cpp) converts its       *)
(* changed rectangles into the screen surface.  The two sides alternate    *)
(* through the events output_ready and output_done; threads of MMS exclude *)
(* each other with image_mut, and those that only use imlib's context poll *)
(* the flags of the device (render_device.cpp).                            *)
(*                                                                         *)
(* A job is what a thread of MMS does between two visits to the renderer:  *)
(*   screen     prepare_new_image or wait_and_aquire, draw, release        *)
(*   redraw     complete_redraw with image_mut held                        *)
(*   thumbnail  wait_for_not_drawing, then imlib on another image          *)
(* and the careless jobs, code that leaves out one of the steps:           *)
(*   dialog     Overlay::cleanup under image_mut without the wait          *)
(*   measure    imlib on another image under image_mut without the poll    *)
(*   session    complete_redraw without image_mut                          *)
(* A careless job breaks the protocol (and its picture) while it is inside;*)
(* the history variable astray follows this until the protocol rests again.*)
(***************************************************************************)
EXTENDS FiniteSets

CONSTANTS
  Users,    \* threads of MMS
  Areas,    \* parts of the screen
  Nobody    \* image_mut is free

Careful  == {"screen", "redraw", "thumbnail"}
Careless == {"dialog", "measure", "session"}
Jobs     == Careful \cup Careless

ASSUME UsersAssumption == Nobody \notin Users
ASSUME AreasAssumption == Areas # {}

VARIABLES
  pc, job,       \* where each thread of MMS is, and in which job, or "none"
  rpc,           \* where the thread of RTDdev is
  image_mut,     \* Render::image_mut
  output_ready, output_done,  \* the events
  drawing, new_to_draw,       \* the flags of RenderDevice
  draw_rects,    \* Render::draw_rects
  stale,         \* areas where the surface does not show the picture
  dropped,       \* history: the last draw ended without output_is_ready
  astray,        \* history: a careless job was inside since the last rest
  lost           \* history: areas left stale by a time astray, not drawn since

device == <<drawing, new_to_draw>>
events == <<output_ready, output_done>>
picture == <<draw_rects, stale, dropped>>
history == <<astray, lost>>
vars == <<pc, job, rpc, image_mut, events, device, picture, history>>

UserPcs == {"idle", "lock", "wait", "blocked", "reset", "mark", "compose",
            "redraw", "ready", "poll", "scale", "leave"}
DrawPcs == {"top", "signal", "wait", "blocked", "reset", "draw", "convert"}

\* ost::Event: a signal lets out the threads that wait and stays set; a thread
\* that comes later passes while it is set; reset clears it without the lock.
Events == [signaled : BOOLEAN, waiters : SUBSET (Users \cup {Nobody})]
Signal(e)  == [signaled |-> TRUE, waiters |-> {}]
Reset(e)   == [e EXCEPT !.signaled = FALSE]
Enter(e, t) == IF e.signaled THEN e
                             ELSE [e EXCEPT !.waiters = @ \cup {t}]

Init ==
  /\ pc = [t \in Users |-> "idle"] /\ job = [t \in Users |-> "none"]
  /\ rpc = "top"
  /\ image_mut = Nobody
  /\ output_ready = [signaled |-> FALSE, waiters |-> {}]
  /\ output_done  = [signaled |-> FALSE, waiters |-> {}]
  /\ drawing = FALSE /\ new_to_draw = FALSE
  /\ draw_rects = {} /\ stale = {} /\ dropped = FALSE
  /\ astray = FALSE /\ lost = {}

Goto(t, p) == pc' = [pc EXCEPT ![t] = p]

-----------------------------------------------------------------------------
(* The threads of MMS                                                      *)

Begin(t, j) ==
  /\ pc[t] = "idle"
  /\ job' = [job EXCEPT ![t] = j]
  /\ Goto(t, IF j = "session" THEN "wait" ELSE "lock")
  /\ UNCHANGED <<rpc, image_mut, events, device, picture>>

\* (Variant: an overlay is drawn as soon as image_mut is taken.)
DrawAtOnce(j) == CASE j \in {"screen", "dialog"} -> "compose"
                   [] j = "redraw"    -> "wait"
                   [] j = "thumbnail" -> "poll"
                   [] j = "measure"   -> "scale"

\* What a job does first when it has image_mut.
AfterLock(j) ==
  CASE j \in {"screen", "redraw"} -> "wait"
    [] j = "thumbnail"            -> "poll"
    [] j = "dialog"               -> "compose"
    [] j = "measure"              -> "scale"

EnterMutex(t) ==
  /\ pc[t] = "lock"
  /\ image_mut = Nobody
  /\ image_mut' = t
  /\ Goto(t, AfterLock(job[t]))
  /\ UNCHANGED <<job, rpc, events, device, picture>>

\* wait_for_output_done in three steps: wait, reset, new_to_draw.
WaitDone(t) ==
  /\ pc[t] = "wait"
  /\ output_done' = Enter(output_done, t)
  /\ Goto(t, IF output_done.signaled THEN "reset" ELSE "blocked")
  /\ UNCHANGED <<job, rpc, image_mut, output_ready, device, picture>>

WakeUp(t) ==
  /\ pc[t] = "blocked" /\ t \notin output_done.waiters
  /\ Goto(t, "reset")
  /\ UNCHANGED <<job, rpc, image_mut, events, device, picture>>

PassOn(t) ==   \* (variant: output_done stays set)
  /\ pc[t] = "reset"
  /\ Goto(t, "mark")
  /\ UNCHANGED <<job, rpc, image_mut, events, device, picture>>

ResetDone(t) ==
  /\ pc[t] = "reset"
  /\ output_done' = Reset(output_done)
  /\ Goto(t, "mark")
  /\ UNCHANGED <<job, rpc, image_mut, output_ready, device, picture>>

MarkNothing(t) ==   \* (variant: new_to_draw is not set)
  /\ pc[t] = "mark"
  /\ Goto(t, IF job[t] = "screen" THEN "compose" ELSE "redraw")
  /\ UNCHANGED <<job, rpc, image_mut, events, device, picture>>

MarkNew(t) ==
  /\ pc[t] = "mark"
  /\ new_to_draw' = TRUE
  /\ Goto(t, IF job[t] = "screen" THEN "compose" ELSE "redraw")
  /\ UNCHANGED <<job, rpc, image_mut, events, drawing, picture>>

\* draw: new and changed objects go into the picture, and the rectangles that
\* the surface must get are collected.
DrawObjects(t) ==
  /\ pc[t] = "compose"
  /\ \E changed \in (SUBSET Areas) \ {{}} :
       /\ draw_rects' = changed
       /\ stale' = stale \cup changed
  /\ Goto(t, "ready")
  /\ UNCHANGED <<job, rpc, image_mut, events, device, dropped>>

\* The optimisation "nothing to draw".
DrawNothing(t) ==
  /\ pc[t] = "compose"
  /\ draw_rects' = {}
  /\ Goto(t, "ready")
  /\ UNCHANGED <<job, rpc, image_mut, events, device, stale, dropped>>

\* An object was removed that no other object touches: draw returns before
\* output_is_ready, because there are no rectangles.
DrawDropped(t) ==
  /\ pc[t] = "compose"
  /\ draw_rects' = {}
  /\ dropped' = TRUE
  /\ Goto(t, "leave")
  /\ UNCHANGED <<job, rpc, image_mut, events, device, stale>>

CompleteDraw(t) ==
  /\ pc[t] = "redraw"
  /\ draw_rects' = Areas
  /\ Goto(t, "ready")
  /\ UNCHANGED <<job, rpc, image_mut, events, device, stale, dropped>>

ReadyIfRects(t) ==   \* (variant: no signal when there is nothing to draw)
  /\ pc[t] = "ready"
  /\ output_ready' = IF draw_rects = {} THEN output_ready
                                       ELSE Signal(output_ready)
  /\ dropped' = FALSE
  /\ Goto(t, "leave")
  /\ UNCHANGED <<job, rpc, image_mut, output_done, device, draw_rects, stale>>

OutputIsReady(t) ==
  /\ pc[t] = "ready"
  /\ output_ready' = Signal(output_ready)
  /\ dropped' = FALSE
  /\ Goto(t, "leave")
  /\ UNCHANGED <<job, rpc, image_mut, output_done, device, draw_rects, stale>>

\* wait_for_not_drawing looks every 100 ms.
WaitForNotDrawing(t) ==
  /\ pc[t] = "poll"
  /\ ~drawing /\ ~new_to_draw
  /\ Goto(t, "scale")
  /\ UNCHANGED <<job, rpc, image_mut, events, device, picture>>

\* imlib's context leaves the picture for another image and comes back.
UseImlib(t) ==
  /\ pc[t] = "scale"
  /\ Goto(t, "leave")
  /\ UNCHANGED <<job, rpc, image_mut, events, device, picture>>

LeaveMutex(t) ==
  /\ pc[t] = "leave"
  /\ image_mut' = IF image_mut = t THEN Nobody ELSE image_mut
  /\ job' = [job EXCEPT ![t] = "none"]
  /\ Goto(t, "idle")
  /\ UNCHANGED <<rpc, events, device, picture>>

\* The end of the full-screen track display draws and then redraws everything
\* without letting go of image_mut.
RedrawToo(t) ==
  /\ pc[t] = "leave" /\ job[t] = "screen"
  /\ job' = [job EXCEPT ![t] = "redraw"]
  /\ Goto(t, "wait")
  /\ UNCHANGED <<rpc, image_mut, events, device, picture>>

Work(t) ==
  \/ EnterMutex(t) \/ WaitDone(t) \/ WakeUp(t) \/ ResetDone(t) \/ MarkNew(t)
  \/ DrawObjects(t) \/ DrawNothing(t) \/ DrawDropped(t) \/ CompleteDraw(t)
  \/ OutputIsReady(t) \/ WaitForNotDrawing(t) \/ UseImlib(t) \/ LeaveMutex(t)
User(t) ==
  \/ Work(t) \/ RedrawToo(t)
  \/ \E j \in Jobs : Begin(t, j)

-----------------------------------------------------------------------------
(* The thread of RTDdev                                                    *)

NotDrawing ==
  /\ rpc = "top"
  /\ drawing' = FALSE /\ new_to_draw' = FALSE
  /\ rpc' = "signal"
  /\ UNCHANGED <<pc, job, image_mut, events, picture>>

SignalDone ==
  /\ rpc = "signal"
  /\ output_done' = Signal(output_done)
  /\ rpc' = "wait"
  /\ UNCHANGED <<pc, job, image_mut, output_ready, device, picture>>

WaitReady ==
  /\ rpc = "wait"
  /\ output_ready' = Enter(output_ready, Nobody)
  /\ rpc' = IF output_ready.signaled THEN "reset" ELSE "blocked"
  /\ UNCHANGED <<pc, job, image_mut, output_done, device, picture>>

WakeUpReady ==
  /\ rpc = "blocked" /\ output_ready.waiters = {}
  /\ rpc' = "reset"
  /\ UNCHANGED <<pc, job, image_mut, events, device, picture>>

ResetReady ==
  /\ rpc = "reset"
  /\ output_ready' = Reset(output_ready)
  /\ rpc' = "draw"
  /\ UNCHANGED <<pc, job, image_mut, output_done, device, picture>>

\* imlib's context has no data to read while another image is loaded into it.
SourceMayBeMissing == \E t \in Users : pc[t] = "scale"

\* rtd_draw returns at once when there are no rectangles or there is no source:
\* then the list is not shown.
RtdDraw ==
  /\ rpc = "draw"
  /\ \/ rpc' = IF draw_rects = {} THEN "top" ELSE "convert"
     \/ SourceMayBeMissing /\ rpc' = "top"
  /\ UNCHANGED <<pc, job, image_mut, events, device, picture>>

\* draw_rectangle for every rectangle: the picture goes to the surface.
DrawRectangles ==
  /\ rpc = "convert"
  /\ stale' = stale \ draw_rects
  /\ rpc' = "top"
  /\ UNCHANGED <<pc, job, image_mut, events, device, draw_rects, dropped>>

Device == NotDrawing \/ SignalDone \/ WaitReady \/ WakeUpReady \/ ResetReady
            \/ RtdDraw \/ DrawRectangles

-----------------------------------------------------------------------------
(* The history variables                                                   *)

Inside == {"reset", "mark", "compose", "redraw", "ready", "scale"}

\* A careless job draws, uses imlib or has taken the event.
CarelessInside == \E t \in Users : job[t] \in Careless /\ pc[t] \in Inside

\* The device waits for a frame, nobody draws, nobody has been let out of the
\* wait for output_done.
Resting ==
  /\ rpc \in {"wait", "blocked"} /\ ~output_ready.signaled
  /\ \A t \in Users : /\ pc[t] \notin Inside
                      /\ pc[t] = "blocked" => t \in output_done.waiters

DrawnAgain == \E t \in Users : pc[t] # "ready" /\ pc'[t] = "ready"

Track ==
  /\ astray' = ((astray \/ CarelessInside') /\ ~Resting')
  /\ lost' = IF astray' THEN {}
             ELSE IF astray THEN stale'
             ELSE IF DrawnAgain THEN lost \ draw_rects' ELSE lost

Next == (Device \/ \E t \in Users : User(t)) /\ Track

Spec == Init /\ [][Next]_vars

\* The device's thread and every thread inside the renderer run on.  No thread
\* has to come, and none is promised image_mut while others ask for it too.
Fairness == /\ WF_vars(Device /\ Track)
            /\ \A t \in Users : WF_vars(Work(t) /\ Track)
FairSpec == Spec /\ Fairness

-----------------------------------------------------------------------------
TypeOK ==
  /\ pc \in [Users -> UserPcs] /\ job \in [Users -> Jobs \cup {"none"}] /\ rpc \in DrawPcs
  /\ \A t \in Users : pc[t] = "lock" => job[t] \in Jobs \ {"session"}
  /\ image_mut \in Users \cup {Nobody}
  /\ output_ready \in Events /\ output_done \in Events
  /\ drawing \in BOOLEAN /\ new_to_draw \in BOOLEAN
  /\ draw_rects \subseteq Areas /\ stale \subseteq Areas
  /\ dropped \in BOOLEAN
  /\ astray \in BOOLEAN /\ lost \subseteq Areas

\* While the device's thread converts, no thread changes the picture, the list
\* of rectangles, or imlib's context, from which the converter takes its source
\* (imlib_image_get_data_for_reading_only).  This is what the waits are for, and
\* it does not hold from the moment that a careless job is inside; it holds
\* again, for whatever the others do, once device and renderer have rested.
PictureLeftAlone ==
  rpc = "convert" /\ ~astray =>
    \A t \in Users : pc[t] \notin {"compose", "redraw", "scale"}

\* An overlay is drawn after the output of the frame before it is done, as
\* renderer.hpp says of wait_and_aquire ("used for overlays").
OverlayAfterOutput ==
  rpc = "convert" => \A t \in Users : pc[t] # "compose"

\* What the surface does not show yet is on the list of the frame to come:
\* draw clears the list, so a list that is replaced before it is converted
\* leaves that area wrong until something else changes there.  Careless jobs
\* do that; what they left wrong is lost until it is drawn again, and nothing
\* is lost after the protocol has rested.
NoRectangleLost == ~astray => stale \ lost \subseteq draw_rects

\* Renderer and device take turns as OneFrame says: a frame is drawn on a
\* picture that is on the screen as a whole, and everything drawn is shown
\* before anybody draws again.  The turn is the renderer's from the signal of
\* output_done to that of output_ready.  A careless job disturbs the turns, and
\* when device and renderer rest the turn is the renderer's again.
Frames == INSTANCE OneFrame WITH
            turn <- IF astray THEN "astray"
                    ELSE IF rpc \in {"wait", "blocked"} /\ ~output_ready.signaled
                    THEN "renderer" ELSE "device",
            unshown <- IF astray THEN {} ELSE stale \ lost
FrameSpec == Frames!Spec

\* A thread that has entered the renderer, for a careful job or a careless one,
\* leaves it again (and with it lets go of image_mut), unless a draw has returned
\* without output_is_ready or another thread's sessions, which pass by image_mut,
\* draw again and again: wait_for_not_drawing may always look at the wrong time.
OthersRedraw(t) ==
  \E u \in Users \ {t} : job[u] = "session" /\ pc[u] = "redraw"
Served ==
  \A t \in Users :
    \/ []<>OthersRedraw(t)
    \/ pc[t] \notin {"idle", "lock"} ~> pc[t] = "idle" \/ dropped
=============================================================================
