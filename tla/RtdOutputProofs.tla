-------------------------- MODULE RtdOutputProofs --------------------------
(***************************************************************************)
(* The safety properties of RtdOutput, proved for any number of threads    *)
(* and for all the jobs of the code, the careless ones included.           *)
(***************************************************************************)
EXTENDS RtdOutput, TLAPS

-----------------------------------------------------------------------------
(* The inductive invariant                                                 *)

Drawing == {"mark", "compose", "redraw", "ready"}

\* image_mut belongs to the one thread inside that is not in a session, and a
\* thread does its own job only.
MutexInv ==
  \A t \in Users :
    /\ image_mut = t <=> pc[t] \notin {"idle", "lock"} /\ job[t] # "session"
    /\ pc[t] = "idle" => job[t] = "none"
    /\ pc[t] # "idle" => job[t] \in Jobs
    /\ pc[t] = "poll" => job[t] = "thumbnail"
    /\ pc[t] = "scale" => job[t] \in {"thumbnail", "measure"}
    /\ pc[t] \in {"wait", "blocked", "reset", "mark"}
         => job[t] \in {"screen", "redraw", "session"}
    /\ pc[t] = "compose" => job[t] \in {"screen", "dialog"}
    /\ pc[t] = "redraw"  => job[t] \in {"redraw", "session"}
    /\ pc[t] = "ready"   => job[t] \in {"screen", "dialog", "redraw", "session"}

\* Nobody waits for an event that is set, and only the device's thread clears
\* output_ready.
WaitInv ==
  /\ output_done.signaled => output_done.waiters = {}
  /\ rpc = "blocked" /\ output_ready.waiters = {} => output_ready.signaled

\* The rest holds when no careless job is inside and none has been since the
\* protocol rested.

\* Who is let out of the wait under image_mut finds output_done set.
WokenInv ==
  \A t \in Users :
    pc[t] = "blocked" /\ t \notin output_done.waiters /\ job[t] # "session"
      => output_done.signaled

\* One turn goes round: output_done, a thread that draws, output_ready, the
\* device's thread.
TurnInv ==
  /\ rpc \notin {"wait", "blocked"} => ~output_done.signaled
  /\ rpc = "reset" => output_ready.signaled
  /\ rpc \in {"top", "signal", "draw", "convert"} => ~output_ready.signaled
  /\ output_done.signaled => ~output_ready.signaled
  /\ \A t \in Users :
       /\ pc[t] = "reset"   => output_done.signaled
       /\ pc[t] \in Drawing => /\ rpc \in {"wait", "blocked"}
                               /\ ~output_done.signaled
                               /\ ~output_ready.signaled

\* new_to_draw covers the turn from the mark to the end of the conversion, and
\* does not change under a thread that has polled it.
FlagInv ==
  /\ output_ready.signaled \/ rpc \in {"draw", "convert"} => new_to_draw
  /\ \A t \in Users :
       /\ pc[t] \in Drawing \ {"mark"} => new_to_draw
       /\ pc[t] = "scale" => ~new_to_draw

\* The surface shows the picture, but for what an earlier time astray has lost,
\* from the end of a conversion to the next draw.
Unshown == stale \ lost
StaleInv ==
  /\ Unshown \subseteq draw_rects
  /\ output_done.signaled \/ rpc \in {"top", "signal"} => Unshown = {}
  /\ \A t \in Users : pc[t] \in {"mark", "compose", "redraw"} => Unshown = {}

Calm == ~CarelessInside /\ WokenInv /\ TurnInv /\ FlagInv /\ StaleInv

IInv == TypeOK /\ MutexInv /\ WaitInv /\ (astray \/ Calm)

-----------------------------------------------------------------------------
(* Type correctness                                                        *)

LEMMA TypeInit == Init => TypeOK
<1>1. [signaled |-> FALSE, waiters |-> {}] \in Events
  BY DEF Events
<1>2. QED
  BY <1>1 DEF Init, TypeOK, UserPcs, DrawPcs

\* Signal, Reset and Enter keep an event an event.
LEMMA EventsKept ==
  ASSUME NEW e \in Events, NEW t \in Users \cup {Nobody}
  PROVE  Signal(e) \in Events /\ Reset(e) \in Events /\ Enter(e, t) \in Events
  BY DEF Events, Signal, Reset, Enter

\* What Track does to the history variables.
LEMMA Tracks ==
  ASSUME TypeOK, Track, draw_rects' \subseteq Areas, stale' \subseteq Areas
  PROVE  /\ astray' \in BOOLEAN /\ lost' \subseteq Areas
         /\ ~astray /\ ~astray' =>
              lost' = IF DrawnAgain THEN lost \ draw_rects' ELSE lost
         /\ ~astray' => Resting' \/ (~astray /\ ~CarelessInside')
         /\ astray /\ ~astray' => Resting' /\ lost' = stale'
  BY DEF TypeOK, Track

LEMMA UserType ==
  ASSUME TypeOK, NEW t \in Users, User(t), Track
  PROVE  TypeOK'
<1> USE DEF Goto, events, device, picture
<1>1. /\ pc \in [Users -> UserPcs] /\ job \in [Users -> Jobs \cup {"none"}]
      /\ rpc \in DrawPcs /\ image_mut \in Users \cup {Nobody}
      /\ output_ready \in Events /\ output_done \in Events
      /\ drawing \in BOOLEAN /\ new_to_draw \in BOOLEAN
      /\ draw_rects \subseteq Areas /\ stale \subseteq Areas /\ dropped \in BOOLEAN
      /\ \A u \in Users : pc[u] = "lock" => job[u] \in Jobs \ {"session"}
  BY DEF TypeOK
<1> DEFINE Typed ==
      /\ pc' \in [Users -> UserPcs] /\ job' \in [Users -> Jobs \cup {"none"}]
      /\ rpc' \in DrawPcs /\ image_mut' \in Users \cup {Nobody}
      /\ output_ready' \in Events /\ output_done' \in Events
      /\ drawing' \in BOOLEAN /\ new_to_draw' \in BOOLEAN
      /\ draw_rects' \subseteq Areas /\ stale' \subseteq Areas /\ dropped' \in BOOLEAN
      /\ \A u \in Users : pc'[u] = "lock" => job'[u] \in Jobs \ {"session"}
<1>2. Typed
  <2>1. ASSUME NEW j \in Jobs, Begin(t, j) PROVE Typed
    BY <1>1, <2>1 DEF Begin, UserPcs
  <2>2. CASE RedrawToo(t)
    BY <1>1, <2>2 DEF RedrawToo, Jobs, Careful, UserPcs
  <2>3. CASE EnterMutex(t)
    <3>1. AfterLock(job[t]) \in UserPcs \ {"lock"}
      BY <1>1, <2>3 DEF EnterMutex, AfterLock, UserPcs, Jobs, Careful, Careless
    <3>2. QED
      BY <1>1, <2>3, <3>1 DEF EnterMutex
  <2>4. CASE WaitDone(t)
    BY <1>1, <2>4, EventsKept DEF WaitDone, UserPcs
  <2>5. CASE WakeUp(t)
    BY <1>1, <2>5 DEF WakeUp, UserPcs
  <2>6. CASE ResetDone(t)
    BY <1>1, <2>6, EventsKept DEF ResetDone, UserPcs
  <2>7. CASE MarkNew(t)
    BY <1>1, <2>7 DEF MarkNew, UserPcs
  <2>8. CASE DrawObjects(t) \/ DrawNothing(t) \/ DrawDropped(t) \/ CompleteDraw(t)
    BY <1>1, <2>8 DEF DrawObjects, DrawNothing, DrawDropped, CompleteDraw, UserPcs
  <2>9. CASE OutputIsReady(t)
    BY <1>1, <2>9, EventsKept DEF OutputIsReady, UserPcs
  <2>10. CASE WaitForNotDrawing(t) \/ UseImlib(t)
    BY <1>1, <2>10 DEF WaitForNotDrawing, UseImlib, UserPcs
  <2>11. CASE LeaveMutex(t)
    BY <1>1, <2>11 DEF LeaveMutex, UserPcs
  <2>12. QED
    BY <2>1, <2>2, <2>3, <2>4, <2>5, <2>6, <2>7, <2>8, <2>9, <2>10, <2>11
       DEF User, Work
<1>3. QED
  BY <1>2, Tracks DEF TypeOK

LEMMA DeviceType == TypeOK /\ Device /\ Track => TypeOK'
<1> SUFFICES ASSUME TypeOK, Device, Track PROVE TypeOK'
  OBVIOUS
<1> USE DEF events, device, picture, DrawPcs
<1>1. /\ rpc' \in DrawPcs /\ output_ready' \in Events /\ output_done' \in Events
      /\ drawing' \in BOOLEAN /\ new_to_draw' \in BOOLEAN
      /\ stale' \subseteq Areas
  <2>1. CASE NotDrawing
    BY <2>1 DEF NotDrawing, TypeOK
  <2>2. CASE SignalDone
    BY <2>2, EventsKept DEF SignalDone, TypeOK
  <2>3. CASE WaitReady
    BY <2>3, EventsKept DEF WaitReady, TypeOK
  <2>4. CASE WakeUpReady
    BY <2>4 DEF WakeUpReady, TypeOK
  <2>5. CASE ResetReady
    BY <2>5, EventsKept DEF ResetReady, TypeOK
  <2>6. CASE RtdDraw
    BY <2>6 DEF RtdDraw, TypeOK
  <2>7. CASE DrawRectangles
    BY <2>7 DEF DrawRectangles, TypeOK
  <2>8. QED
    BY <2>1, <2>2, <2>3, <2>4, <2>5, <2>6, <2>7 DEF Device
<1>2. UNCHANGED <<pc, job, image_mut, draw_rects, dropped>>
  BY DEF Device, NotDrawing, SignalDone, WaitReady, WakeUpReady, ResetReady,
         RtdDraw, DrawRectangles
<1>3. QED
  BY <1>1, <1>2, Tracks DEF TypeOK

\* Every variable keeps its type, whatever jobs are done.
THEOREM TypeCorrect == Spec => []TypeOK
<1>1. TypeOK /\ [Next]_vars => TypeOK'
  <2> SUFFICES ASSUME TypeOK, [Next]_vars PROVE TypeOK'
    OBVIOUS
  <2>1. CASE Device /\ Track
    BY <2>1, DeviceType
  <2>2. ASSUME NEW t \in Users, User(t), Track PROVE TypeOK'
    BY <2>2, UserType
  <2>3. CASE UNCHANGED vars
    BY <2>3 DEF TypeOK, vars, events, device, picture, history
  <2>4. QED
    BY <2>1, <2>2, <2>3 DEF Next
<1>2. QED
  BY TypeInit, <1>1, PTL DEF Spec

-----------------------------------------------------------------------------
(* The invariant is inductive                                              *)

LEMMA InvInit == Init => IInv
<1> SUFFICES ASSUME Init PROVE IInv
  OBVIOUS
<1>1. MutexInv /\ WaitInv
  BY UsersAssumption DEF Init, MutexInv, WaitInv
<1>2. ~CarelessInside /\ WokenInv /\ TurnInv /\ FlagInv /\ StaleInv
  BY DEF Init, CarelessInside, Inside, WokenInv, TurnInv, FlagInv, StaleInv,
         Unshown, Drawing
<1>3. QED
  BY <1>1, <1>2, TypeInit DEF IInv, Calm

\* Each action of a thread of MMS keeps each part of the invariant.
LEMMA UserMutex ==
  ASSUME TypeOK, MutexInv, WaitInv, NEW t \in Users, User(t)
  PROVE  MutexInv' /\ WaitInv'
<1> USE DEF TypeOK, MutexInv, WaitInv, Goto, events, device, picture
<1>1. ASSUME NEW j \in Jobs, Begin(t, j) PROVE MutexInv' /\ WaitInv'
  BY <1>1 DEF Begin, Jobs, Careful, Careless
<1>2. CASE RedrawToo(t)
  BY <1>2 DEF RedrawToo, Jobs, Careful
<1>3. CASE EnterMutex(t)
  BY <1>3, UsersAssumption DEF EnterMutex, AfterLock, Jobs, Careful, Careless
<1>4. CASE WaitDone(t)
  BY <1>4 DEF WaitDone, Enter, Events
<1>5. CASE WakeUp(t)
  BY <1>5 DEF WakeUp
<1>6. CASE ResetDone(t)
  BY <1>6 DEF ResetDone, Reset, Events
<1>7. CASE MarkNew(t)
  BY <1>7 DEF MarkNew
<1>8. CASE DrawObjects(t) \/ DrawNothing(t) \/ DrawDropped(t) \/ CompleteDraw(t)
  BY <1>8 DEF DrawObjects, DrawNothing, DrawDropped, CompleteDraw
<1>9. CASE OutputIsReady(t)
  BY <1>9 DEF OutputIsReady, Signal
<1>10. CASE WaitForNotDrawing(t) \/ UseImlib(t)
  BY <1>10 DEF WaitForNotDrawing, UseImlib
<1>11. CASE LeaveMutex(t)
  BY <1>11, UsersAssumption DEF LeaveMutex
<1>12. QED
  BY <1>1, <1>2, <1>3, <1>4, <1>5, <1>6, <1>7, <1>8, <1>9, <1>10, <1>11
     DEF User, Work

LEMMA UserTurn ==
  ASSUME TypeOK, MutexInv, WaitInv, Calm, NEW t \in Users, User(t),
         ~CarelessInside'
  PROVE  WokenInv' /\ TurnInv'
<1> USE DEF TypeOK, WokenInv, TurnInv, Calm, Goto, events, device, picture, Drawing
<1>1. ASSUME NEW j \in Jobs, Begin(t, j) PROVE WokenInv' /\ TurnInv'
  BY <1>1 DEF Begin
<1>2. CASE RedrawToo(t)
  BY <1>2 DEF RedrawToo
<1>3. CASE EnterMutex(t)
  <2>1. AfterLock(job[t]) # "compose"
    BY <1>3 DEF EnterMutex, AfterLock, CarelessInside, Inside, Careless, MutexInv,
                Jobs, Careful
  <2>2. QED
    BY <1>3, <2>1 DEF EnterMutex, AfterLock, MutexInv, Jobs, Careful, Careless
<1>4. CASE WaitDone(t)
  BY <1>4 DEF WaitDone, Enter, Events
<1>5. CASE WakeUp(t)
  <2>1. job[t] # "session"
    BY <1>5 DEF WakeUp, CarelessInside, Inside, Careless
  <2>2. QED
    BY <1>5, <2>1 DEF WakeUp
<1>6. CASE ResetDone(t)
  <2>1. image_mut = t
    BY <1>6 DEF ResetDone, MutexInv, CarelessInside, Inside, Careless
  <2>2. \A u \in Users \ {t} :
          /\ pc[u] = "reset" => FALSE
          /\ pc[u] = "blocked" => job[u] = "session"
    BY <1>6, <2>1 DEF ResetDone, MutexInv, CarelessInside, Inside, Careless
  <2>3. QED
    BY <1>6, <2>2 DEF ResetDone, Reset, Events
<1>7. CASE MarkNew(t)
  BY <1>7 DEF MarkNew
<1>8. CASE DrawObjects(t) \/ DrawNothing(t) \/ DrawDropped(t) \/ CompleteDraw(t)
  BY <1>8 DEF DrawObjects, DrawNothing, DrawDropped, CompleteDraw
<1>9. CASE OutputIsReady(t)
  <2>1. image_mut = t
    BY <1>9 DEF OutputIsReady, MutexInv, CarelessInside, Inside, Careless
  <2>2. \A u \in Users \ {t} : pc[u] \notin {"reset"} \cup Drawing
    BY <1>9, <2>1 DEF OutputIsReady, MutexInv, CarelessInside, Inside, Careless
  <2>3. QED
    BY <1>9, <2>2 DEF OutputIsReady, Signal, Events
<1>10. CASE WaitForNotDrawing(t) \/ UseImlib(t) \/ LeaveMutex(t)
  BY <1>10 DEF WaitForNotDrawing, UseImlib, LeaveMutex
<1>11. QED
  BY <1>1, <1>2, <1>3, <1>4, <1>5, <1>6, <1>7, <1>8, <1>9, <1>10
     DEF User, Work

LEMMA UserPicture ==
  ASSUME TypeOK, MutexInv, WaitInv, Calm, NEW t \in Users, User(t),
         ~CarelessInside',
         lost' = IF DrawnAgain THEN lost \ draw_rects' ELSE lost
  PROVE  FlagInv' /\ StaleInv'
<1> USE DEF TypeOK, Calm, FlagInv, StaleInv, Unshown, Goto, events, device, picture,
            Drawing
<1>1. ASSUME NEW j \in Jobs, Begin(t, j) PROVE FlagInv' /\ StaleInv'
  BY <1>1 DEF Begin, DrawnAgain
<1>2. CASE RedrawToo(t)
  BY <1>2 DEF RedrawToo, DrawnAgain
<1>3. CASE EnterMutex(t)
  <2>1. AfterLock(job[t]) \in {"wait", "poll"} /\ ~DrawnAgain
    BY <1>3 DEF EnterMutex, AfterLock, CarelessInside, Inside, Careless, DrawnAgain,
                MutexInv, Jobs, Careful
  <2>2. QED
    BY <1>3, <2>1 DEF EnterMutex
<1>4. CASE WaitDone(t)
  BY <1>4 DEF WaitDone, Enter, Events, DrawnAgain
<1>5. CASE WakeUp(t)
  BY <1>5 DEF WakeUp, DrawnAgain
<1>6. CASE ResetDone(t)
  BY <1>6 DEF ResetDone, Reset, Events, TurnInv, DrawnAgain
<1>7. CASE MarkNew(t)
  <2>1. \A u \in Users : pc[u] # "scale"
    BY <1>7 DEF MarkNew, MutexInv, CarelessInside, Inside, Careless
  <2>2. ~DrawnAgain
    BY <1>7 DEF MarkNew, DrawnAgain
  <2>3. QED
    BY <1>7, <2>1, <2>2 DEF MarkNew
<1>8. CASE DrawObjects(t) \/ CompleteDraw(t)
  <2>1. image_mut = t
    BY <1>8 DEF DrawObjects, CompleteDraw, MutexInv, CarelessInside, Inside, Careless
  <2>2. \A u \in Users \ {t} : pc[u] \notin Drawing
    BY <1>8, <2>1
       DEF DrawObjects, CompleteDraw, MutexInv, CarelessInside, Inside, Careless
  <2>3. Unshown = {} /\ DrawnAgain /\ lost' = lost \ draw_rects'
    BY <1>8 DEF DrawObjects, CompleteDraw, DrawnAgain
  <2>4. Unshown' \subseteq draw_rects'
    BY <1>8, <2>3 DEF DrawObjects, CompleteDraw
  <2>5. ~output_done.signaled' /\ rpc' \notin {"top", "signal"}
    BY <1>8 DEF DrawObjects, CompleteDraw, TurnInv
  <2>6. QED
    BY <1>8, <2>2, <2>4, <2>5 DEF DrawObjects, CompleteDraw
<1>9. CASE DrawNothing(t) \/ DrawDropped(t)
  BY <1>9 DEF DrawNothing, DrawDropped, DrawnAgain
<1>10. CASE OutputIsReady(t)
  BY <1>10 DEF OutputIsReady, Signal, DrawnAgain
<1>11. CASE WaitForNotDrawing(t) \/ UseImlib(t) \/ LeaveMutex(t)
  BY <1>11 DEF WaitForNotDrawing, UseImlib, LeaveMutex, DrawnAgain
<1>12. QED
  BY <1>1, <1>2, <1>3, <1>4, <1>5, <1>6, <1>7, <1>8, <1>9, <1>10, <1>11
     DEF User, Work

\* Each action of the device's thread keeps the invariant.
LEMMA DeviceKeepsThreads ==
  ASSUME Device
  PROVE  /\ UNCHANGED <<pc, job, image_mut, draw_rects>>
         /\ ~DrawnAgain /\ (CarelessInside' <=> CarelessInside)
<1>1. UNCHANGED <<pc, job, image_mut, draw_rects>>
  BY DEF Device, NotDrawing, SignalDone, WaitReady, WakeUpReady, ResetReady,
         RtdDraw, DrawRectangles, picture
<1>2. QED
  BY <1>1 DEF DrawnAgain, CarelessInside

LEMMA DeviceMutex ==
  ASSUME TypeOK, MutexInv, WaitInv, Device
  PROVE  MutexInv' /\ WaitInv'
<1>1. MutexInv'
  BY DeviceKeepsThreads DEF MutexInv
<1>2. WaitInv'
  <2> USE DEF WaitInv, TypeOK, events
  <2>1. CASE NotDrawing \/ RtdDraw \/ DrawRectangles
    BY <2>1 DEF NotDrawing, RtdDraw, DrawRectangles
  <2>2. CASE SignalDone
    BY <2>2 DEF SignalDone, Signal
  <2>3. CASE WaitReady
    BY <2>3 DEF WaitReady, Enter, Events
  <2>4. CASE WakeUpReady \/ ResetReady
    BY <2>4 DEF WakeUpReady, ResetReady
  <2>5. QED
    BY <2>1, <2>2, <2>3, <2>4 DEF Device
<1>3. QED
  BY <1>1, <1>2

LEMMA DeviceCalm ==
  ASSUME TypeOK, MutexInv, WaitInv, Calm, Device, lost' = lost
  PROVE  Calm'
<1> USE DEF TypeOK, WaitInv, WokenInv, TurnInv, FlagInv, StaleInv, Unshown,
            events, device, picture, Drawing
<1>1. /\ ~CarelessInside' /\ UNCHANGED <<pc, job>>
      /\ WokenInv /\ TurnInv /\ FlagInv /\ StaleInv
  BY DeviceKeepsThreads DEF Calm
<1>2. WokenInv' /\ TurnInv' /\ FlagInv' /\ StaleInv'
  <2>1. CASE NotDrawing
    BY <1>1, <2>1 DEF NotDrawing
  <2>2. CASE SignalDone
    BY <1>1, <2>2 DEF SignalDone, Signal
  <2>3. CASE WaitReady
    BY <1>1, <2>3 DEF WaitReady, Enter, Events
  <2>4. CASE WakeUpReady
    BY <1>1, <2>4 DEF WakeUpReady
  <2>5. CASE ResetReady
    BY <1>1, <2>5 DEF ResetReady, Reset, Events
  <2>6. CASE RtdDraw
    <3>1. ~SourceMayBeMissing
      BY <1>1, <2>6 DEF RtdDraw, SourceMayBeMissing
    <3>2. QED
      BY <1>1, <2>6, <3>1 DEF RtdDraw
  <2>7. CASE DrawRectangles
    BY <1>1, <2>7 DEF DrawRectangles
  <2>8. QED
    BY <2>1, <2>2, <2>3, <2>4, <2>5, <2>6, <2>7 DEF Device
<1>3. QED
  BY <1>1, <1>2 DEF Calm

\* The protocol is in order again when device and renderer rest.
LEMMA Recovery ==
  ASSUME MutexInv', WaitInv', Resting', lost' = stale'
  PROVE  Calm'
<1>1. /\ rpc' \in {"wait", "blocked"} /\ ~output_ready'.signaled
      /\ \A t \in Users : /\ pc'[t] \notin Inside
                          /\ pc'[t] = "blocked" => t \in output_done'.waiters
  BY DEF Resting
<1>2. ~CarelessInside'
  BY <1>1 DEF CarelessInside
<1>3. WokenInv'
  BY <1>1 DEF WokenInv
<1>4. TurnInv'
  BY <1>1, Zenon DEF TurnInv, Drawing, Inside
<1>5. FlagInv'
  BY <1>1 DEF FlagInv, Drawing, Inside
<1>6. StaleInv'
  <2>1. Unshown' = {}
    BY DEF Unshown
  <2>2. QED
    BY <2>1 DEF StaleInv
<1>7. QED
  BY <1>2, <1>3, <1>4, <1>5, <1>6 DEF Calm

\* The invariant holds in every reachable state.
THEOREM Invariance == Spec => []IInv
<1>1. IInv /\ [Next]_vars => IInv'
  <2> SUFFICES ASSUME IInv, [Next]_vars PROVE IInv'
    OBVIOUS
  <2>1. CASE UNCHANGED vars
    BY <2>1 DEF IInv, Calm, TypeOK, MutexInv, WaitInv, WokenInv, TurnInv, FlagInv,
                StaleInv, Unshown, CarelessInside, vars, events, device, picture,
                history
  <2>2. CASE Next
    <3>1. TypeOK' /\ MutexInv' /\ WaitInv' /\ Track
      BY <2>2, DeviceType, UserType, DeviceMutex, UserMutex DEF IInv, Next
    <3>2. draw_rects' \subseteq Areas /\ stale' \subseteq Areas
      BY <3>1 DEF TypeOK
    <3>3. ASSUME astray, ~astray' PROVE Calm'
      BY <3>1, <3>2, <3>3, Tracks, Recovery DEF IInv
    <3>4. ASSUME ~astray, ~astray' PROVE Calm'
      <4>1. /\ Calm
            /\ lost' = IF DrawnAgain THEN lost \ draw_rects' ELSE lost
            /\ ~CarelessInside'
        <5>1. Resting' => ~CarelessInside'
          BY DEF Resting, CarelessInside
        <5>2. QED
          BY <3>1, <3>2, <3>4, <5>1, Tracks DEF IInv
      <4>2. CASE Device
        BY <4>1, <4>2, DeviceCalm, DeviceKeepsThreads DEF IInv
      <4>3. ASSUME NEW t \in Users, User(t) PROVE Calm'
        BY <4>1, <4>3, UserTurn, UserPicture DEF IInv, Calm
      <4>4. QED
        BY <2>2, <4>2, <4>3 DEF Next
    <3>5. QED
      BY <3>1, <3>3, <3>4 DEF IInv, TypeOK
  <2>3. QED
    BY <2>1, <2>2
<1>2. QED
  BY InvInit, <1>1, PTL DEF Spec

-----------------------------------------------------------------------------
(* What follows                                                            *)

\* While the device's thread converts, no thread of MMS draws or takes imlib's
\* context away, unless a careless job has been inside since the last rest: for
\* any threads, which do all the jobs of the code.
THEOREM PictureIsLeftAlone == Spec => []PictureLeftAlone
<1>1. IInv => PictureLeftAlone
  BY DEF IInv, Calm, TypeOK, TurnInv, FlagInv, Drawing, PictureLeftAlone
<1>2. QED
  BY Invariance, <1>1, PTL

\* Every area that the surface does not show yet is on the list to be shown,
\* except while a careless job's disorder lasts, and what that has lost before.
THEOREM NoRectangleIsLost == Spec => []NoRectangleLost
<1>1. IInv => NoRectangleLost
  BY DEF IInv, Calm, StaleInv, Unshown, NoRectangleLost
<1>2. QED
  BY Invariance, <1>1, PTL

\* Every step of a thread of MMS or of the device is a step of OneFrame or
\* leaves the turn and what is shown as they are: turns at whole frames, which a
\* careless job may disturb and which begin again with the renderer's.
THEOREM ImplementsOneFrame == Spec => FrameSpec
<1>1. Init => Frames!Init
  BY DEF Init, Frames!Init
<1>2. IInv /\ IInv' /\ [Next]_vars => [Frames!Next]_Frames!vars
  <2> SUFFICES ASSUME IInv, IInv', [Next]_vars PROVE [Frames!Next]_Frames!vars
    OBVIOUS
  <2> DEFINE side == IF rpc \in {"wait", "blocked"} /\ ~output_ready.signaled
                       THEN "renderer" ELSE "device"
             turn == IF astray THEN "astray" ELSE side
             unshown == IF astray THEN {} ELSE Unshown
  <2> USE DEF events, device, picture, Unshown
  <2>1. CASE UNCHANGED vars
    BY <2>1 DEF Frames!vars, vars, history
  <2>2. CASE Next /\ astray'
    <3>1. CASE astray
      BY <2>2, <3>1 DEF Frames!vars
    <3>2. CASE ~astray
      <4>1. turn # "astray" /\ turn' = "astray" /\ unshown' = {}
        BY <2>2, <3>2
      <4>2. Frames!Disturb
        BY <4>1 DEF Frames!Disturb
      <4>3. QED
        BY <4>2 DEF Frames!Next
    <3>3. QED
      BY <3>1, <3>2
  <2>3. CASE Next /\ ~astray' /\ astray
    <3>1. Resting' /\ lost' = stale'
      BY <2>3 DEF Next, Track
    <3>2. turn = "astray" /\ turn' = "renderer" /\ unshown' = unshown
      BY <2>3, <3>1 DEF Resting
    <3>3. Frames!Recover
      BY <3>2 DEF Frames!Recover
    <3>4. QED
      BY <3>3 DEF Frames!Next
  <2>4. CASE Next /\ ~astray' /\ ~astray
    <3> USE <2>4
    <3>1. /\ lost' = IF DrawnAgain THEN lost \ draw_rects' ELSE lost
          /\ TypeOK /\ Calm /\ Calm' /\ TypeOK' /\ WaitInv
      BY DEF Next, Track, IInv
    <3>2. ASSUME NEW t \in Users, DrawObjects(t) \/ CompleteDraw(t)
          PROVE  [Frames!Next]_Frames!vars
      <4>1. turn = "renderer" /\ turn' = "renderer" /\ Unshown = {}
        BY <3>1, <3>2 DEF DrawObjects, CompleteDraw, Calm, TurnInv, StaleInv, Drawing
      <4>2. Unshown' \subseteq Areas
        BY <3>1 DEF TypeOK
      <4>3. CASE Unshown' = {}
        BY <4>1, <4>3 DEF Frames!vars
      <4>4. CASE Unshown' # {}
        <5>1. /\ unshown = {} /\ unshown' = Unshown'
              /\ Unshown' \in (SUBSET Areas) \ {{}}
          BY <4>1, <4>2, <4>4
        <5>2. Frames!DrawFrame
          BY <4>1, <5>1 DEF Frames!DrawFrame
        <5>3. QED
          BY <5>2 DEF Frames!Next
      <4>5. QED
        BY <4>3, <4>4
    <3>3. ASSUME NEW t \in Users, OutputIsReady(t) PROVE Frames!Next
      <4>1. turn = "renderer" /\ turn' = "device" /\ stale' = stale /\ lost' = lost
        BY <3>1, <3>3
           DEF OutputIsReady, Signal, Calm, TurnInv, Drawing, DrawnAgain, Goto, TypeOK
      <4>2. Frames!HandOver
        BY <4>1 DEF Frames!HandOver
      <4>3. QED
        BY <4>2 DEF Frames!Next
    <3>4. ASSUME NEW t \in Users, User(t),
                 ~(DrawObjects(t) \/ CompleteDraw(t) \/ OutputIsReady(t))
          PROVE  UNCHANGED Frames!vars
      <4>1. UNCHANGED <<rpc, output_ready, stale>>
        BY <3>4
           DEF User, Work, Begin, EnterMutex, WaitDone, WakeUp, ResetDone, MarkNew,
               DrawNothing, DrawDropped, WaitForNotDrawing, UseImlib, LeaveMutex,
               RedrawToo
      <4>2. lost' = lost
        <5>1. CASE DrawNothing(t)
          BY <3>1, <5>1 DEF DrawNothing
        <5>2. CASE ~DrawNothing(t)
          <6>1. ~DrawnAgain
            <7> USE DEF DrawnAgain, Goto, TypeOK
            <7>1. CASE EnterMutex(t)
              BY <3>1, <7>1 DEF EnterMutex, AfterLock, IInv, MutexInv, Jobs, Careful,
                                Careless
            <7>2. CASE \/ WaitDone(t) \/ WakeUp(t) \/ ResetDone(t) \/ MarkNew(t)
                       \/ DrawDropped(t) \/ WaitForNotDrawing(t) \/ UseImlib(t)
              BY <3>1, <7>2 DEF WaitDone, WakeUp, ResetDone, MarkNew, DrawDropped,
                                WaitForNotDrawing, UseImlib
            <7>3. CASE \/ LeaveMutex(t) \/ RedrawToo(t) \/ \E j \in Jobs : Begin(t, j)
              BY <3>1, <7>3 DEF LeaveMutex, RedrawToo, Begin
            <7>4. QED
              BY <3>4, <5>2, <7>1, <7>2, <7>3 DEF User, Work
          <6>2. QED
            BY <3>1, <6>1
        <5>3. QED
          BY <5>1, <5>2
      <4>3. QED
        BY <4>1, <4>2 DEF Frames!vars
    <3>5. CASE Device
      <4>1. lost' = lost
        BY <3>1, <3>5, DeviceKeepsThreads
      <4>2. CASE DrawRectangles
        <5>1. turn = "device" /\ turn' = "device" /\ Unshown' = {}
          BY <3>1, <4>1, <4>2 DEF DrawRectangles, Calm, StaleInv
        <5>2. Frames!ShowAll
          BY <5>1 DEF Frames!ShowAll
        <5>3. QED
          BY <5>2 DEF Frames!Next
      <4>3. CASE SignalDone
        <5>1. /\ turn = "device" /\ turn' = "renderer" /\ Unshown = {}
              /\ Unshown' = Unshown
          BY <3>1, <4>1, <4>3 DEF SignalDone, Calm, TurnInv, StaleInv
        <5>2. Frames!GiveBack
          BY <5>1 DEF Frames!GiveBack
        <5>3. QED
          BY <5>2 DEF Frames!Next
      <4>4. CASE NotDrawing \/ RtdDraw
        BY <4>1, <4>4 DEF NotDrawing, RtdDraw, Frames!vars
      <4>5. CASE WaitReady \/ WakeUpReady \/ ResetReady
        <5>1. side' = side /\ stale' = stale
          BY <3>1, <4>5 DEF WaitReady, WakeUpReady, ResetReady, Enter, Reset, Events,
             TypeOK, WaitInv, Calm, TurnInv
        <5>2. QED
          BY <4>1, <5>1 DEF Frames!vars
      <4>6. QED
        BY <3>5, <4>2, <4>3, <4>4, <4>5 DEF Device
    <3>6. QED
      BY <3>2, <3>3, <3>4, <3>5 DEF Next
  <2>5. QED
    BY <2>1, <2>2, <2>3, <2>4
<1>3. QED
  BY <1>1, <1>2, Invariance, PTL DEF Spec, FrameSpec, Frames!Spec
============================================================================
