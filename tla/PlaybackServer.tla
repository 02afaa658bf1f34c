--------------------------- MODULE PlaybackServer ---------------------------
(***************************************************************************)
(* The Qt media player: PlaybackWindow and its StatusMonitor (two threads  *)
(* of ketlaer-mp) share the index into the play list and drive the engine  *)
(* through QrtdPlaybackServer, which serves one request of one connection  *)
(* at a time.  A request is sent, served and answered in three steps; the  *)
(* index is read and written in steps of its own, as Python does.          *)
(*                                                                         *)
(* Left out: the color key and the version request of the start, the 30 s  *)
(* after which Qt gives up on a server that does not answer, and the end   *)
(* of the process.                                                         *)
(***************************************************************************)
EXTENDS Integers, Sequences

CONSTANTS
  NMedia,   \* the length of the play list
  MaxKeys   \* bound: keys pressed

ASSUME MediaAssumption == NMedia \in Nat \ {0}
ASSUME BoundAssumption == MaxKeys \in Nat

Threads == {"gui", "monitor"}
None    == -1
Media   == 0..(NMedia - 1)   \* a medium is its place in the play list
NoEvent == -2
Other   == -3                \* an event that is neither an end nor an error
NoRequest == [cmd |-> "none", arg |-> None]

VARIABLES
  pc, tmp,         \* of each thread: its next step, the index it has read
  mediaidx, playing, closed, \* PlaybackWindow and PlaybackController
  monitorRuns,     \* StatusMonitor's thread runs
  request, answered, \* of each thread: what it asks the server, its answer
  medium, status,  \* the engine
  events, held,    \* the engine's queue; the event taken and not freed yet
  clash,           \* history: a key and the end of a medium have met
  over,            \* history: the medium has ended, or an end was on its way
                   \* when it was loaded
  keys             \* bound: keys pressed so far

window == <<mediaidx, playing, closed, monitorRuns>>
wire   == <<request, answered>>
engine == <<medium, status, events, held>>
past   == <<clash, over>>
vars   == <<pc, tmp, window, wire, engine, past, keys>>

Init ==
  /\ pc = [t \in Threads |-> IF t = "gui" THEN "next" ELSE "getEvent"]
  /\ tmp = [t \in Threads |-> None]
  /\ mediaidx = -1 /\ playing = FALSE /\ closed = FALSE
  /\ monitorRuns = FALSE
  /\ request = [t \in Threads |-> NoRequest]
  /\ answered = [t \in Threads |-> FALSE]
  /\ medium = None /\ status = "stopped" /\ events = <<>> /\ held = NoEvent
  /\ clash = FALSE /\ over = FALSE /\ keys = 0

\* The end of a medium is on its way or in the monitor's hands.
EndPending == events # <<>> \/ held \in Media

\* The monitor has an end for which the next medium is not loaded yet.
EndUnused ==
  /\ held \in Media
  /\ \/ pc["monitor"] \in {"event", "next", "raised", "compare", "index"}
     \/ pc["monitor"] = "play" /\ ~answered["monitor"]

-----------------------------------------------------------------------------
(* Moving on, asking the server and waiting for its answer (ExecCmd) *)

Goto(t, l) == pc' = [pc EXCEPT ![t] = l]

\* The window goes back to its keys, the monitor frees the event.
After(t) == IF t = "gui" THEN "key" ELSE "free"

Ask(t, c, a) ==
  /\ request' = [request EXCEPT ![t] = [cmd |-> c, arg |-> a]]
  /\ answered' = [answered EXCEPT ![t] = FALSE]

Hear(t) ==
  /\ answered[t]
  /\ answered' = [answered EXCEPT ![t] = FALSE]
  /\ UNCHANGED request

-----------------------------------------------------------------------------
(* The window's operations, called by the keys and by the events *)

\* (Variant: at the first medium it waits for another one.)
AwaitPrevious(t) ==
  /\ pc[t] = "previous" /\ mediaidx > 0
  /\ Goto(t, "lower")
  /\ UNCHANGED <<tmp, window, wire, engine, past, keys>>

\* playPreviousMedia: if self.mediaidx > 0.
HasPrevious(t) ==
  /\ pc[t] = "previous"
  /\ Goto(t, IF mediaidx > 0 THEN "lower" ELSE After(t))
  /\ UNCHANGED <<tmp, window, wire, engine, past, keys>>

\* self.mediaidx += 1, or -= 1: it is read ...
ReadIndex(t) ==
  /\ pc[t] \in {"next", "lower"}
  /\ Goto(t, IF pc[t] = "next" THEN "raised" ELSE "lowered")
  /\ tmp' = [tmp EXCEPT ![t] = mediaidx]
  /\ UNCHANGED <<window, wire, engine, past, keys>>

\* ... and written.
WriteIndex(t) ==
  /\ pc[t] \in {"raised", "lowered"}
  /\ IF pc[t] = "raised"
       THEN mediaidx' = tmp[t] + 1 /\ Goto(t, "compare")
       ELSE mediaidx' = tmp[t] - 1 /\ Goto(t, "index")
  /\ tmp' = [tmp EXCEPT ![t] = None]
  /\ UNCHANGED <<playing, closed, monitorRuns, wire, engine, past, keys>>

\* (Variant: the end of the list is noticed one medium late.)
CompareLate(t) ==
  /\ pc[t] = "compare"
  /\ IF mediaidx > NMedia
       THEN playing' = FALSE /\ Ask(t, "Stop", None) /\ Goto(t, "closing")
       ELSE Goto(t, "index") /\ UNCHANGED <<playing, wire>>
  /\ UNCHANGED <<tmp, mediaidx, closed, monitorRuns, engine, past, keys>>

\* After the last medium the engine is stopped and the window closed.
Compare(t) ==
  /\ pc[t] = "compare"
  /\ IF mediaidx >= NMedia
       THEN playing' = FALSE /\ Ask(t, "Stop", None) /\ Goto(t, "closing")
       ELSE Goto(t, "index") /\ UNCHANGED <<playing, wire>>
  /\ UNCHANGED <<tmp, mediaidx, closed, monitorRuns, engine, past, keys>>

Close(t) ==
  /\ pc[t] = "closing" /\ Hear(t)
  /\ Goto(t, After(t))
  /\ closed' = TRUE
  /\ UNCHANGED <<tmp, mediaidx, playing, monitorRuns, engine, past, keys>>

\* LoadMedia starts the monitor if it does not run.
LoadMedia(t) ==
  /\ pc[t] = "index" /\ mediaidx < NMedia
  /\ monitorRuns' = TRUE
  /\ Ask(t, "LoadMedia", mediaidx)
  /\ Goto(t, "play")
  /\ UNCHANGED <<tmp, mediaidx, playing, closed, engine, past, keys>>

\* IndexError leaves the handler of a key, and ends the monitor's thread with
\* its event not freed.
IndexError(t) ==
  /\ pc[t] = "index" /\ mediaidx >= NMedia
  /\ IF t = "gui"
       THEN Goto(t, "key") /\ UNCHANGED <<monitorRuns, held>>
       ELSE Goto(t, "getEvent") /\ monitorRuns' = FALSE /\ held' = NoEvent
  /\ UNCHANGED <<tmp, mediaidx, playing, closed, wire, medium, status, events,
                 past, keys>>

\* The result of LoadMedia is not looked at.
Play(t) ==
  /\ pc[t] = "play" /\ answered[t]
  /\ playing' = TRUE
  /\ Ask(t, "Play", None)
  /\ Goto(t, "answer")
  /\ UNCHANGED <<tmp, mediaidx, closed, monitorRuns, engine, past, keys>>

Answer(t) ==
  /\ pc[t] = "answer" /\ Hear(t)
  /\ Goto(t, After(t))
  /\ UNCHANGED <<tmp, window, engine, past, keys>>

-----------------------------------------------------------------------------
(* The GUI thread: the keys *)

KeyPress ==
  /\ pc["gui"] = "key" /\ ~closed /\ keys < MaxKeys
  /\ \E l \in {"next", "previous", "toggle", "stop"} : Goto("gui", l)
  /\ keys' = keys + 1
  /\ clash' = (clash \/ EndPending)
  /\ UNCHANGED <<tmp, window, wire, engine, over>>

\* (Variant: the flag is not turned.)
ToggleStays ==
  /\ pc["gui"] = "toggle"
  /\ Ask("gui", IF playing THEN "Pause" ELSE "Play", None)
  /\ Goto("gui", "answer")
  /\ UNCHANGED <<tmp, window, engine, past, keys>>

TogglePlayPause ==
  /\ pc["gui"] = "toggle"
  /\ playing' = ~playing
  /\ Ask("gui", IF playing THEN "Pause" ELSE "Play", None)
  /\ Goto("gui", "answer")
  /\ UNCHANGED <<tmp, mediaidx, closed, monitorRuns, engine, past, keys>>

Stop ==
  /\ pc["gui"] = "stop"
  /\ playing' = FALSE
  /\ Ask("gui", "Stop", None)
  /\ Goto("gui", "answer")
  /\ UNCHANGED <<tmp, mediaidx, closed, monitorRuns, engine, past, keys>>

-----------------------------------------------------------------------------
(* The monitor's thread *)

GetEvent ==
  /\ pc["monitor"] = "getEvent" /\ monitorRuns
  /\ Ask("monitor", "GetEvent", None)
  /\ Goto("monitor", "event")
  /\ UNCHANGED <<tmp, window, engine, past, keys>>

\* (Variant: an answer without an event moves on too.)
AnyAnswer ==
  /\ pc["monitor"] = "event" /\ Hear("monitor")
  /\ Goto("monitor", "next")
  /\ UNCHANGED <<tmp, window, engine, past, keys>>

\* (Variant: every event is only printed.)
PrintEvent ==
  /\ pc["monitor"] = "event" /\ Hear("monitor")
  /\ Goto("monitor", IF held = NoEvent THEN "getEvent" ELSE "free")
  /\ UNCHANGED <<tmp, window, engine, past, keys>>

\* The end of a medium, or an error in it, moves on to the next; any other
\* event is printed.
PlaybackEvent ==
  /\ pc["monitor"] = "event" /\ Hear("monitor")
  /\ Goto("monitor", CASE held = NoEvent -> "getEvent"
                       [] held = Other   -> "free"
                       [] OTHER          -> "next")
  /\ UNCHANGED <<tmp, window, engine, past, keys>>

FreeEvent ==
  /\ pc["monitor"] = "free"
  /\ Ask("monitor", "FreeEvent", None)
  /\ Goto("monitor", "freed")
  /\ UNCHANGED <<tmp, window, engine, past, keys>>

Freed ==
  /\ pc["monitor"] = "freed" /\ Hear("monitor")
  /\ Goto("monitor", "getEvent")
  /\ UNCHANGED <<tmp, window, engine, past, keys>>

-----------------------------------------------------------------------------
(* The server: handleClient serves one request, whoever sent it *)

Serves(t, c) ==
  /\ request[t].cmd = c
  /\ request' = [request EXCEPT ![t] = NoRequest]
  /\ answered' = [answered EXCEPT ![t] = TRUE]
  /\ UNCHANGED <<pc, tmp, window, clash, keys>>

\* The medium may not load; the engine is not told to play, and the events
\* that are queued stay.
ServeLoad(t) ==
  /\ Serves(t, "LoadMedia")
  /\ medium' \in {request[t].arg, None}
  /\ status' = "stopped"
  /\ over' = (events # <<>> \/ (t = "gui" /\ EndUnused))
  /\ UNCHANGED <<events, held>>

\* Run starts or continues what is loaded.
ServePlay(t) ==
  /\ Serves(t, "Play")
  /\ status' = IF medium # None /\ status # "ended" THEN "running" ELSE status
  /\ UNCHANGED <<medium, events, held, over>>

ServePause(t) ==
  /\ Serves(t, "Pause")
  /\ status' = IF status = "running" THEN "paused" ELSE status
  /\ UNCHANGED <<medium, events, held, over>>

\* The events that are queued stay.
ServeStop(t) ==
  /\ Serves(t, "Stop")
  /\ status' = "stopped"
  /\ UNCHANGED <<medium, events, held, over>>

\* An event, or none within 100 ms.  Of the queue only the ends are kept, the
\* other events of a medium may come between any two of them.
ServeGetEvent(t) ==
  /\ Serves(t, "GetEvent")
  /\ \/ events = <<>> /\ UNCHANGED <<events, held>>
     \/ events = <<>> /\ medium # None /\ held' = Other /\ UNCHANGED events
     \/ events # <<>> /\ held' = Head(events) /\ events' = Tail(events)
  /\ UNCHANGED <<medium, status, over>>

ServeFreeEvent(t) ==
  /\ Serves(t, "FreeEvent")
  /\ held' = NoEvent
  /\ UNCHANGED <<medium, status, events, over>>

Serve(t) ==
  \/ ServeLoad(t) \/ ServePlay(t) \/ ServePause(t) \/ ServeStop(t)
  \/ ServeGetEvent(t) \/ ServeFreeEvent(t)

\* The engine reaches the end of what it plays, or fails in it.
MediumEnds ==
  /\ status = "running"
  /\ status' = "ended" /\ events' = Append(events, medium)
  /\ clash' = (clash \/ pc["gui"] # "key") /\ over' = TRUE
  /\ UNCHANGED <<pc, tmp, window, wire, medium, held, keys>>

-----------------------------------------------------------------------------
Step(t) ==
  \/ HasPrevious(t) \/ ReadIndex(t) \/ WriteIndex(t) \/ Compare(t) \/ Close(t)
  \/ LoadMedia(t) \/ IndexError(t) \/ Play(t) \/ Answer(t)

Gui     == Step("gui") \/ TogglePlayPause \/ Stop
Monitor == Step("monitor") \/ GetEvent \/ PlaybackEvent \/ FreeEvent \/ Freed

Next == Gui \/ Monitor \/ KeyPress \/ MediumEnds \/ \E t \in Threads : Serve(t)

Spec == Init /\ [][Next]_vars

\* Both threads run; the server takes connections in the order they come, so
\* the monitor's endless questions do not keep it from the window's.
FairSpec == Spec /\ WF_vars(Gui) /\ WF_vars(Monitor)
                 /\ \A t \in Threads : WF_vars(Serve(t))

-----------------------------------------------------------------------------
(* Properties *)

\* Every variable has its type.
TypeOK ==
  /\ pc \in [Threads ->
       {"key", "next", "previous", "lower", "raised", "lowered", "compare",
        "closing", "index", "play", "answer", "toggle", "stop", "getEvent",
        "event", "free", "freed"}]
  /\ tmp \in [Threads -> Int] /\ mediaidx \in Int
  /\ playing \in BOOLEAN /\ closed \in BOOLEAN /\ monitorRuns \in BOOLEAN
  /\ request \in [Threads -> [cmd : {"none", "LoadMedia", "Play", "Pause",
                                     "Stop", "GetEvent", "FreeEvent"},
                              arg : Media \cup {None}]]
  /\ answered \in [Threads -> BOOLEAN]
  /\ medium \in Media \cup {None}
  /\ status \in {"stopped", "running", "paused", "ended"}
  /\ events \in Seq(Media) /\ held \in Media \cup {NoEvent, Other}
  /\ clash \in BOOLEAN /\ over \in BOOLEAN /\ keys \in 0..MaxKeys

AtRest == pc["gui"] = "key" /\ ~EndPending /\ pc["monitor"] \in {"getEvent", "event"}

\* Between two keys the engine has the medium that mediaidx says (or could not
\* load it), and the flag that decides what the play key does tells the truth,
\* as long as no key has met the end of a medium: both threads move the index
\* and ask the server, and nothing keeps one's requests apart from the other's.
PlaysWhatWindowSays ==
  (AtRest /\ ~clash /\ ~closed) =>
    /\ medium \in {mediaidx, None}
    /\ status = "paused" => ~playing
    /\ status = "running" => playing

\* The monitor's thread survives, so that the end of every medium is noticed.
\* A key may move the index between the monitor's comparison and its use of the
\* list, so it may die of an IndexError; but then the window is closing, and the
\* engine is stopped.  Holds also when a key meets the end of a medium.
MonitorSurvives ==
  (medium # None /\ ~monitorRuns) =>
    \/ pc["gui"] \in {"compare", "closing"}
    \/ closed /\ status # "running"

\* The monitor replaces a medium only when it has ended, and uses every end
\* once, however its steps mix with those of a key.  LoadMedia and Stop leave
\* the queue of the engine as it is, so if an end was on its way when a medium
\* was loaded, this medium may be replaced before its own end: that is what the
\* code does, and a defect of it; the medium after that one is safe again.
LeftAtItsEnd == [][ServeLoad("monitor") => over]_vars

\* The end of a medium starts the next one or closes the window.
EndMovesOn == (status = "ended" /\ ~clash) ~> (status # "ended" \/ clash)

\* A key's handler returns to the window, whatever the monitor asks meanwhile.
KeysReturn == (pc["gui"] # "key") ~> (pc["gui"] = "key")
=============================================================================
