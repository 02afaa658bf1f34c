------------------------ MODULE PlaybackServerProofs ------------------------
(***************************************************************************)
(* The safety properties of PlaybackServer, proved for play lists of any   *)
(* length and any number of keys.                                          *)
(***************************************************************************)
EXTENDS PlaybackServer, TLAPS

-----------------------------------------------------------------------------
(* The inductive invariant *)

\* Where the two threads can be.
GuiPcs == {"key", "next", "previous", "lower", "raised", "lowered", "compare",
           "closing", "index", "play", "answer", "toggle", "stop"}
MonitorPcs == {"getEvent", "event", "next", "raised", "compare", "closing",
               "index", "play", "answer", "free", "freed"}
PlaceInv == pc["gui"] \in GuiPcs /\ pc["monitor"] \in MonitorPcs

\* The index never falls below the list, whatever the two threads do to it.
FloorInv ==
  /\ mediaidx >= -1
  /\ mediaidx = -1 => /\ pc["gui"] \in {"next", "raised"} /\ ~monitorRuns
                      /\ pc["monitor"] = "getEvent"
  /\ pc["monitor"] = "raised" => tmp["monitor"] >= 0
  /\ pc["gui"] = "raised" => tmp["gui"] >= -1
  /\ pc["gui"] = "lower" => mediaidx > 0
  /\ pc["gui"] = "lowered" => tmp["gui"] > 0

\* A thread that waits has asked for what its place says, or has its answer.
Waits(t) == pc[t] \in {"play", "closing", "answer", "event", "freed"}
Asks(t) ==
  \/ pc[t] = "play" /\ request[t].cmd = "LoadMedia" /\ request[t].arg \in Media
  \/ pc[t] = "closing" /\ request[t].cmd = "Stop"
  \/ pc[t] = "answer" /\ request[t].cmd = "Play"
  \/ t = "gui" /\ pc[t] = "answer" /\ request[t].cmd \in {"Pause", "Stop"}
  \/ pc[t] = "event" /\ request[t].cmd = "GetEvent"
  \/ pc[t] = "freed" /\ request[t].cmd = "FreeEvent"
Wire(t) ==
  /\ request[t].cmd = "none" => (answered[t] <=> Waits(t))
  /\ request[t].cmd # "none" => ~answered[t] /\ Asks(t)
WireInv == \A t \in Threads : Wire(t)

EngineInv == medium = None => status = "stopped"

\* The monitor works on the end it holds, and holds nothing when it asks for an
\* event; an end that is queued, or that it has not used yet, is noted.
Handling == {"next", "raised", "compare", "closing", "index", "play", "answer"}
HeldInv ==
  /\ pc["monitor"] \in Handling => held \in Media
  /\ pc["monitor"] = "getEvent" => held = NoEvent
  /\ pc["monitor"] = "event" /\ ~answered["monitor"] => held = NoEvent
  /\ pc["monitor"] = "freed" /\ answered["monitor"] => held = NoEvent
  /\ events # <<>> \/ EndUnused => over

\* The window has noticed that the index is behind the list: it stops the engine
\* and closes.
Closes ==
  \/ pc["gui"] = "compare"
  \/ pc["gui"] = "closing" /\ (answered["gui"] => status # "running")
  \/ pc["gui"] = "key" /\ closed /\ status # "running"

\* Also when the two threads meet: the monitor finds the index behind the list
\* after its own comparison only if the window has just moved it there, so the
\* window closes; and the monitor's thread dies of nothing else.
BehindInv ==
  /\ mediaidx >= NMedia =>
       /\ pc["monitor"] = "index" => Closes
       /\ pc["monitor"] = "raised" /\ tmp["monitor"] < NMedia => Closes
  /\ pc["gui"] = "lowered" /\ tmp["gui"] > NMedia =>
       /\ mediaidx >= NMedia /\ pc["monitor"] # "index"
       /\ pc["monitor"] = "raised" => tmp["monitor"] >= NMedia
  /\ ~monitorRuns =>
       /\ pc["monitor"] = "getEvent" /\ pc["gui"] # "play"
       /\ medium # None => mediaidx >= NMedia /\ Closes

\* As long as no key has met the end of a medium: the window is at work only
\* while no end is pending, and the engine is at its end exactly until that has
\* been acted on.
EndActedOn ==
  ~EndUnused /\ ~(held \in Media /\ pc["monitor"] = "closing" /\ ~answered["monitor"])

TurnInv ==
  ~clash =>
    /\ pc["gui"] # "key" => ~EndPending
    /\ (status = "ended") <=> (events # <<>> \/ ~EndActedOn)
    /\ Len(events) <= 1
    /\ events # <<>> => EndActedOn

\* The index: a thread writes what it read, it is at the end of the list only
\* when the window closes, and then nothing is played any more.
Moving == {"previous", "next", "lower", "raised", "lowered", "compare", "index",
           "play"}
IndexInv ==
  ~clash =>
    /\ \A t \in Threads : pc[t] \in {"raised", "lowered"} => tmp[t] = mediaidx
    /\ mediaidx <= NMedia
    /\ mediaidx = NMedia =>
         closed \/ \E t \in Threads : pc[t] \in {"compare", "closing"}
    /\ \A t \in Threads : pc[t] \in Moving => ~closed
    /\ \A t \in Threads : pc[t] = "closing" /\ answered[t] => status = "stopped"
    /\ closed => /\ status = "stopped" /\ pc["gui"] = "key"
                 /\ pc["monitor"] \in {"getEvent", "event", "free", "freed"}

\* The medium is the index's, except while a thread changes it.
Changing(t) == pc[t] \in {"compare", "index", "closing"}
                 \/ (pc[t] = "play" /\ ~answered[t])
MediumInv ==
  ~clash =>
    /\ \A t \in Threads :
         pc[t] = "play" => IF answered[t] THEN status = "stopped"
                           ELSE request[t].arg = mediaidx
    /\ closed \/ (\E t \in Threads : Changing(t)) \/ medium \in {mediaidx, None}
    /\ (medium # None \/ \E t \in Threads : pc[t] = "play") => monitorRuns

\* The flag tells the truth, except while the engine has not been told.
Agree == (status = "paused" => ~playing) /\ (status = "running" => playing)
FlagInv ==
  ~clash =>
    /\ Agree \/ (pc["gui"] \in {"answer", "closing"} /\ ~answered["gui"])
    /\ request["gui"].cmd = "Play" => playing
    /\ request["gui"].cmd = "Pause" => ~playing
    /\ pc["monitor"] = "answer" => playing

IInv == /\ TypeOK /\ PlaceInv /\ FloorInv /\ WireInv /\ EngineInv
        /\ HeldInv /\ BehindInv /\ TurnInv /\ IndexInv /\ MediumInv /\ FlagInv

-----------------------------------------------------------------------------
(* The steps *)

LEMMA Steps ==
  [Next]_vars =>
    \/ \E t \in Threads : Step(t)
    \/ TogglePlayPause \/ Stop \/ GetEvent \/ PlaybackEvent \/ FreeEvent \/ Freed
    \/ KeyPress \/ MediumEnds
    \/ \E t \in Threads : Serve(t)
    \/ UNCHANGED vars
  BY DEF Next, Gui, Monitor, Threads

LEMMA HeadAndTail ==
  ASSUME NEW S, NEW s \in Seq(S), s # <<>>
  PROVE  Head(s) \in S /\ Tail(s) \in Seq(S)
  OBVIOUS

\* What is loaded is in the list, even if the two threads have met.
LEMMA IndexInMedia ==
  ASSUME IInv, NEW t \in Threads, LoadMedia(t)
  PROVE  mediaidx \in Media
<1>1. mediaidx \in Int /\ mediaidx < NMedia /\ mediaidx >= -1 /\ pc[t] = "index"
  BY DEF IInv, TypeOK, FloorInv, LoadMedia
<1>2. mediaidx # -1
  BY <1>1 DEF IInv, FloorInv, Threads
<1>3. QED
  BY <1>1, <1>2, MediaAssumption DEF Media

\* A thread that works on the index, alone, finds it inside the list.
LEMMA InsideList ==
  ASSUME IInv, ~clash, NEW t \in Threads, pc[t] \in Moving \ {"compare"}
  PROVE  mediaidx < NMedia /\ ~closed
<1> USE DEF IInv, past, TypeOK, PlaceInv, GuiPcs, MonitorPcs, TurnInv,
            IndexInv, Moving, HeldInv, Handling, EndPending, Threads
<1>1. ~closed
  OBVIOUS
<1>2. \A o \in Threads : pc[o] \notin {"compare", "closing"}
  OBVIOUS
<1>3. mediaidx # NMedia /\ mediaidx <= NMedia
  BY <1>1, <1>2
<1>4. QED
  BY <1>1, <1>3, MediaAssumption

LEMMA PlaceStep == IInv /\ [Next]_vars => PlaceInv'
<1> SUFFICES ASSUME IInv, [Next]_vars PROVE PlaceInv'
  OBVIOUS
<1> USE DEF IInv, past, Threads, TypeOK, PlaceInv, GuiPcs, MonitorPcs
<1>1. ASSUME NEW t \in Threads, Step(t) PROVE PlaceInv'
  <2>1. CASE HasPrevious(t)
    BY <2>1 DEF HasPrevious, Goto, After
  <2>2. CASE ReadIndex(t)
    BY <2>2 DEF ReadIndex, Goto
  <2>3. CASE WriteIndex(t)
    BY <2>3 DEF WriteIndex, Goto
  <2>4. CASE Compare(t)
    BY <2>4 DEF Compare, Goto
  <2>5. CASE Close(t)
    BY <2>5 DEF Close, Goto, After
  <2>6. CASE LoadMedia(t)
    BY <2>6 DEF LoadMedia, Goto
  <2>7. CASE IndexError(t)
    BY <2>7 DEF IndexError, Goto
  <2>8. CASE Play(t)
    BY <2>8 DEF Play, Goto
  <2>9. CASE Answer(t)
    BY <2>9 DEF Answer, Goto, After
  <2>10. QED
    BY <1>1, <2>1, <2>2, <2>3, <2>4, <2>5, <2>6, <2>7, <2>8, <2>9 DEF Step
<1>2. CASE TogglePlayPause
  BY <1>2 DEF TogglePlayPause, Goto
<1>3. CASE Stop
  BY <1>3 DEF Stop, Goto
<1>4. CASE GetEvent
  BY <1>4 DEF GetEvent, Goto
<1>5. CASE PlaybackEvent
  BY <1>5 DEF PlaybackEvent, Goto
<1>6. CASE FreeEvent
  BY <1>6 DEF FreeEvent, Goto
<1>7. CASE Freed
  BY <1>7 DEF Freed, Goto
<1>8. CASE KeyPress
  BY <1>8 DEF KeyPress, Goto
<1>9. CASE MediumEnds
  BY <1>9 DEF MediumEnds
<1>10. ASSUME NEW t \in Threads, Serve(t) PROVE PlaceInv'
  BY <1>10 DEF Serve, ServeLoad, ServePlay, ServePause, ServeStop,
     ServeGetEvent, ServeFreeEvent, Serves
<1>11. CASE UNCHANGED vars
  BY <1>11 DEF vars, window, wire, engine
<1>12. QED
  BY <1>1, <1>2, <1>3, <1>4, <1>5, <1>6, <1>7, <1>8, <1>9, <1>10, <1>11, Steps

LEMMA FloorStep == IInv /\ [Next]_vars => FloorInv'
<1> SUFFICES ASSUME IInv, [Next]_vars PROVE FloorInv'
  OBVIOUS
<1> USE DEF IInv, past, Threads, TypeOK, PlaceInv, GuiPcs, MonitorPcs, FloorInv
<1>1. ASSUME NEW t \in Threads, Step(t) PROVE FloorInv'
  <2>1. CASE HasPrevious(t)
    BY <2>1 DEF HasPrevious, Goto, After, window
  <2>2. CASE ReadIndex(t)
    BY <2>2 DEF ReadIndex, Goto, window
  <2>3. CASE WriteIndex(t)
    BY <2>3 DEF WriteIndex, Goto
  <2>4. CASE Compare(t)
    BY <2>4 DEF Compare, Goto
  <2>5. CASE Close(t)
    BY <2>5 DEF Close, Goto, After
  <2>6. CASE LoadMedia(t)
    BY <2>6 DEF LoadMedia, Goto
  <2>7. CASE IndexError(t)
    BY <2>7 DEF IndexError, Goto
  <2>8. CASE Play(t)
    BY <2>8 DEF Play, Goto
  <2>9. CASE Answer(t)
    BY <2>9 DEF Answer, Goto, After, window
  <2>10. QED
    BY <1>1, <2>1, <2>2, <2>3, <2>4, <2>5, <2>6, <2>7, <2>8, <2>9 DEF Step
<1>2. CASE TogglePlayPause
  BY <1>2 DEF TogglePlayPause, Goto
<1>3. CASE Stop
  BY <1>3 DEF Stop, Goto
<1>4. CASE GetEvent
  BY <1>4 DEF GetEvent, Goto, window
<1>5. CASE PlaybackEvent
  BY <1>5 DEF PlaybackEvent, Goto, window
<1>6. CASE FreeEvent
  BY <1>6 DEF FreeEvent, Goto, window
<1>7. CASE Freed
  BY <1>7 DEF Freed, Goto, window
<1>8. CASE KeyPress
  BY <1>8 DEF KeyPress, Goto, window
<1>9. CASE MediumEnds
  BY <1>9 DEF MediumEnds, window
<1>10. ASSUME NEW t \in Threads, Serve(t) PROVE FloorInv'
  BY <1>10 DEF Serve, ServeLoad, ServePlay, ServePause, ServeStop,
     ServeGetEvent, ServeFreeEvent, Serves, window
<1>11. CASE UNCHANGED vars
  BY <1>11 DEF vars, window, wire, engine
<1>12. QED
  BY <1>1, <1>2, <1>3, <1>4, <1>5, <1>6, <1>7, <1>8, <1>9, <1>10, <1>11, Steps

LEMMA WireStep == IInv /\ [Next]_vars => WireInv'
<1> SUFFICES ASSUME IInv, [Next]_vars PROVE WireInv'
  OBVIOUS
<1> USE DEF IInv, past, Threads, TypeOK, PlaceInv, GuiPcs, MonitorPcs, WireInv,
            Wire, Waits, Asks, FloorInv, Media, None
<1>1. ASSUME NEW t \in Threads, Step(t) PROVE WireInv'
  <2>1. CASE HasPrevious(t)
    BY <2>1 DEF HasPrevious, Goto, After, wire
  <2>2. CASE ReadIndex(t)
    BY <2>2 DEF ReadIndex, Goto, wire
  <2>3. CASE WriteIndex(t)
    BY <2>3 DEF WriteIndex, Goto, wire
  <2>4. CASE Compare(t)
    BY <2>4 DEF Compare, Goto, Ask, wire
  <2>5. CASE Close(t)
    BY <2>5 DEF Close, Goto, Hear, After
  <2>6. CASE LoadMedia(t)
    <3>1. mediaidx \in Media
      BY <2>6, IndexInMedia
    <3>2. \A o \in Threads : o # t =>
             request'[o] = request[o] /\ answered'[o] = answered[o] /\ pc'[o] = pc[o]
      BY <2>6 DEF LoadMedia, Goto, Ask
    <3>3. /\ request'[t] = [cmd |-> "LoadMedia", arg |-> mediaidx] /\ ~answered'[t]
          /\ pc'[t] = "play"
      BY <2>6 DEF LoadMedia, Goto, Ask
    <3>4. Wire(t)'
      BY <3>1, <3>3
    <3>5. QED
      BY <3>2, <3>4
  <2>7. CASE IndexError(t)
    BY <2>7 DEF IndexError, Goto, wire
  <2>8. CASE Play(t)
    BY <2>8 DEF Play, Goto, Ask
  <2>9. CASE Answer(t)
    BY <2>9 DEF Answer, Goto, Hear, After
  <2>10. QED
    BY <1>1, <2>1, <2>2, <2>3, <2>4, <2>5, <2>6, <2>7, <2>8, <2>9 DEF Step
<1>2. CASE TogglePlayPause
  BY <1>2 DEF TogglePlayPause, Goto, Ask
<1>3. CASE Stop
  BY <1>3 DEF Stop, Goto, Ask
<1>4. CASE GetEvent
  BY <1>4 DEF GetEvent, Goto, Ask
<1>5. CASE PlaybackEvent
  BY <1>5 DEF PlaybackEvent, Goto, Hear
<1>6. CASE FreeEvent
  BY <1>6 DEF FreeEvent, Goto, Ask
<1>7. CASE Freed
  BY <1>7 DEF Freed, Goto, Hear
<1>8. CASE KeyPress
  BY <1>8 DEF KeyPress, Goto, wire
<1>9. CASE MediumEnds
  BY <1>9 DEF MediumEnds, wire
<1>10. ASSUME NEW t \in Threads, Serve(t) PROVE WireInv'
  <2>1. PICK c : Serves(t, c) /\ c # "none"
    BY <1>10 DEF Serve, ServeLoad, ServePlay, ServePause, ServeStop,
       ServeGetEvent, ServeFreeEvent
  <2>2. Waits(t) /\ request[t].cmd # "none"
    BY <2>1 DEF Serves
  <2>3. /\ request'[t].cmd = "none" /\ answered'[t] /\ pc' = pc
        /\ \A o \in Threads : o # t =>
             request'[o] = request[o] /\ answered'[o] = answered[o]
    BY <2>1 DEF Serves, NoRequest
  <2>4. Wire(t)'
    BY <2>2, <2>3
  <2>5. QED
    BY <2>3, <2>4
<1>11. CASE UNCHANGED vars
  BY <1>11 DEF vars, window, wire, engine
<1>12. QED
  BY <1>1, <1>2, <1>3, <1>4, <1>5, <1>6, <1>7, <1>8, <1>9, <1>10, <1>11, Steps

LEMMA TypeStep == IInv /\ [Next]_vars => TypeOK'
<1> SUFFICES ASSUME IInv, [Next]_vars PROVE TypeOK'
  OBVIOUS
<1> USE DEF IInv, past, Threads, TypeOK, WireInv, Wire, Waits, Asks, Media,
            None, NoEvent, NoRequest, EngineInv
<1>1. ASSUME NEW t \in Threads, Step(t) PROVE TypeOK'
  <2>1. CASE HasPrevious(t)
    BY <2>1 DEF HasPrevious, Goto, After, window, wire, engine
  <2>2. CASE ReadIndex(t)
    BY <2>2 DEF ReadIndex, Goto, window, wire, engine
  <2>3. CASE WriteIndex(t)
    BY <2>3 DEF WriteIndex, Goto, wire, engine
  <2>4. CASE Compare(t)
    <3>1. pc' = [pc EXCEPT ![t] = "closing"] \/ pc' = [pc EXCEPT ![t] = "index"]
      BY <2>4 DEF Compare, Goto
    <3>2. /\ playing' = playing \/ playing' = FALSE
          /\ answered' = answered \/ answered' = [answered EXCEPT ![t] = FALSE]
      BY <2>4 DEF Compare, Ask, wire
    <3>3. request' = request
            \/ request' = [request EXCEPT ![t] = [cmd |-> "Stop", arg |-> None]]
      BY <2>4 DEF Compare, Ask, wire
    <3>4. UNCHANGED <<tmp, mediaidx, closed, monitorRuns, engine, past, keys>>
      BY <2>4 DEF Compare
    <3>5. /\ playing' \in BOOLEAN /\ answered' \in [Threads -> BOOLEAN]
          /\ pc' \in [Threads -> {"key", "next", "previous", "lower", "raised", "lowered",
                    "compare", "closing", "index", "play", "answer", "toggle", "stop",
                    "getEvent", "event", "free", "freed"}]
      <4>1. playing' \in BOOLEAN
        BY <3>2
      <4>2. answered' \in [Threads -> BOOLEAN]
        BY <3>2
      <4>3. pc' \in [Threads -> {"key", "next", "previous", "lower", "raised",
                      "lowered", "compare", "closing", "index", "play", "answer",
                      "toggle", "stop", "getEvent", "event", "free", "freed"}]
        BY <3>1
      <4>4. QED
        BY <4>1, <4>2, <4>3
    <3>6. [cmd |-> "Stop", arg |-> None]
            \in [cmd : {"none", "LoadMedia", "Play", "Pause", "Stop", "GetEvent",
                       "FreeEvent"}, arg : Media \cup {None}]
      OBVIOUS
    <3>7. request' \in [Threads -> [cmd : {"none", "LoadMedia", "Play", "Pause", "Stop",
                                         "GetEvent", "FreeEvent"},
                                  arg : Media \cup {None}]]
      BY <3>3, <3>6
    <3>8. QED
      BY <3>4, <3>5, <3>7 DEF engine
  <2>5. CASE Close(t)
    BY <2>5 DEF Close, Goto, Hear, After, engine
  <2>6. CASE LoadMedia(t)
    <3>1. mediaidx \in Media
      BY <2>6, IndexInMedia
    <3>2. QED
      BY <2>6, <3>1 DEF LoadMedia, Goto, Ask, engine
  <2>7. CASE IndexError(t)
    <3>1. pc' = [pc EXCEPT ![t] = "key"] \/ pc' = [pc EXCEPT ![t] = "getEvent"]
      BY <2>7 DEF IndexError, Goto
    <3>2. monitorRuns' \in BOOLEAN /\ held' \in Media \cup {NoEvent, Other}
      BY <2>7 DEF IndexError
    <3>3. QED
      BY <2>7, <3>1, <3>2 DEF IndexError, wire
  <2>8. CASE Play(t)
    BY <2>8 DEF Play, Goto, Ask, engine
  <2>9. CASE Answer(t)
    BY <2>9 DEF Answer, Goto, Hear, After, window, engine
  <2>10. QED
    BY <1>1, <2>1, <2>2, <2>3, <2>4, <2>5, <2>6, <2>7, <2>8, <2>9 DEF Step
<1>2. CASE TogglePlayPause
  BY <1>2 DEF TogglePlayPause, Goto, Ask, engine
<1>3. CASE Stop
  BY <1>3 DEF Stop, Goto, Ask, engine
<1>4. CASE GetEvent
  BY <1>4 DEF GetEvent, Goto, Ask, window, engine
<1>5. CASE PlaybackEvent
  BY <1>5 DEF PlaybackEvent, Goto, Hear, window, engine
<1>6. CASE FreeEvent
  BY <1>6 DEF FreeEvent, Goto, Ask, window, engine
<1>7. CASE Freed
  BY <1>7 DEF Freed, Goto, Hear, window, engine
<1>8. CASE KeyPress
  <2>1. keys' \in 0..MaxKeys
    BY <1>8, BoundAssumption DEF KeyPress
  <2>2. clash' \in BOOLEAN
    BY <1>8 DEF KeyPress
  <2>3. pc' \in [Threads -> {"key", "next", "previous", "lower", "raised", "lowered",
                  "compare", "closing", "index", "play", "answer", "toggle", "stop",
                  "getEvent", "event", "free", "freed"}]
    BY <1>8 DEF KeyPress, Goto
  <2>4. QED
    BY <1>8, <2>1, <2>2, <2>3 DEF KeyPress, window, wire, engine
<1>9. CASE MediumEnds
  BY <1>9 DEF MediumEnds, window, wire
<1>10. ASSUME NEW t \in Threads, Serve(t) PROVE TypeOK'
  <2>1. CASE ServeLoad(t)
    BY <2>1 DEF ServeLoad, Serves, window
  <2>2. CASE ServePlay(t)
    BY <2>2 DEF ServePlay, Serves, window
  <2>3. CASE ServePause(t)
    BY <2>3 DEF ServePause, Serves, window
  <2>4. CASE ServeStop(t)
    BY <2>4 DEF ServeStop, Serves, window
  <2>5. CASE ServeGetEvent(t)
    <3>1. events # <<>> => Head(events) \in Media /\ Tail(events) \in Seq(Media)
      BY HeadAndTail
    <3>2. events' \in Seq(Media) /\ held' \in Media \cup {NoEvent, Other}
      BY <2>5, <3>1 DEF ServeGetEvent
    <3>3. QED
      BY <2>5, <3>2 DEF ServeGetEvent, Serves, window
  <2>6. CASE ServeFreeEvent(t)
    BY <2>6 DEF ServeFreeEvent, Serves, window
  <2>7. QED
    BY <1>10, <2>1, <2>2, <2>3, <2>4, <2>5, <2>6 DEF Serve
<1>11. CASE UNCHANGED vars
  BY <1>11 DEF vars, window, wire, engine
<1>12. QED
  BY <1>1, <1>2, <1>3, <1>4, <1>5, <1>6, <1>7, <1>8, <1>9, <1>10, <1>11, Steps

LEMMA EngineStep == IInv /\ [Next]_vars => EngineInv'
<1> SUFFICES ASSUME IInv, [Next]_vars PROVE EngineInv'
  OBVIOUS
<1> USE DEF IInv, past, EngineInv
<1>1. ASSUME NEW t \in Threads, Step(t) PROVE EngineInv'
  BY <1>1 DEF Step, HasPrevious, ReadIndex, WriteIndex, Compare, Close,
     LoadMedia, IndexError, Play, Answer, engine
<1>2. CASE TogglePlayPause \/ Stop \/ GetEvent \/ PlaybackEvent \/ FreeEvent
             \/ Freed \/ KeyPress \/ UNCHANGED vars
  BY <1>2 DEF TogglePlayPause, Stop, GetEvent, PlaybackEvent, FreeEvent, Freed,
         KeyPress, vars, engine
<1>3. CASE MediumEnds
  BY <1>3 DEF MediumEnds
<1>4. ASSUME NEW t \in Threads, Serve(t) PROVE EngineInv'
  BY <1>4 DEF Serve, ServeLoad, ServePlay, ServePause, ServeStop, ServeGetEvent,
         ServeFreeEvent
<1>5. QED
  BY <1>1, <1>2, <1>3, <1>4, Steps

LEMMA HeldStep == IInv /\ [Next]_vars => HeldInv'
<1> SUFFICES ASSUME IInv, [Next]_vars PROVE HeldInv'
  OBVIOUS
<1> USE DEF IInv, past, Threads, TypeOK, PlaceInv, GuiPcs, MonitorPcs, WireInv,
            Wire, Waits, Asks, HeldInv, Handling, EndUnused
<1>0. NoEvent \notin Media /\ Other \notin Media
  BY MediaAssumption DEF Media, NoEvent, Other
<1> USE <1>0
<1>1. ASSUME NEW t \in Threads, Step(t) PROVE HeldInv'
  <2>1. CASE HasPrevious(t)
    BY <2>1 DEF HasPrevious, Goto, After, window, wire, engine
  <2>2. CASE ReadIndex(t)
    BY <2>2 DEF ReadIndex, Goto, window, wire, engine
  <2>3. CASE WriteIndex(t)
    BY <2>3 DEF WriteIndex, Goto, wire, engine
  <2>4. CASE Compare(t)
    BY <2>4 DEF Compare, Goto, Ask, wire, engine
  <2>5. CASE Close(t)
    BY <2>5 DEF Close, Goto, Hear, After, engine
  <2>6. CASE LoadMedia(t)
    BY <2>6 DEF LoadMedia, Goto, Ask, engine
  <2>7. CASE IndexError(t)
    BY <2>7 DEF IndexError, Goto, wire
  <2>8. CASE Play(t)
    BY <2>8 DEF Play, Goto, Ask, engine
  <2>9. CASE Answer(t)
    BY <2>9 DEF Answer, Goto, Hear, After, window, engine
  <2>10. QED
    BY <1>1, <2>1, <2>2, <2>3, <2>4, <2>5, <2>6, <2>7, <2>8, <2>9 DEF Step
<1>2. CASE TogglePlayPause
  BY <1>2 DEF TogglePlayPause, Goto, Ask, engine
<1>3. CASE Stop
  BY <1>3 DEF Stop, Goto, Ask, engine
<1>4. CASE GetEvent
  BY <1>4 DEF GetEvent, Goto, Ask, window, engine
<1>5. CASE PlaybackEvent
  BY <1>5 DEF PlaybackEvent, Goto, Hear, window, engine
<1>6. CASE FreeEvent
  BY <1>6 DEF FreeEvent, Goto, Ask, window, engine
<1>7. CASE Freed
  BY <1>7 DEF Freed, Goto, Hear, window, engine
<1>8. CASE KeyPress
  BY <1>8 DEF KeyPress, Goto, window, wire, engine
<1>9. CASE MediumEnds
  BY <1>9 DEF MediumEnds, window, wire
<1>10. ASSUME NEW t \in Threads, Serve(t) PROVE HeldInv'
  <2>1. CASE ServeLoad(t)
    BY <2>1 DEF ServeLoad, Serves, window
  <2>2. CASE ServePlay(t)
    BY <2>2 DEF ServePlay, Serves, window
  <2>3. CASE ServePause(t)
    BY <2>3 DEF ServePause, Serves, window
  <2>4. CASE ServeStop(t)
    BY <2>4 DEF ServeStop, Serves, window
  <2>5. CASE ServeGetEvent(t)
    BY <2>5 DEF ServeGetEvent, Serves, window
  <2>6. CASE ServeFreeEvent(t)
    BY <2>6 DEF ServeFreeEvent, Serves, window
  <2>7. QED
    BY <1>10, <2>1, <2>2, <2>3, <2>4, <2>5, <2>6 DEF Serve
<1>11. CASE UNCHANGED vars
  BY <1>11 DEF vars, window, wire, engine
<1>12. QED
  BY <1>1, <1>2, <1>3, <1>4, <1>5, <1>6, <1>7, <1>8, <1>9, <1>10, <1>11, Steps

LEMMA BehindStep == IInv /\ [Next]_vars => BehindInv'
<1> SUFFICES ASSUME IInv, [Next]_vars PROVE BehindInv'
  OBVIOUS
<1> USE DEF IInv, past, Threads, TypeOK, PlaceInv, GuiPcs, MonitorPcs, WireInv,
            Wire, Waits, Asks, EngineInv, BehindInv, Closes
<1>1. ASSUME NEW t \in Threads, Step(t) PROVE BehindInv'
  <2>1. CASE HasPrevious(t)
    BY <2>1 DEF HasPrevious, Goto, After, window, wire, engine
  <2>2. CASE ReadIndex(t)
    <3>1. /\ pc[t] \in {"next", "lower"}
          /\ pc' = [pc EXCEPT ![t] = IF pc[t] = "next" THEN "raised" ELSE "lowered"]
          /\ tmp' = [tmp EXCEPT ![t] = mediaidx]
          /\ UNCHANGED <<mediaidx, closed, monitorRuns, answered, medium, status>>
      BY <2>2 DEF ReadIndex, Goto, window, wire, engine
    <3>2. CASE t = "monitor"
      <4>1. /\ pc["monitor"] = "next" /\ pc'["monitor"] = "raised"
            /\ tmp'["monitor"] = mediaidx
            /\ pc'["gui"] = pc["gui"] /\ tmp'["gui"] = tmp["gui"]
        BY <3>1, <3>2
      <4>2. QED
        BY <3>1, <4>1, MediaAssumption
    <3>3. CASE t = "gui"
      BY <3>1, <3>3, MediaAssumption
    <3>4. QED
      BY <3>2, <3>3
  <2>3. CASE WriteIndex(t)
    <3>1. /\ \/ pc[t] = "raised" /\ mediaidx' = tmp[t] + 1
                 /\ pc' = [pc EXCEPT ![t] = "compare"]
             \/ pc[t] = "lowered" /\ mediaidx' = tmp[t] - 1
                 /\ pc' = [pc EXCEPT ![t] = "index"]
          /\ tmp' = [tmp EXCEPT ![t] = None]
          /\ UNCHANGED <<closed, monitorRuns, answered, medium, status>>
      BY <2>3 DEF WriteIndex, Goto, wire, engine
    <3>2. CASE t = "monitor"
      BY <3>1, <3>2, MediaAssumption
    <3>3. CASE t = "gui"
      BY <3>1, <3>3, MediaAssumption
    <3>4. QED
      BY <3>2, <3>3
  <2>4. CASE Compare(t)
    BY <2>4 DEF Compare, Goto, Ask, wire, engine
  <2>5. CASE Close(t)
    BY <2>5 DEF Close, Goto, Hear, After, engine
  <2>6. CASE LoadMedia(t)
    BY <2>6 DEF LoadMedia, Goto, Ask, engine
  <2>7. CASE IndexError(t)
    BY <2>7 DEF IndexError, Goto, wire
  <2>8. CASE Play(t)
    BY <2>8 DEF Play, Goto, Ask, engine
  <2>9. CASE Answer(t)
    BY <2>9 DEF Answer, Goto, Hear, After, window, engine
  <2>10. QED
    BY <1>1, <2>1, <2>2, <2>3, <2>4, <2>5, <2>6, <2>7, <2>8, <2>9 DEF Step
<1>2. CASE TogglePlayPause
  BY <1>2 DEF TogglePlayPause, Goto, Ask, engine
<1>3. CASE Stop
  BY <1>3 DEF Stop, Goto, Ask, engine
<1>4. CASE GetEvent
  BY <1>4 DEF GetEvent, Goto, Ask, window, engine
<1>5. CASE PlaybackEvent
  BY <1>5 DEF PlaybackEvent, Goto, Hear, window, engine
<1>6. CASE FreeEvent
  BY <1>6 DEF FreeEvent, Goto, Ask, window, engine
<1>7. CASE Freed
  BY <1>7 DEF Freed, Goto, Hear, window, engine
<1>8. CASE KeyPress
  BY <1>8 DEF KeyPress, Goto, window, wire, engine
<1>9. CASE MediumEnds
  BY <1>9 DEF MediumEnds, window, wire
<1>10. ASSUME NEW t \in Threads, Serve(t) PROVE BehindInv'
  <2>1. CASE ServeLoad(t)
    BY <2>1 DEF ServeLoad, Serves, window
  <2>2. CASE ServePlay(t)
    BY <2>2 DEF ServePlay, Serves, window
  <2>3. CASE ServePause(t)
    BY <2>3 DEF ServePause, Serves, window
  <2>4. CASE ServeStop(t)
    BY <2>4 DEF ServeStop, Serves, window
  <2>5. CASE ServeGetEvent(t)
    BY <2>5 DEF ServeGetEvent, Serves, window
  <2>6. CASE ServeFreeEvent(t)
    BY <2>6 DEF ServeFreeEvent, Serves, window
  <2>7. QED
    BY <1>10, <2>1, <2>2, <2>3, <2>4, <2>5, <2>6 DEF Serve
<1>11. CASE UNCHANGED vars
  BY <1>11 DEF vars, window, wire, engine
<1>12. QED
  BY <1>1, <1>2, <1>3, <1>4, <1>5, <1>6, <1>7, <1>8, <1>9, <1>10, <1>11, Steps

LEMMA TurnStep == IInv /\ [Next]_vars => TurnInv'
<1> SUFFICES ASSUME IInv, [Next]_vars PROVE TurnInv'
  OBVIOUS
<1> USE DEF IInv, past, Threads, TypeOK, PlaceInv, GuiPcs, MonitorPcs, WireInv,
            Wire, Waits, Asks, TurnInv, Handling, EndActedOn, EndUnused,
            EndPending, HeldInv
<1>0. NoEvent \notin Media /\ Other \notin Media
  BY MediaAssumption DEF Media, NoEvent, Other
<1> USE <1>0
<1>1. ASSUME NEW t \in Threads, Step(t) PROVE TurnInv'
  <2>1. CASE HasPrevious(t)
    BY <2>1 DEF HasPrevious, Goto, After, window, wire, engine
  <2>2. CASE ReadIndex(t)
    BY <2>2 DEF ReadIndex, Goto, window, wire, engine
  <2>3. CASE WriteIndex(t)
    BY <2>3 DEF WriteIndex, Goto, wire, engine
  <2>4. CASE Compare(t)
    BY <2>4 DEF Compare, Goto, Ask, wire, engine
  <2>5. CASE Close(t)
    BY <2>5 DEF Close, Goto, Hear, After, engine
  <2>6. CASE LoadMedia(t)
    BY <2>6 DEF LoadMedia, Goto, Ask, engine
  <2>7. CASE IndexError(t)
    <3>1. clash
      <4>1. pc[t] \in Moving \ {"compare"} /\ mediaidx >= NMedia
        BY <2>7 DEF IndexError, Moving
      <4>2. mediaidx \in Int
        OBVIOUS
      <4>3. QED
        BY <4>1, <4>2, InsideList, MediaAssumption
    <3>2. clash'
      BY <2>7, <3>1 DEF IndexError
    <3>3. QED
      BY <3>2
  <2>8. CASE Play(t)
    BY <2>8 DEF Play, Goto, Ask, engine
  <2>9. CASE Answer(t)
    BY <2>9 DEF Answer, Goto, Hear, After, window, engine
  <2>10. QED
    BY <1>1, <2>1, <2>2, <2>3, <2>4, <2>5, <2>6, <2>7, <2>8, <2>9 DEF Step
<1>2. CASE TogglePlayPause
  BY <1>2 DEF TogglePlayPause, Goto, Ask, engine
<1>3. CASE Stop
  BY <1>3 DEF Stop, Goto, Ask, engine
<1>4. CASE GetEvent
  BY <1>4 DEF GetEvent, Goto, Ask, window, engine
<1>5. CASE PlaybackEvent
  BY <1>5 DEF PlaybackEvent, Goto, Hear, window, engine
<1>6. CASE FreeEvent
  BY <1>6 DEF FreeEvent, Goto, Ask, window, engine
<1>7. CASE Freed
  BY <1>7 DEF Freed, Goto, Hear, window, engine
<1>8. CASE KeyPress
  BY <1>8 DEF KeyPress, Goto, EndPending, window, wire, engine
<1>9. CASE MediumEnds
  <2> SUFFICES ASSUME ~clash'
               PROVE  TurnInv'
    BY DEF TurnInv
  <2>1. ~clash /\ pc["gui"] = "key" /\ status = "running" /\ status' = "ended"
        /\ events' = Append(events, medium) /\ UNCHANGED <<pc, answered, held>>
    BY <1>9 DEF MediumEnds, wire
  <2>2. events = <<>> /\ EndActedOn
    BY <2>1 DEF TurnInv
  <2>3. events' # <<>> /\ Len(events') = 1
    BY <2>1, <2>2
  <2>4. EndActedOn'
    BY <2>1, <2>2 DEF EndActedOn, EndUnused
  <2>5. QED
    BY <2>1, <2>3, <2>4 DEF TurnInv
<1>10. ASSUME NEW t \in Threads, Serve(t) PROVE TurnInv'
  <2>1. CASE ServeLoad(t)
    BY <2>1 DEF ServeLoad, Serves, window
  <2>2. CASE ServePlay(t)
    BY <2>2 DEF ServePlay, Serves, window
  <2>3. CASE ServePause(t)
    BY <2>3 DEF ServePause, Serves, window
  <2>4. CASE ServeStop(t)
    BY <2>4 DEF ServeStop, Serves, window
  <2>5. CASE ServeGetEvent(t)
    <3>0. SUFFICES ASSUME ~clash
                   PROVE  TurnInv'
      BY <2>5 DEF ServeGetEvent, Serves
    <3>1. /\ t = "monitor" /\ pc["monitor"] = "event" /\ ~answered["monitor"]
          /\ held = NoEvent /\ pc' = pc /\ status' = status /\ answered'["monitor"]
      BY <2>5, <3>0 DEF ServeGetEvent, Serves
    <3>2. CASE events = <<>>
      <4>1. events' = <<>> /\ held' \in {held, Other}
        BY <2>5, <3>2 DEF ServeGetEvent
      <4>2. QED
        BY <3>0, <3>1, <3>2, <4>1
    <3>3. CASE events # <<>>
      <4>1. held' = Head(events) /\ events' = Tail(events)
        BY <2>5, <3>3 DEF ServeGetEvent
      <4>2. events \in Seq(Media) /\ Len(events) <= 1
        BY <3>0
      <4>3. Head(events) \in Media /\ Tail(events) = <<>>
        BY <4>2, <3>3
      <4>4. held' \in Media /\ events' = <<>>
        BY <4>1, <4>3
      <4>5. QED
        BY <3>0, <3>1, <3>3, <4>4
    <3>4. QED
      BY <3>2, <3>3
  <2>6. CASE ServeFreeEvent(t)
    BY <2>6 DEF ServeFreeEvent, Serves, window
  <2>7. QED
    BY <1>10, <2>1, <2>2, <2>3, <2>4, <2>5, <2>6 DEF Serve
<1>11. CASE UNCHANGED vars
  BY <1>11 DEF vars, window, wire, engine
<1>12. QED
  BY <1>1, <1>2, <1>3, <1>4, <1>5, <1>6, <1>7, <1>8, <1>9, <1>10, <1>11, Steps

LEMMA IndexStep == IInv /\ [Next]_vars => IndexInv'
<1> SUFFICES ASSUME IInv, [Next]_vars PROVE IndexInv'
  OBVIOUS
<1> USE DEF IInv, past, Threads, TypeOK, PlaceInv, GuiPcs, MonitorPcs, WireInv,
            Wire, Waits, Asks, TurnInv, Handling, EndActedOn, EndUnused,
            EndPending, HeldInv,
            IndexInv, Moving
<1>1. ASSUME NEW t \in Threads, Step(t) PROVE IndexInv'
  <2>1. CASE HasPrevious(t)
    BY <2>1 DEF HasPrevious, Goto, After, window, wire, engine
  <2>2. CASE ReadIndex(t)
    BY <2>2 DEF ReadIndex, Goto, window, wire, engine
  <2>3. CASE WriteIndex(t)
    <3>1. ~clash => mediaidx < NMedia /\ tmp[t] = mediaidx
      BY <2>3, InsideList DEF WriteIndex
    <3>2. /\ \A o \in Threads : o # t => pc'[o] = pc[o] /\ tmp'[o] = tmp[o]
          /\ pc'[t] \in {"compare", "index"}
          /\ pc'[t] = "compare" => mediaidx' = tmp[t] + 1
          /\ pc'[t] = "index" => mediaidx' = tmp[t] - 1
          /\ UNCHANGED <<clash, closed, status, answered>>
      BY <2>3 DEF WriteIndex, Goto, wire, engine
    <3>3. ~clash => \A o \in Threads : o # t => pc[o] \notin {"raised", "lowered"}
      BY <2>3 DEF WriteIndex
    <3>4. ~clash => /\ mediaidx' <= NMedia
                    /\ mediaidx' = NMedia => pc'[t] = "compare"
      BY <3>1, <3>2, MediaAssumption
    <3>5. ~clash => ~closed
      BY <2>3 DEF WriteIndex
    <3>6. QED
      BY <3>2, <3>3, <3>4, <3>5
  <2>4. CASE Compare(t)
    BY <2>4 DEF Compare, Goto, Ask, wire, engine
  <2>5. CASE Close(t)
    BY <2>5 DEF Close, Goto, Hear, After, engine
  <2>6. CASE LoadMedia(t)
    BY <2>6 DEF LoadMedia, Goto, Ask, engine
  <2>7. CASE IndexError(t)
    BY <2>7 DEF IndexError, Goto, wire
  <2>8. CASE Play(t)
    BY <2>8 DEF Play, Goto, Ask, engine
  <2>9. CASE Answer(t)
    BY <2>9 DEF Answer, Goto, Hear, After, window, engine
  <2>10. QED
    BY <1>1, <2>1, <2>2, <2>3, <2>4, <2>5, <2>6, <2>7, <2>8, <2>9 DEF Step
<1>2. CASE TogglePlayPause
  BY <1>2 DEF TogglePlayPause, Goto, Ask, engine
<1>3. CASE Stop
  BY <1>3 DEF Stop, Goto, Ask, engine
<1>4. CASE GetEvent
  BY <1>4 DEF GetEvent, Goto, Ask, window, engine
<1>5. CASE PlaybackEvent
  BY <1>5 DEF PlaybackEvent, Goto, Hear, window, engine
<1>6. CASE FreeEvent
  BY <1>6 DEF FreeEvent, Goto, Ask, window, engine
<1>7. CASE Freed
  BY <1>7 DEF Freed, Goto, Hear, window, engine
<1>8. CASE KeyPress
  BY <1>8 DEF KeyPress, Goto, EndPending, window, wire, engine
<1>9. CASE MediumEnds
  BY <1>9 DEF MediumEnds, window, wire
<1>10. ASSUME NEW t \in Threads, Serve(t) PROVE IndexInv'
  <2>1. CASE ServeLoad(t)
    BY <2>1 DEF ServeLoad, Serves, window
  <2>2. CASE ServePlay(t)
    BY <2>2 DEF ServePlay, Serves, window
  <2>3. CASE ServePause(t)
    BY <2>3 DEF ServePause, Serves, window
  <2>4. CASE ServeStop(t)
    BY <2>4 DEF ServeStop, Serves, window
  <2>5. CASE ServeGetEvent(t)
    BY <2>5 DEF ServeGetEvent, Serves, window
  <2>6. CASE ServeFreeEvent(t)
    BY <2>6 DEF ServeFreeEvent, Serves, window
  <2>7. QED
    BY <1>10, <2>1, <2>2, <2>3, <2>4, <2>5, <2>6 DEF Serve
<1>11. CASE UNCHANGED vars
  BY <1>11 DEF vars, window, wire, engine
<1>12. QED
  BY <1>1, <1>2, <1>3, <1>4, <1>5, <1>6, <1>7, <1>8, <1>9, <1>10, <1>11, Steps

LEMMA MediumStep == IInv /\ [Next]_vars => MediumInv'
<1> SUFFICES ASSUME IInv, [Next]_vars PROVE MediumInv'
  OBVIOUS
<1> USE DEF IInv, past, Threads, TypeOK, PlaceInv, GuiPcs, MonitorPcs, WireInv,
            Wire, Waits, Asks, TurnInv, Handling, EndActedOn, EndUnused,
            EndPending, HeldInv,
            IndexInv, Moving, MediumInv, Changing
<1>1. ASSUME NEW t \in Threads, Step(t) PROVE MediumInv'
  <2>1. CASE HasPrevious(t)
    BY <2>1 DEF HasPrevious, Goto, After, window, wire, engine
  <2>2. CASE ReadIndex(t)
    BY <2>2 DEF ReadIndex, Goto, window, wire, engine
  <2>3. CASE WriteIndex(t)
    BY <2>3 DEF WriteIndex, Goto, wire, engine
  <2>4. CASE Compare(t)
    BY <2>4 DEF Compare, Goto, Ask, wire, engine
  <2>5. CASE Close(t)
    BY <2>5 DEF Close, Goto, Hear, After, engine
  <2>6. CASE LoadMedia(t)
    BY <2>6 DEF LoadMedia, Goto, Ask, engine
  <2>7. CASE IndexError(t)
    <3>1. clash
      <4>1. pc[t] \in Moving \ {"compare"} /\ mediaidx >= NMedia
        BY <2>7 DEF IndexError, Moving
      <4>2. mediaidx \in Int
        OBVIOUS
      <4>3. QED
        BY <4>1, <4>2, InsideList, MediaAssumption
    <3>2. clash'
      BY <2>7, <3>1 DEF IndexError
    <3>3. QED
      BY <3>2
  <2>8. CASE Play(t)
    BY <2>8 DEF Play, Goto, Ask, engine
  <2>9. CASE Answer(t)
    BY <2>9 DEF Answer, Goto, Hear, After, window, engine
  <2>10. QED
    BY <1>1, <2>1, <2>2, <2>3, <2>4, <2>5, <2>6, <2>7, <2>8, <2>9 DEF Step
<1>2. CASE TogglePlayPause
  BY <1>2 DEF TogglePlayPause, Goto, Ask, engine
<1>3. CASE Stop
  BY <1>3 DEF Stop, Goto, Ask, engine
<1>4. CASE GetEvent
  BY <1>4 DEF GetEvent, Goto, Ask, window, engine
<1>5. CASE PlaybackEvent
  BY <1>5 DEF PlaybackEvent, Goto, Hear, window, engine
<1>6. CASE FreeEvent
  BY <1>6 DEF FreeEvent, Goto, Ask, window, engine
<1>7. CASE Freed
  BY <1>7 DEF Freed, Goto, Hear, window, engine
<1>8. CASE KeyPress
  BY <1>8 DEF KeyPress, Goto, EndPending, window, wire, engine
<1>9. CASE MediumEnds
  BY <1>9 DEF MediumEnds, window, wire
<1>10. ASSUME NEW t \in Threads, Serve(t) PROVE MediumInv'
  <2>1. CASE ServeLoad(t)
    BY <2>1 DEF ServeLoad, Serves, window
  <2>2. CASE ServePlay(t)
    BY <2>2 DEF ServePlay, Serves, window
  <2>3. CASE ServePause(t)
    BY <2>3 DEF ServePause, Serves, window
  <2>4. CASE ServeStop(t)
    BY <2>4 DEF ServeStop, Serves, window
  <2>5. CASE ServeGetEvent(t)
    BY <2>5 DEF ServeGetEvent, Serves, window
  <2>6. CASE ServeFreeEvent(t)
    BY <2>6 DEF ServeFreeEvent, Serves, window
  <2>7. QED
    BY <1>10, <2>1, <2>2, <2>3, <2>4, <2>5, <2>6 DEF Serve
<1>11. CASE UNCHANGED vars
  BY <1>11 DEF vars, window, wire, engine
<1>12. QED
  BY <1>1, <1>2, <1>3, <1>4, <1>5, <1>6, <1>7, <1>8, <1>9, <1>10, <1>11, Steps

LEMMA FlagStep == IInv /\ [Next]_vars => FlagInv'
<1> SUFFICES ASSUME IInv, [Next]_vars PROVE FlagInv'
  OBVIOUS
<1> USE DEF IInv, past, Threads, TypeOK, PlaceInv, GuiPcs, MonitorPcs, WireInv,
            Wire, Waits, Asks, TurnInv, Handling, EndActedOn, EndUnused,
            EndPending, HeldInv,
            EngineInv, FlagInv, Agree
<1>1. ASSUME NEW t \in Threads, Step(t) PROVE FlagInv'
  <2>1. CASE HasPrevious(t)
    BY <2>1 DEF HasPrevious, Goto, After, window, wire, engine
  <2>2. CASE ReadIndex(t)
    BY <2>2 DEF ReadIndex, Goto, window, wire, engine
  <2>3. CASE WriteIndex(t)
    BY <2>3 DEF WriteIndex, Goto, wire, engine
  <2>4. CASE Compare(t)
    BY <2>4 DEF Compare, Goto, Ask, wire, engine
  <2>5. CASE Close(t)
    BY <2>5 DEF Close, Goto, Hear, After, engine
  <2>6. CASE LoadMedia(t)
    BY <2>6 DEF LoadMedia, Goto, Ask, engine
  <2>7. CASE IndexError(t)
    BY <2>7 DEF IndexError, Goto, wire
  <2>8. CASE Play(t)
    <3>1. playing' = TRUE /\ clash' = clash /\ status' = status
      BY <2>8 DEF Play, engine
    <3>2. /\ \A o \in Threads : o # t =>
               pc'[o] = pc[o] /\ answered'[o] = answered[o] /\ request'[o] = request[o]
          /\ pc'[t] = "answer" /\ ~answered'[t] /\ request'[t].cmd = "Play"
      BY <2>8 DEF Play, Goto, Ask
    <3>3. ~clash => status = "stopped"
      BY <2>8 DEF Play, MediumInv
    <3>4. t = "monitor" /\ ~clash => pc["gui"] = "key"
      BY <2>8 DEF Play
    <3>5. request["gui"].cmd = "Pause" => pc["gui"] = "answer"
      OBVIOUS
    <3>6. QED
      BY <3>1, <3>2, <3>3, <3>4, <3>5
  <2>9. CASE Answer(t)
    BY <2>9 DEF Answer, Goto, Hear, After, window, engine
  <2>10. QED
    BY <1>1, <2>1, <2>2, <2>3, <2>4, <2>5, <2>6, <2>7, <2>8, <2>9 DEF Step
<1>2. CASE TogglePlayPause
  BY <1>2 DEF TogglePlayPause, Goto, Ask, engine
<1>3. CASE Stop
  BY <1>3 DEF Stop, Goto, Ask, engine
<1>4. CASE GetEvent
  BY <1>4 DEF GetEvent, Goto, Ask, window, engine
<1>5. CASE PlaybackEvent
  BY <1>5 DEF PlaybackEvent, Goto, Hear, window, engine
<1>6. CASE FreeEvent
  BY <1>6 DEF FreeEvent, Goto, Ask, window, engine
<1>7. CASE Freed
  BY <1>7 DEF Freed, Goto, Hear, window, engine
<1>8. CASE KeyPress
  BY <1>8 DEF KeyPress, Goto, EndPending, window, wire, engine
<1>9. CASE MediumEnds
  BY <1>9 DEF MediumEnds, window, wire
<1>10. ASSUME NEW t \in Threads, Serve(t) PROVE FlagInv'
  <2>1. CASE ServeLoad(t)
    <3>1. /\ UNCHANGED <<pc, playing, clash>>
          /\ request'["gui"].cmd = "none" \/ request'["gui"] = request["gui"]
      BY <2>1 DEF ServeLoad, Serves, window, NoRequest
    <3>2. ~clash => Agree'
      BY <2>1 DEF ServeLoad
    <3>3. QED
      BY <3>1, <3>2
  <2>2. CASE ServePlay(t)
    <3>1. /\ UNCHANGED <<pc, playing, clash>>
          /\ request'["gui"].cmd = "none" \/ request'["gui"] = request["gui"]
      BY <2>2 DEF ServePlay, Serves, window, NoRequest
    <3>2. ~clash => Agree'
      <4>1. ~clash => playing
        BY <2>2 DEF ServePlay, Serves
      <4>2. status' # "paused"
        BY <2>2 DEF ServePlay
      <4>3. QED
        BY <3>1, <4>1, <4>2
    <3>3. QED
      BY <3>1, <3>2
  <2>3. CASE ServePause(t)
    <3>1. /\ UNCHANGED <<pc, playing, clash>>
          /\ request'["gui"].cmd = "none" \/ request'["gui"] = request["gui"]
      BY <2>3 DEF ServePause, Serves, window, NoRequest
    <3>2. ~clash => Agree'
      <4>1. ~clash => ~playing
        BY <2>3 DEF ServePause, Serves
      <4>2. status' # "running"
        BY <2>3 DEF ServePause
      <4>3. QED
        BY <3>1, <4>1, <4>2
    <3>3. QED
      BY <3>1, <3>2
  <2>4. CASE ServeStop(t)
    <3>1. /\ UNCHANGED <<pc, playing, clash>>
          /\ request'["gui"].cmd = "none" \/ request'["gui"] = request["gui"]
      BY <2>4 DEF ServeStop, Serves, window, NoRequest
    <3>2. ~clash => Agree'
      BY <2>4 DEF ServeStop
    <3>3. QED
      BY <3>1, <3>2
  <2>5. CASE ServeGetEvent(t)
    BY <2>5 DEF ServeGetEvent, Serves, window
  <2>6. CASE ServeFreeEvent(t)
    BY <2>6 DEF ServeFreeEvent, Serves, window
  <2>7. QED
    BY <1>10, <2>1, <2>2, <2>3, <2>4, <2>5, <2>6 DEF Serve
<1>11. CASE UNCHANGED vars
  BY <1>11 DEF vars, window, wire, engine
<1>12. QED
  BY <1>1, <1>2, <1>3, <1>4, <1>5, <1>6, <1>7, <1>8, <1>9, <1>10, <1>11, Steps

-----------------------------------------------------------------------------
(* The theorems *)

LEMMA Initially == Init => IInv
<1> SUFFICES ASSUME Init PROVE IInv
  OBVIOUS
<1>1. TypeOK
  <2>1. /\ events \in Seq(Media) /\ keys \in 0..MaxKeys
        /\ NoRequest \in [cmd : {"none", "LoadMedia", "Play", "Pause", "Stop", "GetEvent",
                                "FreeEvent"}, arg : Media \cup {None}]
    BY BoundAssumption DEF Init, NoRequest
  <2>2. pc \in [Threads -> {"key", "next", "previous", "lower", "raised", "lowered",
                 "compare", "closing", "index", "play", "answer", "toggle", "stop",
                 "getEvent", "event", "free", "freed"}]
    BY DEF Init
  <2>3. tmp \in [Threads -> Int] /\ answered \in [Threads -> BOOLEAN]
    BY DEF Init, None
  <2>4. /\ mediaidx \in Int /\ medium \in Media \cup {None}
        /\ held \in Media \cup {NoEvent, Other}
    BY DEF Init
  <2>5. /\ playing \in BOOLEAN /\ closed \in BOOLEAN /\ monitorRuns \in BOOLEAN
        /\ clash \in BOOLEAN /\ over \in BOOLEAN /\ status \in {"stopped", "running", "paused", "ended"}
    BY DEF Init
  <2>6. request \in [Threads -> [cmd : {"none", "LoadMedia", "Play", "Pause", "Stop",
                                      "GetEvent", "FreeEvent"},
                               arg : Media \cup {None}]]
    BY <2>1 DEF Init
  <2>7. QED
    BY <2>1, <2>2, <2>3, <2>4, <2>5, <2>6 DEF TypeOK
<1>2. PlaceInv /\ FloorInv /\ EngineInv
  BY DEF Init, PlaceInv, GuiPcs, MonitorPcs, FloorInv, EngineInv, Threads, None
<1>3. WireInv
  BY DEF Init, WireInv, Wire, Waits, Threads, NoRequest
<1>4. HeldInv /\ BehindInv /\ TurnInv
  BY MediaAssumption DEF Init, TurnInv, Handling, EndActedOn, EndUnused,
     EndPending, HeldInv, BehindInv, Threads, Media, NoEvent
<1>5. IndexInv
  BY MediaAssumption DEF Init, IndexInv, Moving, Threads
<1>6. MediumInv /\ FlagInv
  BY DEF Init, MediumInv, Changing, FlagInv, Agree, Threads, NoRequest
<1>7. QED
  BY <1>1, <1>2, <1>3, <1>4, <1>5, <1>6 DEF IInv

\* The inductive invariant holds in every reachable state: where the threads
\* are and what they have asked, whose turn it is with the index, and what the
\* engine holds for which index.
THEOREM Inductive == Spec => []IInv
<1>1. IInv /\ [Next]_vars => IInv'
  BY TypeStep, PlaceStep, FloorStep, WireStep, EngineStep, HeldStep, BehindStep,
     TurnStep, IndexStep, MediumStep, FlagStep DEF IInv
<1>2. QED
  BY Initially, <1>1, PTL DEF Spec

\* In every reachable state, also after a key has met the end of a medium,
\* every variable has its type: only media of the list are ever asked for.
THEOREM TypeCorrect == Spec => []TypeOK
<1>1. IInv => TypeOK
  BY DEF IInv
<1>2. QED
  BY <1>1, Inductive, PTL

\* Between two keys the engine has the medium of the index and the flag of the
\* play key is true (playback.py), for a play list of any length.
THEOREM WindowCorrect == Spec => []PlaysWhatWindowSays
<1>1. IInv => PlaysWhatWindowSays
  <2> SUFFICES ASSUME IInv, AtRest, ~clash, ~closed
               PROVE  /\ medium \in {mediaidx, None}
                      /\ status = "paused" => ~playing
                      /\ status = "running" => playing
    BY DEF PlaysWhatWindowSays
  <2>1. \A t \in Threads : ~Changing(t)
    BY DEF AtRest, Threads, Changing
  <2>2. medium \in {mediaidx, None}
    BY <2>1 DEF IInv, MediumInv
  <2>3. Agree
    BY DEF IInv, FlagInv, AtRest
  <2>4. QED
    BY <2>2, <2>3 DEF Agree
<1>2. QED
  BY <1>1, Inductive, PTL

\* StatusMonitor's thread (playback.py) ends only when the window is closing or
\* closed and the engine stopped, also when a key and an end have met and it dies
\* of an index behind the list.
THEOREM MonitorCorrect == Spec => []MonitorSurvives
<1>1. IInv => MonitorSurvives
  BY DEF IInv, BehindInv, Closes, MonitorSurvives
<1>2. QED
  BY <1>1, Inductive, PTL

\* The monitor replaces a medium only after it has ended, except by an end that
\* was on its way when the medium was loaded; every end replaces one medium at
\* most.
THEOREM NoEarlyReplacement == Spec => LeftAtItsEnd
<1>1. IInv /\ [Next]_vars => [ServeLoad("monitor") => over]_vars
  <2> SUFFICES ASSUME IInv, ServeLoad("monitor")
               PROVE  over
    OBVIOUS
  <2>1. request["monitor"].cmd = "LoadMedia"
    BY DEF ServeLoad, Serves
  <2>2. pc["monitor"] = "play" /\ ~answered["monitor"]
    BY <2>1 DEF IInv, WireInv, Wire, Asks, Threads
  <2>3. EndUnused
    BY <2>2 DEF IInv, HeldInv, Handling, EndUnused
  <2>4. QED
    BY <2>3 DEF IInv, HeldInv
<1>2. QED
  BY <1>1, Inductive, PTL DEF Spec, LeftAtItsEnd
=============================================================================
