------------------------ MODULE AudioHandoverProofs ------------------------
(***************************************************************************)
(* Type correctness of AudioHandover, MovieKeepsPlayer and AudioComesBack, *)
(* proved for any set of tracks.                                           *)
(***************************************************************************)
EXTENDS AudioHandover, TLAPS

-----------------------------------------------------------------------------
(* The inductive invariant *)

\* A thread in a call of the player knows where it returns to.
CallersWait == \A p \in Threads : pc[p] \in Calls => ret[p] \in Labels \ Calls

\* Which calls the main thread makes from where.
MainCalls ==
  /\ pc["main"] \in {"poll", "handle"} => ret["main"] \in {"playTrack", "suspend"}
  /\ pc["main"] \in {"unpause", "stopOnly"} =>
       ret["main"] \in {"ui", "isWeb", "isFile", "noTrack", "restored",
                        "releaseDevice", "released"}
  /\ pc["main"] \in {"stopPlayer", "load", "setPlaying"} =>
       ret["main"] \in {"ui", "isWeb", "isFile", "restored"}
  /\ pc["main"] \notin Calls => ret["main"] = "none"

\* From aquire_exclusive_access to release_exclusive_access.
InSession ==
  \/ pc["main"] \in BeginPcs \cup MoviePcs \cup {"activate"}
  \/ ret["main"] \in {"suspend", "releaseDevice", "released"}

\* No pass of the updater begins in a session, so the updater is out of the
\* way for all of a session that did not begin inside a pass.
UpdaterStopped == InSession => ~active /\ (~late => pc["updater"] = "wait")

\* The audio player has its device except while the movie player has it, so
\* that begin_external always stops it.
DeviceReleased ==
  loaded \/ pc["main"] \in MoviePcs \cup {"activate", "endExternal"}

\* The engine is stopped and its queue empty when a movie is loaded.
EngineFree ==
  (pc["main"] \in {"released", "loadMovie"} /\ ~late) =>
    status = "stopped" /\ events = <<>>

IInv ==
  /\ TypeOK /\ CallersWait /\ MainCalls
  /\ UpdaterStopped /\ DeviceReleased /\ EngineFree /\ MovieKeepsPlayer

-----------------------------------------------------------------------------
(* Types and calls *)

LEMMA GotoType ==
  ASSUME TypeOK, CallersWait, NEW p \in Threads, NEW l \in Labels \ Calls,
         Goto(p, l)
  PROVE  /\ pc' \in [Threads -> Labels] /\ ret' \in [Threads -> Labels \cup {"none"}]
         /\ CallersWait'
  BY DEF TypeOK, CallersWait, Goto

LEMMA CallType ==
  ASSUME TypeOK, CallersWait, NEW p \in Threads, NEW l \in Calls,
         NEW b \in Labels \ Calls, Call(p, l, b)
  PROVE  /\ pc' \in [Threads -> Labels] /\ ret' \in [Threads -> Labels \cup {"none"}]
         /\ CallersWait'
  BY DEF TypeOK, CallersWait, Call, Labels

LEMMA ReturnType ==
  ASSUME TypeOK, CallersWait, NEW p \in Threads, pc[p] \in Calls, Return(p)
  PROVE  /\ pc' \in [Threads -> Labels] /\ ret' \in [Threads -> Labels \cup {"none"}]
         /\ CallersWait'
  BY DEF TypeOK, CallersWait, Return

\* A step from one step of a call to the next.
LEMMA WithinType ==
  ASSUME TypeOK, CallersWait, NEW p \in Threads, pc[p] \in Calls,
         NEW l \in Calls, Goto(p, l)
  PROVE  /\ pc' \in [Threads -> Labels] /\ ret' \in [Threads -> Labels \cup {"none"}]
         /\ CallersWait'
  BY DEF TypeOK, CallersWait, Goto, Labels

\* The operations of the player that both threads call.
PlayerStep(p) ==
  \/ Poll(p) \/ HandleEnd(p) \/ Unpause(p) \/ StopPlayer(p) \/ LoadTrack(p)
  \/ SetPlaying(p) \/ NextTrack(p) \/ AllSkipped(p) \/ NoTrack(p)
  \/ Restored(p)

LEMMA PlayerControl ==
  ASSUME TypeOK, CallersWait, NEW p \in Threads, PlayerStep(p)
  PROVE  /\ pc' \in [Threads -> Labels] /\ ret' \in [Threads -> Labels \cup {"none"}]
         /\ CallersWait'
<1> USE DEF Calls
<1>0. /\ {"ui", "print", "repause", "done", "noTrack", "restored", "skipped"}
           \subseteq Labels \ Calls
  BY DEF Labels, EndPcs, BeginPcs, MoviePcs
<1>1. CASE Poll(p)
  BY <1>1, ReturnType, WithinType DEF Poll
<1>2. CASE HandleEnd(p)
  BY <1>2, ReturnType DEF HandleEnd
<1>3. CASE Unpause(p)
  BY <1>3, WithinType DEF Unpause
<1>4. CASE StopPlayer(p)
  BY <1>4, ReturnType, WithinType DEF StopPlayer
<1>5. CASE LoadTrack(p)
  BY <1>5, WithinType DEF LoadTrack
<1>6. CASE SetPlaying(p)
  BY <1>6, ReturnType DEF SetPlaying
<1>7. CASE NextTrack(p)
  <2>1. Home(p) \in Labels \ Calls
    BY <1>0 DEF Home
  <2>2. \/ Goto(p, Home(p)) \/ Goto(p, "skipped")
        \/ Call(p, "stopPlayer", Home(p)) \/ Call(p, "unpause", Home(p))
        \/ Call(p, "unpause", "noTrack")
    BY <1>7 DEF NextTrack, AddFile
  <2>3. QED
    BY <1>0, <2>1, <2>2, GotoType, CallType
<1>11. CASE AllSkipped(p)
  <2>1. Home(p) \in Labels \ Calls
    BY <1>0 DEF Home
  <2>2. QED
    BY <1>11, <2>1, GotoType DEF AllSkipped
<1>8. CASE NoTrack(p)
  <2>1. Home(p) \in Labels \ Calls
    BY <1>0 DEF Home
  <2>2. QED
    BY <1>8, <2>1, GotoType DEF NoTrack
<1>9. CASE Restored(p)
  <2>1. \E l \in {"print", "repause", "done"} : Goto(p, l)
    BY <1>9 DEF Restored
  <2>2. QED
    BY <1>0, <2>1, GotoType
<1>10. QED
  BY <1>1, <1>2, <1>3, <1>4, <1>5, <1>6, <1>7, <1>8, <1>9, <1>11
     DEF PlayerStep

\* What TypeOK says of the data, in four parts.
EngineOK ==
  /\ medium \in Media
  /\ status \in {"stopped", "running", "paused", "ended"}
  /\ events \in Seq(Media)

AudioOK ==
  /\ bRunning \in BOOLEAN /\ playing \in BOOLEAN /\ paused \in BOOLEAN
  /\ curNr \in Tracks \cup {None} /\ path \in Tracks \cup {None}
  /\ loaded \in BOOLEAN /\ streaming \in BOOLEAN

KeptOK ==
  /\ active \in BOOLEAN
  /\ suspended \in BOOLEAN /\ track \in Tracks \cup {None}
  /\ wasStarted \in BOOLEAN /\ wasPlaying \in BOOLEAN /\ wasPaused \in BOOLEAN

HistoryOK ==
  /\ before \in [sound : {"running", "paused", "silent", "lost", "late", "none"},
                 track : Tracks \cup {None}]

DataOK == EngineOK /\ AudioOK /\ KeptOK /\ HistoryOK

\* The steps of the event queue.
LEMMA EventsType ==
  ASSUME NEW q \in Seq(Media), NEW m \in Media
  PROVE  /\ <<>> \in Seq(Media) /\ Append(q, m) \in Seq(Media)
         /\ q # <<>> => Tail(q) \in Seq(Media)
  OBVIOUS

LEMMA PlayerData ==
  ASSUME DataOK, NEW p \in Threads, PlayerStep(p)
  PROVE  DataOK'
<1> USE DEF PlayerStep, Poll, HandleEnd, Unpause, StopPlayer, LoadTrack,
            SetPlaying, NextTrack, AllSkipped, NoTrack, Restored, AddFile, modes
<1>1. EngineOK'
  <2>1. medium' \in Media
    BY DEF DataOK, EngineOK, AudioOK, engine, Media
  <2>2. status' \in {"stopped", "running", "paused", "ended"}
    BY DEF DataOK, EngineOK, engine
  <2>3. events' \in {events, Tail(events), <<>>} /\ (events = <<>> => events' = <<>>)
    BY DEF engine
  <2>4. events' \in Seq(Media)
    BY <2>3, EventsType DEF DataOK, EngineOK
  <2>5. QED
    BY <2>1, <2>2, <2>4 DEF EngineOK
<1>2. AudioOK'
  BY DEF DataOK, AudioOK, KeptOK, audio, kept
<1>3. KeptOK'
  BY DEF DataOK, KeptOK, kept
<1>4. HistoryOK'
  <2>1. before' \in {before, Lost}
    OBVIOUS
  <2>2. QED
    BY <2>1 DEF DataOK, HistoryOK, Lost, Kept
<1>5. QED
  BY <1>1, <1>2, <1>3, <1>4 DEF DataOK

\* The rest of Next: the updater's pass, the menus, a movie, the engine.
OtherStep ==
  \/ BeginPass \/ NothingToDo \/ Decide \/ PrintTrack
  \/ UserPlays \/ PlayTrack \/ SetStreaming \/ UserPlaysOn \/ UserStops \/ UserNext \/ Pause
  \/ StartMovie \/ BeginExternal \/ Suspend \/ ReleaseDevice \/ Released
  \/ LoadMovie \/ MovieEnds \/ MovieKey \/ StopMovie \/ Activate \/ EndExternal
  \/ BackInMenu \/ MediumEnds

LEMMA Steps == Next => OtherStep \/ \E p \in Threads : PlayerStep(p)
  BY DEF Next, MainStep, UpdaterStep, User, OtherStep, PlayerStep, Threads

LEMMA OtherData ==
  ASSUME DataOK, OtherStep
  PROVE  DataOK'
<1> USE DEF OtherStep, BeginPass, NothingToDo, Decide, PrintTrack, UserPlays,
            PlayTrack, SetStreaming, UserPlaysOn, AddFile, modes, UserStops,
            UserNext, Pause, StartMovie, BeginExternal, Suspend, ReleaseDevice,
            Released, LoadMovie, MovieEnds, MovieKey, StopMovie, Activate,
            EndExternal, BackInMenu, MediumEnds
<1>1. EngineOK'
  <2>1. medium' \in Media
    BY DEF DataOK, EngineOK, engine, Media
  <2>2. status' \in {"stopped", "running", "paused", "ended"}
    BY DEF DataOK, EngineOK, engine
  <2>3. \/ events' \in {events, <<>>}
        \/ events # <<>> /\ events' = Tail(events)
        \/ events' = Append(events, medium)
    BY DEF engine
  <2>4. events' \in Seq(Media)
    BY <2>3, EventsType DEF DataOK, EngineOK
  <2>5. QED
    BY <2>1, <2>2, <2>4 DEF EngineOK
<1>2. AudioOK'
  BY DEF DataOK, AudioOK, KeptOK, audio, kept
<1>3. KeptOK'
  BY DEF DataOK, KeptOK, AudioOK, kept
<1>4. HistoryOK'
  <2>1. TakenToBeOn \in [sound : {"running", "paused", "silent", "lost", "late"},
                         track : Tracks \cup {None}]
    BY DEF TakenToBeOn, Kept, DataOK, AudioOK
  <2>2. before' \in {before, Lost, TakenToBeOn, NoSession}
    OBVIOUS
  <2>3. QED
    BY <2>1, <2>2 DEF DataOK, HistoryOK, NoSession, Lost, Kept
<1>5. QED
  BY <1>1, <1>2, <1>3, <1>4 DEF DataOK

LEMMA OtherControl ==
  ASSUME TypeOK, CallersWait, OtherStep
  PROVE  /\ pc' \in [Threads -> Labels] /\ ret' \in [Threads -> Labels \cup {"none"}]
         /\ CallersWait'
<1>1. Labels \ Calls = BeginPcs \cup MoviePcs \cup EndPcs \cup
        {"ui", "playTrack", "isWeb", "isFile", "nextTrack", "skipped", "noTrack",
         "restored", "wait", "decide", "print"}
  BY DEF Labels, Calls, BeginPcs, MoviePcs, EndPcs
<1> DEFINE Plain == Labels \ Calls
<1>2. CASE \E p \in Threads, l \in Plain : Goto(p, l)
  BY <1>2, GotoType
<1>3. CASE \E p \in Threads, l \in Calls, b \in Plain : Call(p, l, b)
  BY <1>3, CallType
<1>4. CASE UNCHANGED <<pc, ret>>
  BY <1>4 DEF TypeOK, CallersWait
<1>5. \/ \E p \in Threads, l \in Plain : Goto(p, l)
      \/ \E p \in Threads, l \in Calls, b \in Plain : Call(p, l, b)
      \/ UNCHANGED <<pc, ret>>
  <2> HIDE DEF Plain
  <2>1. {"wait", "decide", "print", "nextTrack", "noTrack", "restored", "ui",
         "playTrack", "isWeb", "isFile", "begin", "suspend", "releaseDevice", "released",
         "loadMovie", "watch", "stopMovie", "activate", "endExternal",
         "repause", "done"} \subseteq Plain
    BY <1>1 DEF Plain, BeginPcs, MoviePcs, EndPcs
  <2>2. {"poll", "unpause", "stopPlayer"} \subseteq Calls
    BY DEF Calls
  <2>3. {"main", "updater"} \subseteq Threads
    BY DEF Threads
  <2>4. CASE BeginPass \/ NothingToDo \/ Decide \/ PrintTrack
    BY <2>1, <2>2, <2>3, <2>4
       DEF BeginPass, NothingToDo, Decide, PrintTrack, AddFile
  <2>5. CASE UserPlays \/ PlayTrack \/ UserStops \/ UserNext
    BY <2>1, <2>2, <2>3, <2>5 DEF UserPlays, PlayTrack, UserStops, UserNext,
       AddFile
  <2>10. CASE SetStreaming \/ UserPlaysOn
    BY <2>1, <2>2, <2>3, <2>10 DEF SetStreaming, UserPlaysOn, AddFile
  <2>6. CASE Pause \/ StartMovie \/ BeginExternal \/ Suspend
    BY <2>1, <2>2, <2>3, <2>6 DEF Pause, StartMovie, BeginExternal, Suspend
  <2>7. CASE ReleaseDevice \/ Released \/ LoadMovie \/ MovieEnds \/ MovieKey
    BY <2>1, <2>2, <2>3, <2>7
       DEF ReleaseDevice, Released, LoadMovie, MovieEnds, MovieKey
  <2>8. CASE StopMovie \/ Activate \/ EndExternal \/ BackInMenu \/ MediumEnds
    BY <2>1, <2>2, <2>3, <2>8
       DEF StopMovie, Activate, EndExternal, BackInMenu, MediumEnds, control,
           AddFile
  <2>9. QED
    BY <2>4, <2>5, <2>6, <2>7, <2>8, <2>10 DEF OtherStep
<1>6. QED
  BY <1>2, <1>3, <1>4, <1>5

LEMMA TypeStep == TypeOK /\ CallersWait /\ [Next]_vars => TypeOK' /\ CallersWait'
<1> SUFFICES ASSUME TypeOK, CallersWait, [Next]_vars
             PROVE  TypeOK' /\ CallersWait'
  OBVIOUS
<1>1. DataOK
  BY DEF TypeOK, DataOK, EngineOK, AudioOK, KeptOK, HistoryOK
<1>2. CASE Next
  <2>1. DataOK'
    BY <1>1, <1>2, Steps, PlayerData, OtherData
  <2>2. /\ pc' \in [Threads -> Labels] /\ ret' \in [Threads -> Labels \cup {"none"}]
        /\ CallersWait'
    BY <1>2, Steps, PlayerControl, OtherControl
  <2>3. QED
    BY <2>1, <2>2
       DEF TypeOK, DataOK, EngineOK, AudioOK, KeptOK, HistoryOK
<1>3. CASE UNCHANGED vars
  BY <1>3 DEF TypeOK, CallersWait, vars, control, engine, audio, modes, kept
<1>4. QED
  BY <1>2, <1>3

-----------------------------------------------------------------------------
(* The session *)

LEMMA InitHolds == Init => IInv
<1> SUFFICES ASSUME Init PROVE IInv
  OBVIOUS
<1>1. /\ pc \in [Threads -> Labels] /\ ret \in [Threads -> Labels \cup {"none"}]
      /\ pc["main"] = "ui" /\ ret["main"] = "none"
      /\ \A p \in Threads : pc[p] \notin Calls
  BY DEF Init, Threads, Labels, Calls
<1>2. events \in Seq(Media)
  BY DEF Init
<1>3. before \in [sound : {"running", "paused", "silent", "lost", "late", "none"},
                  track : Tracks \cup {None}]
  BY DEF Init, NoSession, Kept
<1>4. TypeOK
  BY <1>1, <1>2, <1>3 DEF Init, TypeOK, Media
<1>5. CallersWait /\ MainCalls
  BY <1>1 DEF CallersWait, MainCalls, Calls
<1>6. ~InSession
  BY <1>1 DEF InSession, BeginPcs, MoviePcs
<1>7. DeviceReleased /\ EngineFree /\ MovieKeepsPlayer
  BY <1>1 DEF Init, DeviceReleased, EngineFree, MovieKeepsPlayer
<1>8. QED
  BY <1>4, <1>5, <1>6, <1>7 DEF IInv, UpdaterStopped

\* The audio may change in a session; that it began late stays as it is.
LEMMA LostIsNotLate ==
  ASSUME before' \in {before, Lost}
  PROVE  late' = late
BY DEF Lost, late, Kept

\* What the updater's thread does leaves the main thread where it is, and in
\* a session that did not begin inside a pass it does nothing.
LEMMA UpdaterKeeps ==
  ASSUME IInv, UpdaterStep
  PROVE  MainCalls' /\ UpdaterStopped' /\ DeviceReleased' /\ EngineFree'
         /\ MovieKeepsPlayer'
<1>0. /\ pc'["main"] = pc["main"] /\ ret'["main"] = ret["main"]
      /\ UNCHANGED <<active, loaded>>
      /\ before' \in {before, Lost}
  BY DEF UpdaterStep, Poll, HandleEnd, Unpause, StopPlayer, LoadTrack, AddFile,
         SetPlaying, NextTrack, AllSkipped, NoTrack, Restored, BeginPass,
         NothingToDo, Decide, PrintTrack, Goto, Call, Return, audio, modes,
         IInv, TypeOK, Threads
<1>1. /\ pc'["main"] = pc["main"] /\ ret'["main"] = ret["main"]
      /\ UNCHANGED <<active, late, loaded>>
  BY <1>0, LostIsNotLate
<1>2. MainCalls' /\ DeviceReleased'
  BY <1>1 DEF IInv, MainCalls, DeviceReleased
<1>3. pc["updater"] # "wait" \/ active
  BY DEF UpdaterStep, Poll, HandleEnd, Unpause, StopPlayer, LoadTrack,
         SetPlaying, NextTrack, AllSkipped, NoTrack, Restored, BeginPass,
         NothingToDo, Decide, PrintTrack
<1>4. InSession => late
  BY <1>3 DEF IInv, UpdaterStopped
<1>5. InSession' = InSession
  BY <1>1 DEF InSession
<1>6. UpdaterStopped'
  BY <1>1, <1>4, <1>5 DEF IInv, UpdaterStopped
<1>7. pc["main"] \in {"released", "loadMovie", "watch"} => late
  BY <1>4 DEF InSession, BeginPcs, MoviePcs
<1>8. EngineFree' /\ MovieKeepsPlayer'
  BY <1>1, <1>7 DEF EngineFree, MovieKeepsPlayer
<1>9. QED
  BY <1>2, <1>6, <1>8

\* The main thread in the operations of the player.
LEMMA MainPlayerKeeps ==
  ASSUME IInv, PlayerStep("main")
  PROVE  MainCalls' /\ UpdaterStopped' /\ DeviceReleased' /\ EngineFree'
         /\ MovieKeepsPlayer'
<1>0. /\ pc \in [Threads -> Labels] /\ ret \in [Threads -> Labels \cup {"none"}]
      /\ "main" \in Threads /\ "updater" \in Threads
  BY DEF IInv, TypeOK, Threads
<1>1. MainCalls'
  BY <1>0 DEF IInv, MainCalls, PlayerStep, Poll, HandleEnd, Unpause, StopPlayer,
     LoadTrack, SetPlaying, NextTrack, AllSkipped, NoTrack, Restored, AddFile,
     Goto, Call, Return, Home, Calls
<1>10. /\ pc'["updater"] = pc["updater"]
       /\ UNCHANGED <<active, loaded>>
       /\ before' \in {before, Lost}
  BY <1>0 DEF PlayerStep, Poll, HandleEnd, Unpause, StopPlayer, LoadTrack,
     SetPlaying, NextTrack, AllSkipped, NoTrack, Restored, AddFile, Goto, Call,
     Return, audio, modes
<1>2. /\ pc'["updater"] = pc["updater"]
      /\ UNCHANGED <<active, late, loaded>>
  BY <1>10, LostIsNotLate
<1>3. pc["main"] \notin MoviePcs \cup {"activate", "endExternal"}
  BY DEF PlayerStep, Poll, HandleEnd, Unpause, StopPlayer, LoadTrack,
     SetPlaying, NextTrack, AllSkipped, NoTrack, Restored, MoviePcs
<1>4. DeviceReleased'
  BY <1>2, <1>3 DEF IInv, DeviceReleased
<1>5. InSession' => InSession
  BY <1>0 DEF IInv, MainCalls, InSession, BeginPcs, MoviePcs, PlayerStep, Poll,
     HandleEnd, Unpause, StopPlayer, LoadTrack, SetPlaying, NextTrack,
     AllSkipped, NoTrack, Restored, AddFile, Goto, Call, Return, Home, Calls
<1>6. UpdaterStopped'
  BY <1>2, <1>5 DEF IInv, UpdaterStopped
<1>7. /\ pc'["main"] \notin {"loadMovie", "watch"}
      /\ pc'["main"] = "released" => status' = "stopped" /\ events' = <<>>
  BY <1>0 DEF IInv, MainCalls, PlayerStep, Poll, HandleEnd, Unpause, StopPlayer,
     LoadTrack, SetPlaying, NextTrack, AllSkipped, NoTrack, Restored, AddFile,
     Goto, Call, Return, Home, Calls
<1>8. QED
  BY <1>1, <1>4, <1>6, <1>7 DEF EngineFree, MovieKeepsPlayer

\* The main thread in the menus, before and after a movie.
LEMMA MenuKeeps ==
  ASSUME IInv,
         UserPlays \/ PlayTrack \/ SetStreaming \/ UserPlaysOn \/ UserStops
           \/ UserNext \/ Pause \/ StartMovie \/ EndExternal \/ BackInMenu
  PROVE  MainCalls' /\ UpdaterStopped' /\ DeviceReleased' /\ EngineFree'
         /\ MovieKeepsPlayer'
<1>0. /\ pc \in [Threads -> Labels] /\ ret \in [Threads -> Labels \cup {"none"}]
      /\ "main" \in Threads /\ "updater" \in Threads
  BY DEF IInv, TypeOK, Threads
<1> USE DEF UserPlays, PlayTrack, SetStreaming, UserPlaysOn, UserStops,
            UserNext, Pause, StartMovie, EndExternal, BackInMenu, AddFile,
            Goto, Call, modes
<1>1. MainCalls'
  BY <1>0 DEF IInv, MainCalls, Calls
<1>2. pc["main"] \notin Calls /\ ret["main"] = "none"
  BY DEF IInv, MainCalls, Calls
<1>3. CASE StartMovie
  <2>1. ~active' /\ (pc["updater"] # "wait" => late')
        /\ pc'["updater"] = pc["updater"]
    BY <1>0, <1>3 DEF TakenToBeOn, late
  <2>2. UpdaterStopped'
    BY <2>1 DEF UpdaterStopped
  <2>3. pc'["main"] = "begin" /\ loaded'
    BY <1>0, <1>3 DEF IInv, DeviceReleased, MoviePcs, audio
  <2>4. QED
    BY <1>1, <2>2, <2>3 DEF DeviceReleased, EngineFree, MovieKeepsPlayer
<1>4. CASE ~StartMovie
  <2>1. ~InSession'
    BY <1>0, <1>2, <1>4 DEF InSession, BeginPcs, MoviePcs
  <2>2. pc'["main"] \notin {"released", "loadMovie", "watch"}
    BY <2>1 DEF InSession, BeginPcs, MoviePcs
  <2>3. loaded'
    BY <1>4 DEF IInv, DeviceReleased, MoviePcs, audio
  <2>4. QED
    BY <1>1, <2>1, <2>2, <2>3
       DEF UpdaterStopped, DeviceReleased, EngineFree, MovieKeepsPlayer
<1>5. QED
  BY <1>3, <1>4

\* The main thread from begin_external to the end of the movie.
LEMMA SessionKeeps ==
  ASSUME IInv,
         BeginExternal \/ Suspend \/ ReleaseDevice \/ Released \/ LoadMovie
           \/ MovieEnds \/ MovieKey \/ StopMovie \/ Activate
  PROVE  MainCalls' /\ UpdaterStopped' /\ DeviceReleased' /\ EngineFree'
         /\ MovieKeepsPlayer'
<1>0. /\ pc \in [Threads -> Labels] /\ ret \in [Threads -> Labels \cup {"none"}]
      /\ "main" \in Threads /\ "updater" \in Threads
  BY DEF IInv, TypeOK, Threads
<1> USE DEF BeginExternal, Suspend, ReleaseDevice, Released, LoadMovie,
            MovieEnds, MovieKey, StopMovie, Activate, Goto, Call
<1>1. MainCalls'
  BY <1>0 DEF IInv, MainCalls, Calls
<1>2. InSession /\ pc'["updater"] = pc["updater"] /\ late' = late
  BY <1>0 DEF InSession, BeginPcs, MoviePcs, late
<1>3. ~Activate => active' = active
  BY DEF audio, kept
<1>4. Activate => ~InSession'
  BY <1>0 DEF IInv, MainCalls, InSession, BeginPcs, MoviePcs, Calls
<1>5. UpdaterStopped'
  BY <1>2, <1>3, <1>4 DEF IInv, UpdaterStopped
<1>6. pc["main"] \in BeginPcs => loaded
  BY DEF IInv, DeviceReleased, BeginPcs, MoviePcs
<1>7. DeviceReleased'
  BY <1>0, <1>6 DEF IInv, DeviceReleased, BeginPcs, MoviePcs, audio, modes
<1>8. EngineFree'
  BY <1>0, <1>2, <1>6 DEF IInv, EngineFree, BeginPcs, engine
<1>9. MovieKeepsPlayer'
  BY <1>0, <1>2, <1>6 DEF IInv, EngineFree, MovieKeepsPlayer, BeginPcs, engine
<1>10. QED
  BY <1>1, <1>5, <1>7, <1>8, <1>9

\* The end of a medium.
LEMMA MediumKeeps ==
  ASSUME IInv, MediumEnds
  PROVE  MainCalls' /\ UpdaterStopped' /\ DeviceReleased' /\ EngineFree'
         /\ MovieKeepsPlayer'
<1>0. before' \in {before, Lost}
  BY DEF MediumEnds
<1>1. /\ UNCHANGED <<pc, ret, active, loaded, late, medium>>
      /\ status = "running" /\ status' = "ended"
      /\ events' = Append(events, medium)
  BY <1>0, LostIsNotLate DEF MediumEnds, control, audio, modes
<1>2. MainCalls' /\ UpdaterStopped' /\ DeviceReleased'
  BY <1>1 DEF IInv, MainCalls, UpdaterStopped, InSession, DeviceReleased
<1>3. EngineFree'
  BY <1>1 DEF IInv, EngineFree
<1>4. MovieKeepsPlayer'
  <2> SUFFICES ASSUME pc["main"] = "watch", ~late
               PROVE  medium = Movie /\ events' = <<Movie>>
    BY <1>1 DEF MovieKeepsPlayer
  <2>1. medium = Movie /\ events = <<>>
    BY <1>1 DEF IInv, MovieKeepsPlayer
  <2>2. QED
    BY <1>1, <2>1
<1>5. QED
  BY <1>2, <1>3, <1>4

\* In a session that began between two passes of the updater the updater
\* stands still and the engine is stopped and empty before the movie is
\* loaded; every step keeps that, for any set of tracks.
THEOREM Inductive == Spec => []IInv
<1>1. IInv /\ [Next]_vars => IInv'
  <2> SUFFICES ASSUME IInv, [Next]_vars PROVE IInv'
    OBVIOUS
  <2>1. TypeOK' /\ CallersWait'
    BY TypeStep DEF IInv
  <2>2. CASE UNCHANGED vars
    BY <2>1, <2>2 DEF IInv, MainCalls, InSession, UpdaterStopped,
       DeviceReleased, EngineFree, MovieKeepsPlayer, late, vars, control,
       engine, audio, modes
  <2>3. CASE Next
    <3>1. \/ UpdaterStep \/ PlayerStep("main")
          \/ UserPlays \/ PlayTrack \/ SetStreaming \/ UserPlaysOn \/ UserStops
          \/ UserNext \/ Pause
          \/ StartMovie \/ EndExternal \/ BackInMenu
          \/ BeginExternal \/ Suspend \/ ReleaseDevice \/ Released \/ LoadMovie
          \/ MovieEnds \/ MovieKey \/ StopMovie \/ Activate
          \/ MediumEnds
      BY <2>3 DEF Next, MainStep, User, PlayerStep
    <3>2. QED
      BY <2>1, <3>1, UpdaterKeeps, MainPlayerKeeps, MenuKeeps, SessionKeeps,
         MediumKeeps DEF IInv
  <2>4. QED
    BY <2>2, <2>3
<1>2. QED
  BY <1>1, InitHolds, PTL DEF Spec

\* Every reachable state is well typed; in particular every call of the
\* player returns to the step that called it.
THEOREM TypeCorrect == Spec => []TypeOK
<1>1. IInv => TypeOK
  BY DEF IInv
<1>2. QED
  BY <1>1, Inductive, PTL

\* The engine and its events belong to the movie while it is watched.
THEOREM MovieKeepsEngine == Spec => []MovieKeepsPlayer
<1>1. IInv => MovieKeepsPlayer
  BY DEF IInv
<1>2. QED
  BY <1>1, Inductive, PTL
-----------------------------------------------------------------------------
(* The audio through a session: a second invariant, over the first *)

\* The stretches of a session: the track is still there; it is suspended and
\* being stopped; the movie has the engine; the track is being loaded again.
Heard     == pc["main"] \in {"begin", "suspend"} \/ ret["main"] = "suspend"
Stopping  == pc["main"] = "releaseDevice"
               \/ ret["main"] \in {"releaseDevice", "released"}
Away      == pc["main"] \in MoviePcs \cup {"released", "activate", "endExternal"}
Reloading == ret["main"] = "restored"
Reloaded  == pc["main"] \in {"restored", "repause", "done"}

\* Only begin_external sets started, end_external resets it.
StartedInv ==
  wasStarted => (InSession /\ pc["main"] # "begin") \/ pc["main"] = "endExternal"

\* The updater runs again, and finds neither an event nor anything to do.
UpdaterIdles ==
  /\ pc["updater"] \in {"wait", "poll", "decide", "print"}
  /\ pc["updater"] = "poll" => ret["updater"] \in {"decide", "wait"}

EngineQuiet == status = "stopped" /\ events = <<>>

\* A track that was on when the session began: what has to be remembered, and
\* what the engine does once the track is loaded again.
TrackInv ==
  /\ before.track \in Tracks
  /\ Heard => curNr = before.track /\ paused = (before.sound = "paused")
  /\ Heard /\ before.sound = "running" =>
       bRunning /\ events = <<>> /\ pc["main"] # "handle"
  /\ Heard /\ pc["main"] # "begin" => wasStarted
  /\ Stopping \/ Away => wasStarted /\ wasPlaying /\ suspended
  /\ Stopping \/ Away \/ Reloading \/ pc["main"] = "restored" =>
       track = before.track
  /\ Stopping \/ Away \/ Reloading \/ pc["main"] \in {"restored", "repause"} =>
       wasPaused = (before.sound = "paused")
  /\ Reloading => path = before.track
  /\ pc["main"] \in {"stopPlayer", "load"} /\ Reloading => EngineQuiet /\ ~playing
  /\ pc["main"] = "setPlaying" /\ Reloading =>
       medium = before.track /\ status = "running" /\ events = <<>> /\ bRunning
  /\ pc["main"] \in {"restored", "repause"} => status = "running" /\ ~paused
  /\ pc["main"] = "repause" => before.sound = "paused"
  /\ Reloaded => medium = before.track /\ events = <<>> /\ playing /\ bRunning
  /\ pc["main"] \in {"repause", "done"} => curNr = before.track
  /\ pc["main"] = "done" =>
       status = before.sound /\ paused = (before.sound = "paused")

\* Silence stays silence.
SilenceInv ==
  /\ Heard => ~paused
  /\ Heard /\ pc["main"] \notin {"handle", "suspend"} => ~bRunning \/ events # <<>>
  /\ pc["main"] = "suspend" => ~bRunning
  /\ (Heard /\ pc["main"] # "begin") \/ Stopping \/ Away => ~wasPlaying
  /\ pc["main"] = "done" => EngineQuiet /\ ~playing
  /\ ~Reloading /\ pc["main"] \notin {"restored", "repause"}

\* The session is told of, and its sound is to come back.
Promised == before.sound \in {"running", "paused", "silent"}

AudioInv ==
  /\ StartedInv
  /\ Promised =>
       /\ before.sound # "silent" => TrackInv
       /\ before.sound = "silent" => SilenceInv
       /\ pc["main"] \in {"activate", "endExternal"} => EngineQuiet
       /\ Away => ~playing
       /\ Reloading => pc["main"] \in {"stopPlayer", "load", "setPlaying"}
       /\ Reloading \/ Reloaded \/ pc["main"] = "endExternal" => UpdaterIdles
       /\ Heard \/ Stopping \/ Away \/ Reloading \/ Reloaded

LEMMA AudioInit == Init => AudioInv
BY DEF Init, AudioInv, StartedInv, Promised, NoSession, Kept

\* Where a session of which the invariant speaks can be.
SessionAt ==
  \/ pc["main"] \in {"begin", "suspend", "releaseDevice", "released", "loadMovie",
                     "watch", "stopMovie", "activate", "endExternal", "restored",
                     "repause", "done"}
  \/ pc["main"] \in {"poll", "handle"} /\ ret["main"] = "suspend"
  \/ /\ pc["main"] \in {"unpause", "stopOnly"}
     /\ ret["main"] \in {"releaseDevice", "released"}
  \/ pc["main"] \in {"stopPlayer", "load", "setPlaying"} /\ ret["main"] = "restored"

LEMMA SessionPlaces ==
  ASSUME IInv, AudioInv, Promised
  PROVE  SessionAt
BY DEF IInv, AudioInv, MainCalls, Calls, Heard, Stopping, Away, Reloading,
   Reloaded, MoviePcs, SessionAt

\* While the promise stands, nothing has been lost, and it was there before.
LEMMA StillPromised ==
  ASSUME before' \in {before, Lost}, Promised'
  PROVE  before' = before /\ Promised /\ ~late
BY DEF Lost, late, Kept, Promised

LEMMA UpdaterComesBack ==
  ASSUME IInv, AudioInv, UpdaterStep
  PROVE  AudioInv'
<1>0. /\ pc \in [Threads -> Labels] /\ ret \in [Threads -> Labels \cup {"none"}]
      /\ "main" \in Threads /\ "updater" \in Threads
  BY DEF IInv, TypeOK, Threads
<1>1. /\ pc'["main"] = pc["main"] /\ ret'["main"] = ret["main"]
      /\ before' \in {before, Lost} /\ UNCHANGED wasStarted
  BY <1>0 DEF UpdaterStep, Poll, HandleEnd, Unpause, StopPlayer, LoadTrack,
     SetPlaying, NextTrack, AllSkipped, NoTrack, Restored, BeginPass,
     NothingToDo, Decide, PrintTrack, AddFile, Goto, Call, Return, kept
<1>2. StartedInv'
  BY <1>1 DEF AudioInv, StartedInv, InSession
<1>3. SUFFICES ASSUME Promised' PROVE AudioInv'
  BY <1>2 DEF AudioInv, Promised
<1>4. Promised /\ ~late
  BY <1>1, <1>3, StillPromised
<1>5. SessionAt
  BY <1>4, SessionPlaces
<1>6. /\ ~InSession
      /\ UpdaterIdles
  <2>1. pc["updater"] # "wait" \/ active
    BY DEF UpdaterStep, Poll, HandleEnd, Unpause, StopPlayer, LoadTrack,
       SetPlaying, NextTrack, AllSkipped, NoTrack, Restored, BeginPass,
       NothingToDo, Decide, PrintTrack
  <2>2. ~InSession
    BY <2>1, <1>4 DEF IInv, UpdaterStopped
  <2>3. Reloading \/ Reloaded \/ pc["main"] = "endExternal"
    BY <2>2, <1>5 DEF SessionAt, InSession, BeginPcs, MoviePcs, Reloading,
       Reloaded
  <2>4. QED
    BY <2>2, <2>3, <1>4 DEF AudioInv, Promised
<1>7. events = <<>> /\ (IsPlaying \/ ~playing)
  <2>1. pc["main"] \in {"endExternal", "restored", "repause", "done"} \/
        (/\ pc["main"] \in {"stopPlayer", "load", "setPlaying"}
         /\ ret["main"] = "restored")
    BY <1>5, <1>6 DEF SessionAt, InSession, BeginPcs, MoviePcs
  <2>2. CASE before.sound = "silent"
    BY <2>1, <2>2, <1>4 DEF AudioInv, SilenceInv, Promised, EngineQuiet,
       Reloading, Away
  <2>3. CASE before.sound # "silent"
    BY <2>1, <2>3, <1>4 DEF AudioInv, TrackInv, Promised, EngineQuiet,
       Reloading, Reloaded, Away, IsPlaying
  <2>4. QED
    BY <2>2, <2>3
<1>8. /\ UNCHANGED <<active, engine, audio, kept, before>>
      /\ UpdaterIdles'
  <2>1. Poll("updater") \/ BeginPass \/ NothingToDo \/ PrintTrack
    BY <1>6, <1>7 DEF Decide, UpdaterIdles, UpdaterStep, Poll, HandleEnd,
       Unpause, StopPlayer, LoadTrack, SetPlaying, NextTrack, AllSkipped,
       NoTrack, Restored
  <2>2. CASE Poll("updater")
    BY <1>0, <1>6, <1>7, <2>2 DEF Poll, Return, UpdaterIdles, engine
  <2>3. CASE BeginPass \/ NothingToDo \/ PrintTrack
    BY <1>0, <1>6, <1>7, <2>3 DEF BeginPass, NothingToDo, PrintTrack, Goto,
       Call, UpdaterIdles, engine, audio
  <2>4. QED
    BY <2>1, <2>2, <2>3
<1>9. QED
  BY <1>1, <1>4, <1>8 DEF AudioInv, StartedInv, InSession, TrackInv, SilenceInv,
     Heard, Stopping, Away, Reloading, Reloaded, EngineQuiet, Promised,
     engine, audio, kept

\* A step of the main thread or the engine leaves the updater where it is.
LEMMA IdlesOn ==
  ASSUME pc'["updater"] = pc["updater"], ret'["updater"] = ret["updater"],
         UpdaterIdles
  PROVE  UpdaterIdles'
BY DEF UpdaterIdles

\* The main thread in the operations of the player.
LEMMA MainPlayerComesBack ==
  ASSUME IInv, AudioInv, PlayerStep("main")
  PROVE  AudioInv'
<1>0. /\ pc \in [Threads -> Labels] /\ ret \in [Threads -> Labels \cup {"none"}]
      /\ "main" \in Threads /\ "updater" \in Threads
      /\ path \in Tracks \cup {None} /\ None \notin Tracks
  BY MediaAssumption DEF IInv, TypeOK, Threads
<1>11. /\ before' \in {before, Lost} /\ UNCHANGED wasStarted
       /\ pc'["updater"] = pc["updater"] /\ ret'["updater"] = ret["updater"]
  BY <1>0 DEF PlayerStep, Poll, HandleEnd, Unpause, StopPlayer, LoadTrack,
     SetPlaying, NextTrack, AllSkipped, NoTrack, Restored, AddFile, Goto, Call,
     Return, kept
<1>2. StartedInv'
  BY <1>0, <1>11 DEF AudioInv, StartedInv, AddFile, IInv, MainCalls, InSession,
     BeginPcs, MoviePcs, PlayerStep, Poll, HandleEnd, Unpause, StopPlayer,
     LoadTrack, SetPlaying, NextTrack, AllSkipped, NoTrack, Restored, Goto,
     Call, Return, Home, Calls
<1>3. SUFFICES ASSUME Promised' PROVE AudioInv'
  BY <1>2 DEF AudioInv, Promised
<1>4. Promised /\ ~late
  BY <1>11, <1>3, StillPromised
<1>1. /\ UNCHANGED <<before, wasStarted>>
      /\ pc'["updater"] = pc["updater"] /\ ret'["updater"] = ret["updater"]
  BY <1>11, <1>3, StillPromised
<1>5. SessionAt
  BY <1>4, SessionPlaces
<1> USE DEF Heard, Stopping, Away, Reloading, Reloaded, EngineQuiet
<1>6. CASE ret["main"] = "suspend"
  <2>1. pc["main"] \in {"poll", "handle"} /\ (Poll("main") \/ HandleEnd("main"))
    BY <1>5, <1>6 DEF SessionAt, PlayerStep, Poll, HandleEnd, Unpause,
       StopPlayer, LoadTrack, SetPlaying, NextTrack, AllSkipped, NoTrack,
       Restored, IInv, MainCalls, Calls
  <2>2. /\ \/ pc'["main"] = "suspend" /\ ret'["main"] = "none"
           \/ /\ pc'["main"] = "handle" /\ ret'["main"] = "suspend"
              /\ pc["main"] = "poll" /\ events # <<>>
        /\ pc'["main"] = "suspend" =>
             bRunning' = FALSE \/ (bRunning' = bRunning /\ events = <<>>
                                     /\ pc["main"] = "poll")
        /\ UNCHANGED <<medium, status, playing, paused, curNr, path, kept>>
        /\ events = <<>> => events' = <<>>
        /\ bRunning' = bRunning \/ (bRunning' = FALSE /\ pc["main"] = "handle")
    BY <1>0, <1>6, <2>1 DEF Poll, HandleEnd, Goto, Return, engine, audio
  <2>3. before.sound = "running" => pc["main"] # "handle" /\ events = <<>>
    BY <1>4, <1>6 DEF AudioInv, TrackInv, Promised
  <2>4. before.sound = "silent" => SilenceInv'
    BY <1>1, <1>4, <1>6, <2>1, <2>2 DEF AudioInv, SilenceInv, Promised, kept,
       MoviePcs
  <2>5. before.sound # "silent" => TrackInv'
    BY <1>1, <1>4, <1>6, <2>1, <2>2, <2>3
       DEF AudioInv, TrackInv, Promised, kept, MoviePcs
  <2>6. QED
    BY <1>1, <1>2, <1>3, <2>2, <2>4, <2>5 DEF AudioInv, Promised, MoviePcs
<1>7. CASE ret["main"] \in {"releaseDevice", "released"}
  <2>1. /\ pc["main"] \in {"unpause", "stopOnly"}
        /\ Unpause("main") \/ StopPlayer("main")
    BY <1>5, <1>7 DEF SessionAt, PlayerStep, Poll, HandleEnd, Unpause,
       StopPlayer, LoadTrack, SetPlaying, NextTrack, AllSkipped, NoTrack,
       Restored, IInv, MainCalls, Calls
  <2>2. /\ \/ pc'["main"] = ret["main"] /\ ret'["main"] = "none" /\ playing' = FALSE
           \/ pc'["main"] = "stopOnly" /\ ret'["main"] = ret["main"]
        /\ UNCHANGED <<medium, bRunning, curNr, path, kept>>
    BY <1>0, <1>7, <2>1 DEF Unpause, StopPlayer, Goto, Return, engine
  <2>4. before.sound = "silent" => SilenceInv'
    BY <1>1, <1>4, <1>7, <2>1, <2>2 DEF AudioInv, SilenceInv, Promised, kept,
       MoviePcs
  <2>5. before.sound # "silent" => TrackInv'
    BY <1>1, <1>4, <1>7, <2>1, <2>2 DEF AudioInv, TrackInv, Promised, kept,
       MoviePcs
  <2>6. QED
    <3>1. pc'["main"] \in {"releaseDevice", "released"} \/
          (/\ pc'["main"] = "stopOnly"
           /\ ret'["main"] \in {"releaseDevice", "released"})
      BY <1>7, <2>2
    <3>2. (Away => ~playing)'
      BY <1>7, <2>2, <3>1 DEF MoviePcs
    <3>3. QED
      BY <1>1, <1>2, <1>3, <1>7, <2>2, <2>4, <2>5, <3>1, <3>2
         DEF AudioInv, Promised, MoviePcs
<1>8. CASE ret["main"] = "restored" \/ pc["main"] = "restored"
  <2>1. before.sound # "silent" /\ TrackInv /\ UpdaterIdles
    BY <1>4, <1>8 DEF AudioInv, SilenceInv, Promised
  <2>2. UpdaterIdles'
    BY <1>1, <2>1, IdlesOn
  <2>3. TrackInv'
    <3>1. CASE StopPlayer("main")
      <4>1. pc["main"] = "stopPlayer" /\ ret["main"] = "restored"
        BY <1>4, <1>8, <3>1 DEF StopPlayer, AudioInv, Promised
      <4>2. path # None
        BY <1>0, <2>1, <4>1 DEF TrackInv
      <4>3. /\ pc'["main"] = "load" /\ ret' = ret
            /\ status' = "stopped" /\ events' = <<>> /\ playing' = FALSE
            /\ UNCHANGED <<path, kept>>
        BY <1>0, <3>1, <4>1, <4>2 DEF StopPlayer, Goto
      <4>4. QED
        BY <1>1, <2>1, <4>1, <4>3 DEF TrackInv, kept, MoviePcs
    <3>2. CASE LoadTrack("main")
      <4>1. before' # Lost
        BY <1>1, <1>3, <1>4 DEF Promised, Lost, NoSession, Kept
      <4>2. QED
        BY <1>0, <1>1, <1>8, <2>1, <3>2, <4>1 DEF LoadTrack, TrackInv, Goto,
           kept, MoviePcs
    <3>3. CASE SetPlaying("main")
      BY <1>0, <1>1, <1>8, <2>1, <3>3 DEF SetPlaying, TrackInv, Return, kept,
         engine, MoviePcs, IInv, MainCalls, Calls
    <3>4. CASE Restored("main")
      BY <1>0, <1>1, <1>4, <2>1, <3>4 DEF Restored, TrackInv, Goto, engine,
         Promised, MoviePcs, IInv, MainCalls, Calls, TypeOK
    <3>5. QED
      BY <1>5, <1>8, <3>1, <3>2, <3>3, <3>4 DEF SessionAt, PlayerStep, Poll,
         HandleEnd, Unpause, NextTrack, AllSkipped, NoTrack, IInv, MainCalls,
         Calls
  <2>4. \/ ret'["main"] = "restored" /\ pc'["main"] \in {"load", "setPlaying"}
        \/ ret'["main"] = "none" /\ pc'["main"] \in {"restored", "repause", "done"}
    BY <1>0, <1>5, <1>8, <2>1 DEF TrackInv, SessionAt, PlayerStep, Poll,
       HandleEnd, Unpause, StopPlayer, LoadTrack, SetPlaying, NextTrack,
       AllSkipped, NoTrack, Restored, Goto, Call, Return, IInv, MainCalls, Calls
  <2>5. QED
    BY <1>1, <1>2, <2>1, <2>2, <2>3, <2>4 DEF AudioInv, MoviePcs
<1>9. QED
  BY <1>5, <1>6, <1>7, <1>8 DEF SessionAt, PlayerStep, Poll, HandleEnd, Unpause,
     StopPlayer, LoadTrack, SetPlaying, NextTrack, AllSkipped, NoTrack, Restored

\* The main thread in the menus, and at the beginning and the end of a session.
LEMMA MenuComesBack ==
  ASSUME IInv, AudioInv,
         UserPlays \/ PlayTrack \/ SetStreaming \/ UserPlaysOn \/ UserStops
           \/ UserNext \/ Pause \/ StartMovie \/ EndExternal \/ BackInMenu
  PROVE  AudioInv'
<1>0. /\ pc \in [Threads -> Labels] /\ ret \in [Threads -> Labels \cup {"none"}]
      /\ "main" \in Threads /\ "updater" \in Threads
      /\ curNr \in Tracks \cup {None} /\ paused \in BOOLEAN
      /\ ret["main"] = "none"
      /\ pc["main"] \in {"ui", "playTrack", "isWeb", "isFile", "repause", "done",
                         "endExternal"}
      /\ None \notin Tracks
  BY MediaAssumption DEF IInv, TypeOK, Threads, MainCalls, Calls, UserPlays,
     PlayTrack, SetStreaming, UserPlaysOn, UserStops, UserNext, Pause,
     StartMovie, EndExternal, BackInMenu
<1>1. StartedInv'
  BY <1>0 DEF AudioInv, StartedInv, InSession, BeginPcs, MoviePcs, UserPlays,
     PlayTrack, SetStreaming, UserPlaysOn, UserStops, UserNext, Pause,
     StartMovie, EndExternal, BackInMenu, AddFile, Goto, Call, kept, IInv,
     TypeOK
<1>2. SUFFICES ASSUME Promised' PROVE AudioInv'
  BY <1>1 DEF AudioInv, Promised
<1> USE DEF Heard, Stopping, Away, Reloading, Reloaded, EngineQuiet, MoviePcs
<1>3. CASE pc["main"] \in {"ui", "playTrack", "isWeb", "isFile"} /\ ~StartMovie
  <2>1. before' \in {before, Lost}
    BY <1>3 DEF UserPlays, PlayTrack, SetStreaming, UserPlaysOn, UserStops,
       UserNext, Pause, EndExternal, BackInMenu, AddFile
  <2>2. ~Promised
    BY <1>0, <1>3 DEF AudioInv, Promised
  <2>3. QED
    BY <1>2, <2>1, <2>2, StillPromised
<1>4. CASE StartMovie
  <2>1. /\ pc'["main"] = "begin" /\ ret'["main"] = "none"
        /\ UNCHANGED <<engine, audio, kept>>
        /\ before' = TakenToBeOn
    BY <1>0, <1>4 DEF StartMovie, Goto
  <2>2. before'.sound = "silent" => ~paused /\ (~bRunning \/ events # <<>>)
    BY <1>2, <2>1 DEF TakenToBeOn, Kept, Promised
  <2>3. before'.sound # "silent" =>
          /\ before'.track = curNr /\ curNr \in Tracks
          /\ paused = (before'.sound = "paused")
          /\ ~paused => bRunning /\ events = <<>>
    BY <1>0, <1>2, <2>1 DEF TakenToBeOn, Kept, Promised
  <2>4. before'.sound = "silent" => SilenceInv'
    BY <2>1, <2>2 DEF SilenceInv, audio, engine
  <2>5. before'.sound # "silent" => TrackInv'
    BY <1>0, <2>1, <2>3 DEF TrackInv, audio, engine
  <2>6. QED
    BY <1>1, <2>1, <2>4, <2>5 DEF AudioInv
<1>5. CASE BackInMenu
  BY <1>2, <1>5 DEF BackInMenu, NoSession, Kept, Promised
<1>6. CASE pc["main"] = "repause" /\ Pause
  <2>1. /\ pc'["main"] = "done" /\ UNCHANGED <<before, ret, kept>>
        /\ pc'["updater"] = pc["updater"]
    BY <1>0, <1>6 DEF Pause, Goto
  <2>2. Promised
    BY <1>2, <2>1 DEF Promised
  <2>3. TrackInv /\ UpdaterIdles /\ before.sound # "silent"
    BY <1>6, <2>2 DEF AudioInv, SilenceInv, Promised
  <2>4. /\ paused' /\ status' = "paused"
        /\ UNCHANGED <<medium, events, bRunning, playing, curNr, path>>
    BY <1>6, <2>3 DEF Pause, TrackInv
  <2>5. before.sound = "paused"
    BY <1>6, <2>3 DEF TrackInv
  <2>6. TrackInv'
    BY <1>0, <1>6, <2>1, <2>3, <2>4, <2>5 DEF TrackInv, kept
  <2>7. QED
    BY <1>0, <1>1, <2>1, <2>3, <2>5, <2>6, IdlesOn DEF AudioInv
<1>7. CASE EndExternal
  <2>1. /\ pc["main"] = "endExternal" /\ pc'["updater"] = pc["updater"]
        /\ UNCHANGED <<engine, bRunning, playing, paused, curNr, track, wasPaused,
                       suspended, wasPlaying>>
        /\ ret'["updater"] = ret["updater"]
        /\ before' \in {before, Lost}
    BY <1>0, <1>7 DEF EndExternal, AddFile, Goto, Call
  <2>2. Promised /\ before' = before
    BY <1>2, <2>1, StillPromised
  <2>3. UpdaterIdles' /\ EngineQuiet /\ ~playing
    BY <2>1, <2>2, IdlesOn DEF AudioInv, Promised
  <2>4. CASE before.sound = "silent"
    <3>1. SilenceInv
      BY <2>2, <2>4 DEF AudioInv, Promised
    <3>2. pc'["main"] = "done" /\ ret' = ret
      BY <1>0, <1>7, <2>1, <3>1 DEF EndExternal, Goto, SilenceInv
    <3>3. SilenceInv'
      BY <1>0, <2>1, <2>2, <2>3, <3>1, <3>2 DEF SilenceInv, engine
    <3>4. QED
      BY <1>0, <1>1, <2>1, <2>2, <2>3, <2>4, <3>2, <3>3 DEF AudioInv, engine
  <2>5. CASE before.sound # "silent"
    <3>1. TrackInv
      BY <2>2, <2>5 DEF AudioInv, Promised
    <3>2. pc'["main"] = "stopPlayer" /\ ret'["main"] = "restored" /\ path' = track
      <4>1. before' # Lost
        BY <2>2 DEF Promised, Lost, NoSession, late, Kept
      <4>2. QED
        BY <1>0, <1>7, <2>1, <3>1, <4>1 DEF EndExternal, AddFile, Call, TrackInv
    <3>3. TrackInv'
      BY <1>0, <2>1, <2>2, <2>3, <3>1, <3>2 DEF TrackInv, engine
    <3>4. QED
      BY <1>0, <1>1, <2>1, <2>2, <2>3, <2>5, <3>2, <3>3 DEF AudioInv, engine
  <2>6. QED
    BY <2>4, <2>5
<1>8. QED
  BY <1>0, <1>3, <1>4, <1>5, <1>6, <1>7 DEF Pause, UserPlays, PlayTrack,
     SetStreaming, UserPlaysOn, UserStops, UserNext

\* The main thread from begin_external to the end of the movie.
LEMMA SessionComesBack ==
  ASSUME IInv, AudioInv,
         BeginExternal \/ Suspend \/ ReleaseDevice \/ Released \/ LoadMovie
           \/ MovieEnds \/ MovieKey \/ StopMovie \/ Activate
  PROVE  AudioInv'
<1>0. /\ pc \in [Threads -> Labels] /\ ret \in [Threads -> Labels \cup {"none"}]
      /\ "main" \in Threads /\ "updater" \in Threads
      /\ ret["main"] = "none" /\ InSession
  BY DEF IInv, TypeOK, Threads, MainCalls, Calls, BeginExternal, Suspend,
     ReleaseDevice, Released, LoadMovie, MovieEnds, MovieKey, StopMovie,
     Activate, InSession, BeginPcs, MoviePcs
<1>1. /\ pc'["updater"] = pc["updater"] /\ ret'["updater"] = ret["updater"]
      /\ UNCHANGED before
  BY <1>0 DEF BeginExternal, Suspend, ReleaseDevice, Released, LoadMovie,
     MovieEnds, MovieKey, StopMovie, Activate, Goto, Call
<1>2. loaded \/ pc["main"] # "begin"
  BY DEF IInv, DeviceReleased, MoviePcs
<1>3. StartedInv'
  BY <1>0, <1>2 DEF AudioInv, StartedInv, InSession, BeginPcs, MoviePcs,
     BeginExternal, Suspend, ReleaseDevice, Released, LoadMovie, MovieEnds,
     MovieKey, StopMovie, Activate, Goto, Call, kept
<1>4. SUFFICES ASSUME Promised' PROVE AudioInv'
  BY <1>3 DEF AudioInv, Promised
<1>5. Promised /\ ~late /\ pc["updater"] = "wait"
  BY <1>0, <1>1, <1>4, StillPromised DEF Promised, IInv, UpdaterStopped
<1>6. UpdaterIdles'
  BY <1>1, <1>5 DEF UpdaterIdles
<1> USE DEF Heard, Stopping, Away, Reloading, Reloaded, EngineQuiet, MoviePcs
<1>7. pc'["main"] = "activate" \/ pc'["main"] = "endExternal" => EngineQuiet'
  BY <1>0, <1>5 DEF IInv, EngineFree, AudioInv, Promised, BeginExternal,
     Suspend, ReleaseDevice, Released, LoadMovie, MovieEnds, MovieKey,
     StopMovie, Activate, Goto, Call, engine
<1>8. /\ (Heard \/ Stopping \/ Away)'
      /\ ~Reloading' /\ pc'["main"] \notin {"restored", "repause", "done"}
  BY <1>0, <1>2 DEF BeginExternal, Suspend, ReleaseDevice, Released, LoadMovie,
     MovieEnds, MovieKey, StopMovie, Activate, Goto, Call
<1>9. before.sound = "silent" => SilenceInv'
  <2> SUFFICES ASSUME before.sound = "silent" PROVE SilenceInv'
    OBVIOUS
  <2>1. SilenceInv
    BY <1>5 DEF AudioInv, Promised
  <2>2. pc["main"] = "begin" => ~wasStarted
    BY DEF AudioInv, StartedInv
  <2>3. CASE BeginExternal
    <3>1. ~wasPlaying'
      BY <2>2, <2>3, Zenon DEF BeginExternal
    <3>2. pc["main"] = "begin" /\ UNCHANGED <<engine, audio>>
      BY <2>3 DEF BeginExternal
    <3>3. pc'["main"] = "poll" /\ ret'["main"] = "suspend"
      BY <1>0, <1>2, <2>3, <3>2 DEF BeginExternal, Call
    <3>4. QED
      BY <2>1, <3>1, <3>2, <3>3 DEF SilenceInv, audio, engine
  <2>4. CASE Suspend
    BY <1>0, <2>1, <2>4 DEF Suspend, SilenceInv, Goto, Call, IsPlaying, audio
  <2>5. CASE ReleaseDevice
    BY <1>0, <2>1, <2>5 DEF ReleaseDevice, SilenceInv, Call, audio, kept
  <2>6. CASE Released \/ LoadMovie \/ MovieEnds \/ MovieKey \/ StopMovie \/ Activate
    BY <1>0, <2>1, <2>6 DEF Released, LoadMovie, MovieEnds, MovieKey, StopMovie,
       Activate, SilenceInv, Goto, audio, kept
  <2>7. QED
    BY <2>3, <2>4, <2>5, <2>6
<1>10. before.sound # "silent" => TrackInv'
  <2> SUFFICES ASSUME before.sound # "silent" PROVE TrackInv'
    OBVIOUS
  <2>1. TrackInv
    BY <1>5 DEF AudioInv, Promised
  <2>3. CASE BeginExternal
    BY <1>0, <1>1, <1>2, <2>1, <2>3 DEF BeginExternal, TrackInv, Call, audio,
       engine
  <2>4. CASE Suspend
    <3>1. pc["main"] = "suspend" /\ IsPlaying /\ UNCHANGED <<engine, audio>>
      BY <1>5, <2>1, <2>4 DEF Suspend, TrackInv, IsPlaying, Promised
    <3>2. /\ wasPlaying' /\ wasPaused' = paused /\ suspended' /\ track' = curNr
          /\ UNCHANGED wasStarted
          /\ pc'["main"] = "unpause" /\ ret'["main"] = "releaseDevice"
      BY <1>0, <2>4, <3>1 DEF Suspend, Call
    <3>3. QED
      BY <1>1, <2>1, <3>1, <3>2 DEF TrackInv
  <2>5. CASE ReleaseDevice
    BY <1>0, <1>1, <2>1, <2>5 DEF ReleaseDevice, TrackInv, Call, audio, kept
  <2>6. CASE Released \/ LoadMovie \/ MovieEnds \/ MovieKey \/ StopMovie \/ Activate
    BY <1>0, <1>1, <2>1, <2>6 DEF Released, LoadMovie, MovieEnds, MovieKey,
       StopMovie, Activate, TrackInv, Goto, audio, kept
  <2>7. QED
    BY <2>3, <2>4, <2>5, <2>6
<1>11. (Away => ~playing)'
  <2>1. (pc["main"] = "released" \/ pc["main"] \in MoviePcs) => ~playing
    BY <1>5 DEF AudioInv, Promised
  <2>2. pc'["main"] \in MoviePcs \cup {"released", "activate", "endExternal"} =>
          /\ pc["main"] \in MoviePcs \cup {"released", "activate"}
          /\ UNCHANGED playing
    BY <1>0, <1>2 DEF BeginExternal, Suspend, ReleaseDevice, Released,
       LoadMovie, MovieEnds, MovieKey, StopMovie, Activate, Goto, Call, audio
  <2>3. QED
    BY <1>5, <2>1, <2>2 DEF AudioInv, Promised
<1>12. QED
  BY <1>1, <1>3, <1>5, <1>6, <1>7, <1>8, <1>9, <1>10, <1>11 DEF AudioInv,
     Promised

\* The end of a medium: of a track, it is excused; the movie's is the movie's.
LEMMA MediumComesBack ==
  ASSUME IInv, AudioInv, MediumEnds
  PROVE  AudioInv'
<1>1. /\ UNCHANGED <<pc, ret, medium, bRunning, playing, paused, curNr, path, kept>>
      /\ status = "running"
      /\ before' = IF pc["main"] \in MoviePcs THEN before ELSE Lost
  BY DEF MediumEnds, control, audio
<1>2. StartedInv'
  BY <1>1 DEF AudioInv, StartedInv, InSession, kept
<1>3. SUFFICES ASSUME Promised' PROVE AudioInv'
  BY <1>2 DEF AudioInv, Promised
<1>4. before' = before /\ Promised /\ ~late
  BY <1>1, <1>3, StillPromised
<1>5. pc["main"] \in MoviePcs
  BY <1>1, <1>4 DEF Promised, Lost, NoSession, late, Kept
<1> USE DEF Heard, Stopping, Away, Reloading, Reloaded, EngineQuiet
<1> USE DEF MoviePcs
<1>6. SessionAt
  BY <1>4, SessionPlaces
<1>7. ~Heard /\ ~Stopping /\ ~Reloading /\ ~Reloaded
  BY <1>5, <1>6 DEF SessionAt, IInv, MainCalls, Calls
<1>8. before.sound = "silent" => SilenceInv'
  BY <1>1, <1>4, <1>5, <1>7 DEF AudioInv, SilenceInv, kept
<1>9. before.sound # "silent" => TrackInv'
  BY <1>1, <1>4, <1>5, <1>7 DEF AudioInv, TrackInv, kept
<1>10. QED
  BY <1>1, <1>2, <1>4, <1>5, <1>7, <1>8, <1>9 DEF AudioInv, Promised,
     UpdaterIdles

\* A track that was on for the player when a movie began between two passes of
\* the updater plays or is paused again after it, and what was silent is silent,
\* unless a track has ended, failed or lost its disc meanwhile; for any play list.
THEOREM AudioReturns == Spec => []AudioComesBack
<1>1. IInv /\ AudioInv /\ [Next]_vars => AudioInv'
  <2> SUFFICES ASSUME IInv, AudioInv, [Next]_vars PROVE AudioInv'
    OBVIOUS
  <2>1. CASE UNCHANGED vars
    BY <2>1 DEF AudioInv, StartedInv, InSession, TrackInv, SilenceInv,
       UpdaterIdles, Heard, Stopping, Away, Reloading, Reloaded, EngineQuiet,
       vars, control, Promised, engine, audio, modes, kept
  <2>2. CASE Next
    <3>1. \/ UpdaterStep \/ PlayerStep("main")
          \/ UserPlays \/ PlayTrack \/ SetStreaming \/ UserPlaysOn \/ UserStops
          \/ UserNext \/ Pause \/ StartMovie \/ EndExternal \/ BackInMenu
          \/ BeginExternal \/ Suspend \/ ReleaseDevice \/ Released \/ LoadMovie
          \/ MovieEnds \/ MovieKey \/ StopMovie \/ Activate
          \/ MediumEnds
      BY <2>2 DEF Next, MainStep, User, PlayerStep
    <3>2. QED
      BY <3>1, UpdaterComesBack, MainPlayerComesBack, MenuComesBack,
         SessionComesBack, MediumComesBack
  <2>3. QED
    BY <2>1, <2>2
<1>2. AudioInv => AudioComesBack
  BY DEF AudioInv, Promised, TrackInv, SilenceInv, AudioComesBack, EngineQuiet,
     Reloaded
<1>3. QED
  BY <1>1, <1>2, AudioInit, Inductive, PTL DEF Spec
=============================================================================
