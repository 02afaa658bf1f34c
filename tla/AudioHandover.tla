--------------------------- MODULE AudioHandover ---------------------------
(***************************************************************************)
(* One playback engine (VideoPlayback of libketlaer) with two users in MMS:*)
(* the audio player RtdAud, which the ScreenUpdater's thread polls for the *)
(* end of a track and moves on, and a movie, for which the main thread     *)
(* stops the updaters, suspends the audio (begin_external), runs do_play   *)
(* and brings the audio back (end_external).                               *)
(*                                                                         *)
(* There is no lock between the two threads: the steps below are those at  *)
(* which one of them reads or writes what the other writes.  Positions in  *)
(* a track, volume, the queue of chosen tracks and the shuffle modes are   *)
(* left out: next_helper may return any track of the play list.  Any track *)
(* may be on a disc that is not in the drive when check_media looks, and   *)
(* any track may be a stream from the web.                                 *)
(***************************************************************************)
EXTENDS Sequences, Naturals

CONSTANTS
  Tracks,   \* the tracks of the play list
  Movie,    \* the medium of the movie player
  None      \* no track, no medium

ASSUME MediaAssumption == Movie \notin Tracks /\ None \notin Tracks /\ Movie # None

Threads == {"main", "updater"}
Media   == Tracks \cup {Movie, None}

VARIABLES
  pc, ret,     \* of each thread: its next step, and where its call returns
  active,      \* Updater::running
  medium, status, \* the engine: what LoadMedia loaded, what it does with it
  events,      \* the engine's event queue: the media whose end it reports
  bRunning,    \* g_bRunning
  playing, paused, curNr, path, loaded, \* Audio_s and AudioPlayer
  streaming,   \* AudioPlayer::is_streaming
  suspended, track,                     \* Audio_s: the suspended playback
  wasStarted, wasPlaying, wasPaused,    \* Audio: kept over an external program
  before       \* history: what the player took to be on when the session began

control == <<pc, ret>>
engine  == <<medium, status, events>>
modes   == <<loaded, streaming>>
audio   == <<bRunning, playing, paused, curNr, path, modes>>
kept    == <<suspended, track, wasStarted, wasPlaying, wasPaused>>
vars    == <<control, active, engine, audio, kept, before>>

Calls == {"poll", "handle", "unpause", "stopOnly", "stopPlayer", "load",
          "setPlaying"}
BeginPcs == {"begin", "suspend", "releaseDevice", "released"}
MoviePcs == {"loadMovie", "watch", "stopMovie"}
EndPcs   == {"activate", "endExternal", "repause", "done"}
Labels == Calls \cup BeginPcs \cup MoviePcs \cup EndPcs \cup
          {"ui", "playTrack", "isWeb", "isFile", "nextTrack", "skipped",
           "noTrack", "restored", "wait", "decide", "print"}

\* Of three sessions nothing more is kept: that there is none, that it began
\* inside a pass of the updater, that the audio has changed since it began.
Kept(sound) == [sound |-> sound, track |-> None]
NoSession   == Kept("none")
late        == before = Kept("late")
Lost        == IF before = NoSession \/ late THEN before ELSE Kept("lost")

Init ==
  /\ pc = [p \in Threads |-> IF p = "main" THEN "ui" ELSE "wait"]
  /\ ret = [p \in Threads |-> "none"]
  /\ active = TRUE
  /\ medium = None /\ status = "stopped" /\ events = <<>>
  /\ bRunning = FALSE /\ playing = FALSE /\ paused = FALSE
  /\ curNr = None /\ path = None /\ loaded = TRUE /\ streaming = FALSE
  /\ suspended = FALSE /\ track = None
  /\ wasStarted = FALSE /\ wasPlaying = FALSE /\ wasPaused = FALSE
  /\ before = NoSession

-----------------------------------------------------------------------------
(* Moving on, calling and returning *)

Goto(p, l) == pc' = [pc EXCEPT ![p] = l] /\ UNCHANGED ret

Call(p, l, back) ==
  /\ pc' = [pc EXCEPT ![p] = l]
  /\ ret' = [ret EXCEPT ![p] = back]

Return(p) ==
  /\ pc' = [pc EXCEPT ![p] = ret[p]]
  /\ ret' = [ret EXCEPT ![p] = "none"]

\* Where a thread goes on after next() and after restore_playback().
Home(p) == IF p = "main" THEN "ui" ELSE "print"

-----------------------------------------------------------------------------
(* The player's operations, called by both threads *)

IsPlaying == paused \/ bRunning

\* is_playing: any event is taken from the queue, an end of the medium is
\* noted after it.
Poll(p) ==
  /\ pc[p] = "poll"
  /\ IF events = <<>>
       THEN Return(p) /\ UNCHANGED events
       ELSE Goto(p, "handle") /\ events' = Tail(events)
  /\ UNCHANGED <<active, medium, status, audio, kept, before>>

\* (Variant: the end of a medium is not handled, only its failures are.)
IgnoreEnd(p) ==
  /\ pc[p] = "handle"
  /\ Return(p)
  /\ UNCHANGED <<active, engine, audio, kept, before>>

HandleEnd(p) ==
  /\ pc[p] = "handle"
  /\ Return(p)
  /\ bRunning' = FALSE
  /\ UNCHANGED <<active, engine, playing, paused, curNr, path, modes, kept,
                 before>>

\* AudioPlayer::stop clears the pause, then stops the player.
Unpause(p) ==
  /\ pc[p] = "unpause"
  /\ Goto(p, "stopOnly")
  /\ paused' = FALSE
  /\ UNCHANGED <<active, engine, bRunning, playing, curNr, path, modes, kept,
                 before>>

\* addfile: stop_player and the new track; or check_media misses the track's
\* disc, and stop() is all.
AddFile(p, t, back) ==
  /\ path' = t
  /\ \/ Call(p, "stopPlayer", back) /\ UNCHANGED before
     \/ /\ Call(p, "unpause", back)
        /\ t \in Tracks
        /\ before' = Lost

\* stop_player, from stop() or from addfile, which goes on if it has a path.
StopPlayer(p) ==
  /\ \/ pc[p] = "stopOnly" /\ Return(p)
     \/ /\ pc[p] = "stopPlayer"
        /\ IF path = None THEN Return(p) ELSE Goto(p, "load")
  /\ status' = "stopped"
  /\ events' = <<>>
  /\ playing' = FALSE
  /\ UNCHANGED <<active, medium, bRunning, paused, curNr, path, modes, kept,
                 before>>

\* do_playfile.  Its result is dropped by addfile.
LoadTrack(p) ==
  /\ pc[p] = "load"
  /\ Goto(p, "setPlaying")
  /\ \/ /\ medium' = path /\ status' = "running" /\ bRunning' = TRUE
        /\ UNCHANGED <<events, before>>
     \/ /\ medium' = None /\ before' = Lost
        /\ UNCHANGED <<status, events, bRunning>>
  /\ UNCHANGED <<active, playing, paused, curNr, path, modes, kept>>

SetPlaying(p) ==
  /\ pc[p] = "setPlaying"
  /\ Return(p)
  /\ playing' = TRUE /\ paused' = FALSE
  /\ UNCHANGED <<active, engine, bRunning, curNr, path, modes, kept, before>>

\* AudioPlayer::next: the next track whose disc is there, or none of those
\* that it tries is there, or check_repeat says that it is over.
NextTrack(p) ==
  /\ pc[p] = "nextTrack"
  /\ \/ /\ ~playing /\ Goto(p, Home(p))
        /\ UNCHANGED <<playing, curNr, path, before>>
     \/ /\ playing
        /\ \E t \in Tracks : curNr' = t /\ AddFile(p, t, Home(p))
        /\ UNCHANGED playing
     \/ /\ playing /\ Goto(p, "skipped")
        /\ curNr' \in Tracks
        /\ UNCHANGED <<playing, path, before>>
     \/ /\ playing /\ Call(p, "unpause", "noTrack")
        /\ playing' = FALSE
        /\ UNCHANGED <<curNr, path, before>>
  /\ UNCHANGED <<active, engine, bRunning, paused, modes, kept>>

AllSkipped(p) ==
  /\ pc[p] = "skipped"
  /\ Goto(p, Home(p))
  /\ UNCHANGED <<active, engine, audio, kept, before>>

NoTrack(p) ==
  /\ pc[p] = "noTrack"
  /\ Goto(p, Home(p))
  /\ curNr' = None /\ playing' = FALSE
  /\ UNCHANGED <<active, engine, bRunning, paused, path, modes, kept, before>>

\* The end of restore_playback.
Restored(p) ==
  /\ pc[p] = "restored"
  /\ Goto(p, IF p = "updater" THEN "print"
             ELSE IF wasPaused THEN "repause" ELSE "done")
  /\ curNr' = track /\ suspended' = FALSE
  /\ UNCHANGED <<active, engine, bRunning, playing, paused, path, modes,
                 track, wasStarted, wasPlaying, wasPaused, before>>

-----------------------------------------------------------------------------
(* The updater's thread: a pass over its callbacks *)

\* (Variant: nothing looks at Updater::running.)
BeginAlways ==
  /\ pc["updater"] = "wait"
  /\ IF streaming THEN Goto("updater", "print")
                  ELSE Call("updater", "poll", "decide")
  /\ UNCHANGED <<active, engine, audio, kept, before>>

\* Only the start of a pass looks at Updater::running.  next_audio_track does
\* nothing while the player streams.
BeginPass ==
  /\ pc["updater"] = "wait" /\ active
  /\ IF streaming THEN Goto("updater", "print")
                  ELSE Call("updater", "poll", "decide")
  /\ UNCHANGED <<active, engine, audio, kept, before>>

\* next_audio_track: nothing to do, or the time allowed for buffering since
\* the last track was started is not over.
NothingToDo ==
  /\ pc["updater"] = "decide"
  /\ Goto("updater", "print")
  /\ UNCHANGED <<active, engine, audio, kept, before>>

\* next_audio_track: a suspended playback comes back, the next track, or the
\* end of the list.
Decide ==
  /\ pc["updater"] = "decide"
  /\ ~IsPlaying /\ playing
  /\ \/ suspended /\ AddFile("updater", track, "restored")
     \/ /\ ~suspended
        /\ \/ Goto("updater", "nextTrack")
           \/ Call("updater", "unpause", "noTrack")
        /\ UNCHANGED <<path, before>>
  /\ UNCHANGED <<active, engine, bRunning, playing, paused, curNr, modes, kept>>

\* print_audiotrack polls the player too.
PrintTrack ==
  /\ pc["updater"] = "print"
  /\ IF playing THEN Call("updater", "poll", "wait") ELSE Goto("updater", "wait")
  /\ UNCHANGED <<active, engine, audio, kept, before>>

-----------------------------------------------------------------------------
(* The main thread in the menus *)

UserPlays ==
  /\ pc["main"] = "ui"
  /\ Call("main", "poll", "playTrack")
  /\ UNCHANGED <<active, engine, audio, kept, before>>

\* play_track notes after addfile whether the track is a stream.
PlayTrack ==
  /\ pc["main"] = "playTrack"
  /\ \E t \in Tracks, l \in {"isWeb", "isFile"} :
       curNr' = t /\ AddFile("main", t, l)
  /\ UNCHANGED <<active, engine, bRunning, playing, paused, modes, kept>>

SetStreaming ==
  /\ pc["main"] \in {"isWeb", "isFile"}
  /\ streaming' = (pc["main"] = "isWeb")
  /\ Goto("main", "ui")
  /\ UNCHANGED <<active, engine, bRunning, playing, paused, curNr, path, loaded,
                 kept, before>>

\* play(): the current track, or the one that next_helper chooses; whether it
\* is a stream is noted before.
UserPlaysOn ==
  /\ pc["main"] = "ui"
  /\ \E t \in Tracks : curNr' = t /\ AddFile("main", t, "ui")
  /\ streaming' \in BOOLEAN
  /\ UNCHANGED <<active, engine, bRunning, playing, paused, loaded, kept>>

UserStops ==
  /\ pc["main"] = "ui"
  /\ Call("main", "unpause", "ui")
  /\ UNCHANGED <<active, engine, audio, kept, before>>

UserNext ==
  /\ pc["main"] = "ui"
  /\ Goto("main", "nextTrack")
  /\ UNCHANGED <<active, engine, audio, kept, before>>

\* RtdAud::pause toggles.
Pause ==
  /\ pc["main"] \in {"ui", "repause"}
  /\ Goto("main", IF pc["main"] = "ui" THEN "ui" ELSE "done")
  /\ paused' = ~paused
  /\ status' = CASE paused /\ status # "ended" /\ medium # None -> "running"
                 [] ~paused /\ status = "running" -> "paused"
                 [] OTHER -> status
  /\ UNCHANGED <<active, medium, events, bRunning, playing, curNr, path, modes,
                 kept, before>>

-----------------------------------------------------------------------------
(* The main thread: a movie *)

\* What the audio player takes to be on: is_playing() after the events that are
\* there, and the pause.  Its flag bRunning outlives a stop, so music that the
\* viewer has stopped is on for the player.
TakenToBeOn ==
  CASE pc["updater"] # "wait" -> Kept("late")
    [] OTHER ->
       IF ~paused /\ (~bRunning \/ events # <<>>) THEN Kept("silent")
       ELSE IF curNr = None THEN Kept("lost")
       ELSE [sound |-> IF paused THEN "paused" ELSE "running", track |-> curNr]

\* (Variant: the updaters are not stopped.)
KeepUpdaters ==
  /\ pc["main"] = "ui"
  /\ Goto("main", "begin")
  /\ before' = TakenToBeOn
  /\ UNCHANGED <<active, engine, audio, kept>>

\* aquire_exclusive_access: the updaters' flag is cleared, nobody waits for
\* the end of their pass.
StartMovie ==
  /\ pc["main"] = "ui"
  /\ Goto("main", "begin")
  /\ active' = FALSE
  /\ before' = TakenToBeOn
  /\ UNCHANGED <<engine, audio, kept>>

BeginExternal ==
  /\ pc["main"] = "begin"
  /\ wasPlaying' = (wasPlaying /\ wasStarted)
  /\ IF loaded
       THEN wasStarted' = TRUE /\ Call("main", "poll", "suspend")
       ELSE Goto("main", "loadMovie") /\ UNCHANGED wasStarted
  /\ UNCHANGED <<active, engine, audio, suspended, track, wasPaused, before>>

\* (Variant: the pause is read when the playback has been suspended.)
SuspendFirst ==
  /\ pc["main"] = "suspend"
  /\ IF IsPlaying
       THEN /\ wasPlaying' = TRUE /\ wasPaused' = FALSE
            /\ suspended' = TRUE /\ track' = curNr
            /\ Call("main", "unpause", "releaseDevice")
       ELSE Goto("main", "releaseDevice")
            /\ UNCHANGED <<wasPlaying, wasPaused, suspended, track>>
  /\ UNCHANGED <<active, engine, audio, wasStarted, before>>

\* begin_external after its poll, with suspend_playback.
Suspend ==
  /\ pc["main"] = "suspend"
  /\ IF IsPlaying
       THEN /\ wasPlaying' = TRUE /\ wasPaused' = paused
            /\ suspended' = TRUE /\ track' = curNr
            /\ Call("main", "unpause", "releaseDevice")
       ELSE Goto("main", "releaseDevice")
            /\ UNCHANGED <<wasPlaying, wasPaused, suspended, track>>
  /\ UNCHANGED <<active, engine, audio, wasStarted, before>>

ReleaseDevice ==
  /\ pc["main"] = "releaseDevice"
  /\ Call("main", "unpause", "released")
  /\ UNCHANGED <<active, engine, audio, kept, before>>

Released ==
  /\ pc["main"] = "released"
  /\ Goto("main", "loadMovie")
  /\ loaded' = FALSE
  /\ UNCHANGED <<active, engine, bRunning, playing, paused, curNr, path,
                 streaming, kept, before>>

\* do_play: a medium that does not load is passed over.
LoadMovie ==
  /\ pc["main"] = "loadMovie"
  /\ \/ /\ Goto("main", "watch")
        /\ medium' = Movie /\ status' = "running"
     \/ /\ Goto("main", "activate")
        /\ medium' = None /\ UNCHANGED status
  /\ UNCHANGED <<active, events, audio, kept, before>>

\* An end of a medium, whatever medium it is.
MovieEnds ==
  /\ pc["main"] = "watch" /\ events # <<>>
  /\ Goto("main", "stopMovie")
  /\ events' = Tail(events)
  /\ UNCHANGED <<active, medium, status, audio, kept, before>>

MovieKey ==
  /\ pc["main"] = "watch"
  /\ Goto("main", "stopMovie")
  /\ UNCHANGED <<active, engine, audio, kept, before>>

\* The end of do_play; do_playlist may go on with another file.
StopMovie ==
  /\ pc["main"] = "stopMovie"
  /\ \E l \in {"loadMovie", "activate"} : Goto("main", l)
  /\ status' = "stopped" /\ events' = <<>>
  /\ UNCHANGED <<active, medium, audio, kept, before>>

Activate ==
  /\ pc["main"] = "activate"
  /\ Goto("main", "endExternal")
  /\ active' = TRUE
  /\ UNCHANGED <<engine, audio, kept, before>>

\* end_external up to the call in restore_playback.
EndExternal ==
  /\ pc["main"] = "endExternal"
  /\ loaded' = TRUE /\ wasStarted' = FALSE
  /\ IF ~(wasStarted /\ wasPlaying)
       THEN Goto("main", "done") /\ UNCHANGED <<path, before>>
       ELSE IF suspended
              THEN AddFile("main", track, "restored")
              ELSE /\ Goto("main", IF wasPaused THEN "repause" ELSE "done")
                   /\ UNCHANGED <<path, before>>
  /\ UNCHANGED <<active, engine, bRunning, playing, paused, curNr, streaming,
                 suspended, track, wasPlaying, wasPaused>>

BackInMenu ==
  /\ pc["main"] = "done"
  /\ Goto("main", "ui")
  /\ before' = NoSession
  /\ wasPlaying' = FALSE /\ wasPaused' = FALSE   \* not read before they are set
  /\ UNCHANGED <<active, engine, audio, suspended, track, wasStarted>>

-----------------------------------------------------------------------------
\* The engine reaches the end of what it plays, or fails in it.
MediumEnds ==
  /\ status = "running"
  /\ status' = "ended" /\ events' = Append(events, medium)
  /\ before' = IF pc["main"] \in MoviePcs THEN before ELSE Lost
  /\ UNCHANGED <<control, active, medium, audio, kept>>

UpdaterStep ==
  \/ Poll("updater") \/ HandleEnd("updater") \/ Unpause("updater")
  \/ StopPlayer("updater") \/ LoadTrack("updater") \/ SetPlaying("updater")
  \/ NextTrack("updater") \/ AllSkipped("updater") \/ NoTrack("updater")
  \/ Restored("updater") \/ BeginPass \/ NothingToDo \/ Decide \/ PrintTrack

MainStep ==
  \/ Poll("main") \/ HandleEnd("main") \/ Unpause("main")
  \/ StopPlayer("main") \/ LoadTrack("main") \/ SetPlaying("main")
  \/ NextTrack("main") \/ AllSkipped("main") \/ NoTrack("main")
  \/ Restored("main")
  \/ PlayTrack \/ SetStreaming
  \/ BeginExternal \/ Suspend \/ ReleaseDevice \/ Released
  \/ LoadMovie \/ MovieEnds \/ StopMovie \/ Activate \/ EndExternal
  \/ BackInMenu \/ (pc["main"] = "repause" /\ Pause)

User ==
  \/ UserPlays \/ UserPlaysOn \/ UserStops \/ UserNext \/ Pause
  \/ StartMovie \/ MovieKey

Next == MainStep \/ UpdaterStep \/ User \/ MediumEnds

Spec == Init /\ [][Next]_vars

\* Both threads run, and the time allowed for buffering passes: 2 or 15 seconds
\* after a track was started next_audio_track no longer waits for it.
FairSpec == Spec /\ WF_vars(MainStep) /\ WF_vars(UpdaterStep) /\ SF_vars(Decide)

-----------------------------------------------------------------------------
(* Properties *)

\* Every variable has its type.
TypeOK ==
  /\ pc \in [Threads -> Labels] /\ ret \in [Threads -> Labels \cup {"none"}]
  /\ active \in BOOLEAN
  /\ medium \in Media
  /\ status \in {"stopped", "running", "paused", "ended"}
  /\ events \in Seq(Media)
  /\ bRunning \in BOOLEAN /\ playing \in BOOLEAN /\ paused \in BOOLEAN
  /\ curNr \in Tracks \cup {None} /\ path \in Tracks \cup {None}
  /\ loaded \in BOOLEAN /\ streaming \in BOOLEAN
  /\ suspended \in BOOLEAN /\ track \in Tracks \cup {None}
  /\ wasStarted \in BOOLEAN /\ wasPlaying \in BOOLEAN /\ wasPaused \in BOOLEAN
  /\ before \in [sound : {"running", "paused", "silent", "lost", "late", "none"},
                 track : Tracks \cup {None}]

\* While do_play watches the engine, the engine has the movie and the queue
\* holds nothing but the movie's end, unless the session began inside a pass
\* of the updater: deactivate stops the passes that follow, and begin_external
\* stops the track and empties the queue before the movie is loaded.
MovieKeepsPlayer ==
  (pc["main"] = "watch" /\ ~late) =>
    /\ medium = Movie
    /\ status \in {"running", "ended"}
    /\ events = (IF status = "ended" THEN <<Movie>> ELSE <<>>)

\* After a movie the audio is what the player took it to be before: a track
\* that was on plays again, a paused one is loaded and paused, and what was
\* silent is silent.  The flags go through two calls of stop, a restart and a
\* toggled pause while the updater already runs again.  Music that the viewer
\* had stopped is on for the player, so it starts again: that is what the code
\* does, and a defect of it.  Nothing is said of a session that began inside a
\* pass of the updater (late), or in which a track ended, failed to load or was
\* on a disc that is gone (lost), or that began with a pause of nothing.
AudioComesBack ==
  pc["main"] = "done" =>
    /\ before.sound \in {"running", "paused"} =>
         /\ medium = before.track /\ curNr = before.track
         /\ status = before.sound
         /\ playing /\ paused = (before.sound = "paused")
    /\ before.sound = "silent" => ~playing /\ status = "stopped"

\* The end of a movie brings the menus back (or the next file of the list),
\* under the same condition: nobody takes the movie's event from do_play.
MovieEndReturns ==
  (pc["main"] = "watch" /\ status = "ended" /\ ~late) ~> (pc["main"] # "watch")

\* The end of a track does not go unnoticed: the updater moves on or gives the
\* list up, or somebody pauses, stops or chooses something else.  Two cases are
\* left out, because the code does nothing in them: the player streams (its flag
\* stays set when the list goes on from a stream to a file), or no track that
\* next() has tried is on a disc that is there.
PlaylistGoesOn ==
  (status = "ended" /\ medium \in Tracks /\ playing /\ ~paused) ~>
    \/ status # "ended" \/ ~playing \/ paused \/ ~active
    \/ streaming \/ \E p \in Threads : pc[p] = "skipped"
=============================================================================
