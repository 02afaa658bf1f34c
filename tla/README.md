# TLA+ models of the ketlaer set-top-box software

This directory specifies, model-checks and proves the concurrent and stateful
core of *ketlaer*: the software that turns a Realtek-based media player (Asus
O!Play, Emtec, ...) into a box running MMS, a VDR client and a Qt media player.
`src/` below means the root of that repository.

* `*.tla`  – component modules, `MC*.tla` instances, `*Proofs.tla` proofs
* `*.cfg`  – one TLC configuration per run
* `PROJECT.json` – components, runs, the mutants that show each property can
  fail, the map from definitions to source lines, hazards, findings, theorems

Check a model with `tlc -config KetlaerLib.cfg MCKetlaerLib`, a proof with
`tlapm KetlaerLibProofs.tla`.

## 1. Inventory

### The components and how they interact

```
   remote ──▶ /dev/venus_irrp ──▶ RtdInp thread ──▶ InputMaster ──▶ MMS main thread
                     ▲                  ▲  suspend/wake_up  │
                     │                  └───────────────────┤ aquire_exclusive_access
                     └── ir_getkey ── VDR front end / RtdMov ◀┘ (same thread as MMS main)
                                          │  control socket ⇅ VDR server
                                          │  playback engine (events)
   libketlaer (reference counted) ◀───────┴── RTDdev, RtdInp, RtdMov, RtdAud, Qt driver
        ├─ MAIN_thread   ◀── control_pipe ── HDMI_thread (binary object)
        └─ platform, VoutUtil, screen surface, VideoPlayback, IR device

   ScreenUpdater thread ─ poll ─▶ RtdAud ─┐
                                          ├─▶ one VideoPlayback (engine, event queue)
   MMS main thread ── begin/end_external ─┴── RtdMov.do_play

   rootapp2 ─ fork/exec ─▶ dvdplayer | other program (MMS ...);  exit codes come back
   ketlaer-mp: GUI thread, StatusMonitor thread ─ one request per connection ─▶ Qt server ─▶ engine
```

| component | source | state it keeps | operations | hard behaviour | what makes it correct |
|---|---|---|---|---|---|
| **libketlaer life cycle** | `libketlaer/libketlaer.cpp`, `hdmihelper.cpp` | `initcount`, the globals (`g_vo`, `g_hScreen`, `g_hDisplay`, `g_pb`, `g_irfd`, `g_pIrMap`, `rect`), the control pipe, two threads | `init_libketlaer`, `uninit_libketlaer`, `MAIN_thread`, `LoadTvConfig` | plugins pair calls independently; `MAIN_thread` works on the globals during the teardown; `HDMI_thread` is never joined | nobody loses the platform while holding it; no use of a dead object; every call returns |
| **VDR front end** | `vdr-ketlaerfe/libfe.cpp` | connection, client id, OSD surface, player, zoom, the statics that survive a session | `init`, `process_control`, `handle_control_osdcmd`, `mainloop`, `process_keyboard`, `deinit` | binary data behind text lines; commands before the set-up is complete; a connection that ends anywhere; one thread for everything | framing is kept; the screen follows the server; the session ends when told; nothing is left behind |
| **OSD picture path** | `libfe.cpp` 295–445 | surface pixels, dirty rectangle | `uncompress_osd_net`, `hud_fill_img_memory`, the `OSD_Set_RLE` case | variable-length runs, runs over row ends, clamping and truncating scales | exact decoding, each pixel once at its place, the dirty area is shown, nothing outside the screen |
| **MMS remote input** | `mms-1.1.1/plugins/input/input.cpp`, `input/rtd/rtdinp.cpp`, `feature/common-feature.cpp` | `suspended`, two events, the one-element queue and its event | `RtdInp::run`, `suspend`, `wake_up`, `add_input`, `get_input` | flags and events without a common lock, two readers of one device | one reader at a time, no lost command, no blocking read, no lost wake-up |
| **MMS output** | `plugins/output/rtd/rtdout.cpp`, `output/render_device.cpp`, `output/renderer.cpp` | two events, `drawing`, `new_to_draw`, `image_mut`, the list of rectangles, imlib's context | `run`, `rtd_draw`, `wait_for_output_done`, `output_is_ready`, `wait_for_not_drawing`, `draw`, `complete_redraw` | drawing thread against main thread, screen updater and background updater | the picture is left alone while it is converted; no changed rectangle is forgotten; nobody waits for ever |
| **MMS movie player** | `players/rtd/rtdmov.cpp`, `feature/movie/movie.cpp`, `common.cpp` | play list, index, the engine while a movie runs | `escape_string`, `split_list`, `do_playlist`, `do_play` | names with separators, keys at the ends of the list, an engine that the audio also uses | the list has the movie's files and is walked in order; a movie keeps the engine |
| **MMS audio player** | `players/rtd/rtdaud.cpp`, `audio_player.cpp`, `audio_s.cpp`, `audio.cpp`, `updater.cpp` | `g_bRunning`, `is_playing`, `is_paused`, the suspended track, `started`/`playing`/`paused` of `Audio` | play, pause, stop, next, poll, `begin_external`, `end_external` | two threads without a lock, flags kept in three classes | after a movie the audio is as before; the end of a track is noticed |
| **Qt playback server, ketlaer-mp** | `qscreenrtd_qws.cpp`, `ketlaer-mp/playback.py` | one connection, the medium index, `playing` | a request per connection; an event monitor and a GUI thread in the client | index changed by two threads, requests that cross | the window says what plays, every medium is played to its end |
| settings and remote maps | `ConfigFile.cpp`, `RemoteMap.cpp`, `SetupClass.cpp` | settings | load, create default | error paths | a missing file gives the defaults |
| **`rootapp2`** | `vdr-ketlaerfe/rootapp2.cpp` | `g_bPowerdown`, the child, copies of itself | `run_dvd_player`, `run_other_prog`, `run_child` | exit codes that travel through two functions, failing fork and exec | power-off is honoured, the viewer gets a program again |
| DirectFB system module | `utility/DirectFB-1.2.9/systems/rtd` | primary surface | lock, flip, input provider | lock order | – |
| external / third party | `HDMI_thread.o`, `RebuildedInclude`, MMS core, boost, Qt, DirectFB, commoncpp2, directvnc, `TESTClient` | – | – | – | modelled only where the code above uses it |

Hazards, one by one with their lines, are in `PROJECT.json` (`hazards`).

## 2. Plan

Done:

1. `KetlaerLib` – the life cycle everything else depends on; proofs.
2. `VdrFrontend` – one session after another; `OsdPicture` – its pixel path; proofs of both.
3. `RemoteOwner` (abstract) and `RtdInput` – the hand-over of the remote; refinement and proofs.
4. `OneFrame` (abstract) and `RtdOutput` – the drawing thread and the threads that draw; refinement and proofs.
5. `AudioHandover` – the engine between audio and movie; proofs.
6. `MovieList` – from a movie's file names to the files played; proofs.
7. `PlaybackServer` – the window's and the monitor's thread of ketlaer-mp and the server; proofs.
8. `RootApp2` – supervisor, children and copies; proofs.
9. `CodecProofs` – the decoder and the painter of `OsdPicture` and the two parsers of `MovieList` for every input. With it
   every safety property a run checks is also a theorem.

Next, in this order:

10. Composition `TvSession` = `RtdInput` + `VdrFrontend` + `KetlaerLib` + `RtdOutput`: the
    external reader of the remote is the front end itself, and holds a reference; `Updater::deactivate` does
    not wait for a callback that has begun, so an overlay may be drawn into the session.
11. `ConfigFile` and `RemoteMap` – the error paths that `PROJECT.json` now lists as findings.

## 3. The modules

### KetlaerLib

`pc` is the position of the program's main thread inside `init_libketlaer` or
`uninit_libketlaer`; all callers (MMS main, its plugins' constructors and
destructors, the front end, the Qt driver) make these calls from that thread, so
calls do not overlap. `holders` are the callers between init and uninit, `live`
the set of globals that point to something alive. Each statement group of `Init`
(lines 210–268) and of `UnInit` (274–285) is one action, in the code's order,
because the two other threads can run between them: `MAIN_thread`
(`poll`–`read`–`LoadTvConfig`, the latter in two halves, around the assignment of
`rect`) and `HDMI_thread`. Of `HDMI_thread` only the object file exists; it is an
external action that writes any message to the pipe. A cancelled `HDMI_thread` is
not joined (line 161), so `orphans` counts those that still run and may write into the
pipe of a later cycle. Hardware calls stand for the piece they set up; the piece
"platform" is everything from `pli_init` to `firmware_init`.

### VdrFrontend

One action per step of `run_vdr_frontend` at which the thread can block or
branch: connect, the handshake loop, one blocking read each for a line, a
header, a palette and a bitmap, the execution of the command, `GetEvent`,
`select`, each kind of key, `deinit`. The control connection is a queue of units
(line, header, palette, bitmap); the server sends the units of one command in
order but the client may take them at any pace and the server may close between
any two of them, so each of the client's reads can be the one that fails.
Statics that survive a session (`conn_fd`, `client_id`, `g_hOSD`, `g_pb`,
`g_bZoom`, the size of the OSD, the player's queue) are variables that only the code resets.
The server sends what the xineliboutput protocol has: lines the client ignores,
a client id, then `FLUSH` and `OSDCMD`s: a picture for a window, with or without a palette, the
`Close` of a window, the size of the OSD, and those that the client only prints. `wanted` are the windows the server has drawn and
not closed; `Close` clears the whole screen whichever window it names, so `wiped` are the open windows that
were lost in this way and have not been drawn again. A picture without a palette is read through a null pointer, a key or the
`CONFIG` that answers the client id may meet a connection that the server has closed (SIGPIPE), and `exit(99)` ends
the program: these positions have no successor. The first write of a session, `CONTROL`, is always safe: nothing has been sent that
the server could have refused.

### OsdPicture

The picture of one `OSDCMD` as an algorithm: the server's runs are encoded as the
comment in `uncompress_osd_net` gives the format, decoded one element at a time,
painted one pixel at a time into a surface indexed as the code does
(`y * HUD_MAX_WIDTH + x`), and the dirty rectangle is widened, clamped and scaled.
All sizes are parameters: `Half` (the top bit of a byte), the surface, the default OSD
size the scale divides by, and the screen. The reference is independent of the loops:
`Position(k)` says where pixel `k` of the picture is and `Unroll(runs)` what it is; while the loop runs exactly the first
`Painted` pixels are in the surface, and at the end the surface indexes written are `WindowCells`, the window and nothing else. The code computes the scale
in `double` and truncates; on the non-negative coordinates of the model this is integer
division.

### RemoteOwner and RtdInput

`RtdInput` has one action per access to shared state of `RtdInp::run`, `suspend`,
`wake_up`, `add_input` and `get_input`. `ost::Event` is modelled by its two effects: a
signal sets the flag and releases a thread that already waits (`Released`); a
wait passes while the flag is set; `reset` clears it without taking the lock, so it is a step of
its own. The external program is the reader loop that the VDR front end and the movie player
share: select, then `ir_getkey`, until it ends.
`RemoteOwner` is the promise: the remote has one owner, and keys are read once, in order, by
the owner. `OwnerSpec` maps the owner to `external` from the return of `suspend` to the
moment `wake_up` clears the flag.

### OneFrame and RtdOutput

The threads of MMS (main thread, screen updater, background updater) come to the renderer
with a `job`: draw a screen or an overlay (`prepare_new_image` or `wait_and_aquire`, then
`draw`, then release), redraw everything, or use imlib on another image for a thumbnail. `pc` stands
between the statements: the mutex, the three lines of `wait_for_output_done` (wait, reset, flag),
the composition, the signal, the release. `rpc` is the same for `RTDdev::run`. While a thread is at
`compose`, `redraw` or `scale` it touches the picture, the list or the context; while `rpc` is at
`convert` the drawing thread reads them. What `draw` changes is any non-empty set of `Areas`; `stale`
is where the surface differs from the picture. An event is its flag and the threads that wait: commoncpp's
counter lets all of them out at a signal even if the flag is reset before they run.

Six jobs are done, and three of them, `Careless`, are places of the code that leave out a step: `dialog` (an overlay is removed with
`image_mut` but without the wait: `common-output.cpp:88` and `102`, `search.cpp:332`), `measure`
(imlib on another image without the poll: `pictures.cpp:1647`), `session` (`complete_redraw`
without `image_mut`: `tv.cpp:27`, `rtdmov.cpp:211`). Any one of them breaks the protocol while it is inside, so no property can be
stated for all moments; what can be said is how long the damage lasts. The history variable `astray` becomes true when a careless job
is inside the renderer and false when device and renderer rest (`Resting`: the device waits for a frame, nobody draws,
nobody has been let out of the wait). `lost` are the areas that were left stale by that time and have not been drawn since. All properties
hold whenever `astray` is false, with all six jobs done by all threads. What happens while it is true is shown, for `dialog`, by
a run of its own: there a comment says how it should be. While imlib's context is on another image `rtd_draw`
may find no source and show nothing.

`dropped` marks a draw that returned at `renderer.cpp:479`, without `output_is_ready`. It needs an
object that is removed and touches no other; screens with a background picture do not have one. After it the renderer is stuck, and
that is why `Served` has the exception and the run does not check for deadlock.

`OneFrame` is the promise: renderer and device take turns at one picture, the renderer draws one frame on
top of a picture that is on the screen as a whole, and the device shows all of it before it gives the picture back.
`FrameSpec` maps the turn to the renderer from the signal of `output_done` (while the device waits) to that of `output_ready`, and what
is not shown to `stale` without `lost`. `Disturb` leads `OneFrame` astray, `Recover` gives the turn back to the renderer: the refinement says that disorder
begins only with a careless job and ends in a defined state.

### AudioHandover

Two threads of MMS call the same objects: the main thread (keys, and the session of a movie
from `begin_external` to `end_external`) and the `ScreenUpdater`, whose pass polls the engine and moves
on to the next track. `pc` and `ret` are their positions: a call such as
`stop_player` or `check_playing` is a sequence of steps, one per access to what the other thread writes,
and `ret` says where it goes on. The engine is a medium, a status and an event queue; an
event carries the medium whose end it reports, which shows whose event somebody takes. Any track may be on a disc
that `check_media` does not find (`AddFile`, and the loop of `next()`), any track may be a stream: the flag `streaming` is set where the code
sets it (`play_track`, `play()`), and while it is set `next_audio_track` does nothing. Which track follows is any track of the list.

`before` is what the player takes to be on when a session begins (`TakenToBeOn`): `is_playing()` after the events that are
there, and the pause. Its flag `g_bRunning` outlives a stop, so music the viewer has stopped is on for the player, and it starts
again after the movie; `AudioComesBack` says so, and it is a finding. Silence is a player that has never played or whose track has
ended, and it stays. `late` marks sessions that began while a pass of the updater was
under way: `Updater::deactivate` does not wait for it, and then the updater may take the movie's event or
load a track over the movie. `lost` marks that a track ended, failed to load or had lost its disc within the session, or that the session began
with a pause of nothing. The properties exclude late and lost sessions; the causes are findings. `PlaylistGoesOn` leaves out
the states in which the player streams or every track that `next()` tried is on a missing disc, because there the code does nothing.

### MovieList

`PlayString` is what `Movie` builds from the names (`escape_string`), `EndsElement`, `TakeEscaped`,
`TakeChar` and `EndSplit` are the passes of the loop of `split_list`, the other actions are
`do_playlist` with each result `do_play` can have. A character is one of the five classes that the two
functions tell apart (`Scheme` stands for the three of `://`). The names of its variables, `MovieInit`, `MovieNext` and `MovieSpec` differ from those of `OsdPicture`,
so that one proof module can extend both. There is no concurrency in it; the module shows that two parsers in different
files are inverse and that the unsigned index stays inside the list.

### PlaybackServer

The window's thread and the monitor's thread of ketlaer-mp run the same methods of
`PlaybackWindow`. `mediaidx += 1` is a read and a write (`tmp`); a request is a question, its execution by the
server (`Serve`) and the answer. The engine reports an end as an event that stays in its queue until
somebody asks. Two variables are history. `clash`: a medium ended while a key was handled, or a key was pressed while an end was handled. Then
the index may move twice and the flag `playing` may say the opposite of the engine; nothing in the code orders the
two threads, and `PlaysWhatWindowSays` holds only without it. `over`: the medium has ended, or the end of another one was still on its way
when it was loaded. `LoadMedia` and `Stop` leave the engine's queue as it is, so after a clash a late end does replace a
medium before its own end; `LeftAtItsEnd` holds in all states and says that such an end costs one medium and no more.
`MonitorSurvives` also holds in all states: a key may move the index between the monitor's comparison and its use of the
list, the monitor then dies of an `IndexError`, but only when the window is about to close. A failed
load leaves the engine empty. An event that is neither an end nor an error is only printed.

### RootApp2

The supervisor with each of its two functions, the child and its exit code, the box (on, asleep, rebooting).
A failed `execv` returns into the child, which goes on as a supervisor with status 0
beside its parent: `sups` is the stack of these copies, the top one runs and each waits for the one above it. A
failed `fork` ends the supervisor with code 1, which its parent reads. `off` remembers that the viewer
switched off.

## 4. The runs

| run | instance | states | properties | what it shows |
|---|---|---|---|---|
| `KetlaerLib` | 3 clients, 2 TV systems, 2 bring-ups, 2 messages | 10 428 | `HoldersSeeWholeLibrary`, `MainThreadNeverUsesDeadVout`, `LifetimesNest`, `ScreenMatchesRect`, `CallsReturn`, `ChangesAreApplied` | holders see a whole platform, it goes down in a safe order, calls return |
| `VdrFrontend` | 2 windows (symmetric), 3 units in the socket, 1 key, 1 event, local power-down on | 5 949 352 | `StreamStaysInStep`, `NothingUsedBeforeInit`, `OverlayFollowsServer`, `KeyboardNeverBlocks`, `SessionReleasesAll` | the safety of repeated sessions |
| `VdrFrontendLive` | 1 window, 2 units, 1 key, 1 event, power-down off | 628 616 | `SessionEnds`, `IdStartsSession` | sessions start and end |
| `OsdPicture` | bytes of 4 values, surface 6×6, up to 3 runs, 2 colours | 695 504 | `DecodeRestoresRuns`, `PaintsPictureInOrder`, `BlitCoversDirtyArea`, `BlitStaysOnScreen` | decoding, painting, geometry |
| `OsdSize` | an OSD wider than the default | – | `EveryOsdFitsScreen` | **violation**, see findings |
| `RtdInput` | 2 mapped keys, 1 unmapped, 3 keys waiting | 45 884 | `NobodyBlocksInRead`, `QueuedInputIsAnnounced`, `OwnerSpec`, `HandoverCompletes`, `KeysAreRead` | one reader at a time (refinement of `RemoteOwner`), no lost command, no lost wake-up, no deadlock |
| `RtdOutput` | 2 threads of MMS, 2 areas, all six jobs, any number of draws | 516 023 | `PictureLeftAlone`, `NoRectangleLost`, `FrameSpec`, `Served` | outside the disorder of a careless job: picture left alone, no rectangle lost, whole frames in turn (refinement of `OneFrame`); every visit ends |
| `RtdOutputDialog` | 2 threads, 1 area | – | `OverlayAfterOutput` | **violation**, see findings |
| `AudioHandover` | 2 tracks and a movie, nothing counted | 1 314 814 | `MovieKeepsPlayer`, `AudioComesBack`, `MovieEndReturns`, `PlaylistGoesOn` | the movie keeps the engine, the audio comes back as the player takes it to be, ends are noticed |
| `MovieList` | 1 or 2 files, all names of 1 or 2 characters, up to 5 plays | 51 500 | `SplitRestoresFiles`, `PlaysListedParts` | quoting and splitting are inverse, the index stays in the list |
| `PlaybackServer` | 3 media, 3 keys | 390 425 | `PlaysWhatWindowSays`, `MonitorSurvives`, `LeftAtItsEnd`, `EndMovesOn`, `KeysReturn` | window, monitor and engine agree unless a key meets an end; always: the monitor lives, an end replaces one medium at most, keys return |
| `RootApp2` | 3 supervisors at a time | 734 | `NoProgramAfterPowerOff`, `ProgramComesBack`, `PowerOffSleeps` | a power-off sleeps before anything starts, otherwise a program comes back |

**Why the bounds are enough.** Two bring-ups are the first case in which something
of an earlier cycle (an orphan thread, an old pipe, an old rectangle) meets a later one; three
clients are the first case in which the counter passes a value that is neither first nor last.
A socket of three units holds the binary part of a whole command, so the server can be a full command
ahead; a session restarts any number of times. Four byte values with lengths 0, 1, 2, 4 and 5 give
an empty run, one- and two-byte lengths on both sides of the boundary and runs longer than a
row. One key more than the readers can hold between select and read shows every race on the IR
device; the queue of MMS is bounded by the code itself. In `RtdOutput` nothing is counted, so draws are not bounded; two
threads let a careless job pass by one that holds `image_mut` or waits for it, and two areas let one be stale
while another is drawn (the proofs are for any number of both). Two windows are the first case in which one `Close` wipes another window off; the
liveness run needs one, because what is on the screen decides nothing there. `AudioHandover` counts nothing either: any number of movies, tracks and passes; two tracks let a
restored track be the wrong one. Names of two characters have every pair of classes next to each other, which is
as far as `split_list` looks, and two files have a boundary between them; five plays go through a list of three (flag and two files)
and back. Three media have a first, a last and one between, three keys are enough to be pressed before, while and after
an end is handled. Three supervisors are the first case with a copy that is neither first nor last.

`RtdInput` and `AudioHandover` are checked for deadlock. The other configurations are not, because there the
system really may stop: the bound on bring-ups ends the life cycle, the front end's program exits, a picture or a list is
done, a dropped draw stops the renderer, the monitor of ketlaer-mp has died or the window is closed, and `fork` has failed in
every supervisor.

**Fairness.** Weak fairness of a thread's own steps only: the main thread does not stop inside a
library call and `MAIN_thread` is scheduled (`KetlaerLib`); the front end's thread runs and a
server that has begun a command sends the rest *or* closes (`VdrFrontend`: the code waits
without a limit, so without this Home is not looked at, see the hazard at `libfe.cpp:504`);
both threads run (`RtdInput`, `AudioHandover`; the time allowed for buffering, 2 or 15 seconds after a track was
started, passes, so `next_audio_track` does not wait for it for ever: strong fairness of `Decide`); the drawing thread and every thread inside the renderer run on
(`RtdOutput`; nobody is promised `image_mut`, so `Served` begins when it is taken); both threads of ketlaer-mp run and the
server serves each of them (`PlaybackServer`: pending connections are taken in their order, so the monitor's
endless questions cannot starve the window); the supervisor runs and the player that was switched off
ends (`RootApp2`). No fairness is put on keys, on the end of a medium, on the server beginning a command, on
a programme ending, or on `HDMI_thread`. The 100 ms time-outs of `select`, `poll` and `GetEvent` are
steps that are always possible.

## 5. What is proved

Every theorem holds for all values of the constants that satisfy the module's `ASSUME`s.

* **KetlaerLibProofs** – all safety properties of `KetlaerLib` as `Spec => []...`, for any finite set of
  clients. None of them is inductive: that `uninit` does not take the platform from another
  holder needs the counter to be right *and* the pieces to be those of the position `pc`.
  `IInv` adds: `LiveAt`, the exact set of pieces per position; `MainExists`, the
  positions between `InitHDMI` and the join; that no client holds a reference while a call that
  changes pieces runs; and that `rect` and the frame buffer's size are the setting's from the moment each
  exists. `TakeDownSafe` is the action property, from the invariant on both sides of a step.
  Assumes: `Clients` finite, `Systems` not empty, bounds natural.
* **CodecProofs** – all properties of `OsdPicture` and of `MovieList`. Both components read a code that
  is the codes of its elements one after the other (`FlattenSeq`), so they share a module and its first part: `FlattenConcat`,
  `FlattenAt` (where element `k` is) and `FlattenFirst`, lemmas about sequences that the theorems rest on. What a recursive definition computes needs induction over data, and the
  induction theorems of the library take an operator as parameter, which the provers cannot instantiate.
  `NatSetInduction` says the same of a set of numbers: the smallest number missing from it has a predecessor that is not
  missing, by the well-foundedness of the order of the naturals, a fact about sets (`WFMin`). The function that `FlattenSeq` chooses exists by the same
  induction (`FlatteningExists`).
  * *Decoder*: `DecodeInv` keeps the decoder between two runs, with a prefix of the picture in `data` and `ptr` behind its code.
    `DecodeRun` shows for every length of 15 bits that the first byte tells the form and the arithmetic of the bytes is inverse.
  * *Painter*: `PaintInv` has the cursor: `pixelcounter` pixels into a row, or at the end of a full row that is wrapped only when the next
    pixel comes. `NextPixel` is the step of the cursor, `PositionInjective` says that no pixel falls on another, `WholeWindow` that the places
    are the cells of the window. It rests on `WindowsAssumption`: the window lies in an OSD that is not larger than the surface.
  * *Rectangle*: for all sizes it covers the dirty area, lies in the OSD and, for an OSD up to the default size, is
    scaled into the screen. `DivAdds` and `ScaledInside` are about two truncating divisions whose sum must not exceed the division of the sum;
    `BlitInv` says the command does not change while it is executed.
  * *Play list*: `SplitInv` says where in the string `split_list` is: in the flag, or `todo` characters before the end of a name whose
    other characters are in `element`. From it follows that no quote is ever read unescaped, so that `isString` stays off. `PlayInv`
    follows the index while no key is pressed.
* **RtdInputProofs** – all safety properties of `RtdInput` and `Spec => OwnerSpec`. The invariant's
  `Handshake` part says which positions of the two threads go with which flags: in particular that
  a stale `ev_wakeup` or `ev_suspended` of an earlier round cannot exist when the next begins
  (without it `ParkedWhileExternal`, that the input thread only waits during a session, is not inductive). `QueueInv`:
  the queue is full exactly from the signal to the pop. `DeviceInv`: what select showed is still there. The refinement proof maps
  each action to a press, a read by the owner, a change of owner, or a stutter.
* **RtdOutputProofs** – type correctness, `PictureLeftAlone`, `NoRectangleLost`
  and `FrameSpec` (the refinement of `OneFrame`), with all six jobs done by any set of threads, on any set of areas. The invariant has two halves.
  `MutexInv` and `WaitInv` hold always: who may hold `image_mut` at which place, and nobody waits for an event that is set. `Calm` holds
  while nothing is astray and follows one turn round the circle: `TurnInv` says it is at most in one of `output_done`, a drawing thread, `output_ready` and the device's
  thread; `FlagInv` that `new_to_draw` covers the turn from the mark to the end of the conversion and
  does not change under a thread that has polled it; `StaleInv` where the surface equals the picture. Without `WokenInv`
  (who is let out of the wait under `image_mut` finds the event set) the turn could be taken twice. The lemma `Recovery` is the one about the
  careless jobs: a state in which device and renderer rest is calm whatever happened before. Four actions map to steps of `OneFrame`
  (`DrawObjects`, `OutputIsReady`, `DrawRectangles`, `SignalDone`), a careless job that comes inside to `Disturb`, a rest to `Recover`, all others to stutters.
* **VdrFrontendProofs** – all safety properties of `VdrFrontend`, for any set of windows and sockets, key buffers and event queues of any
  length. `FramingInv` looks at the whole stream from the client on (what was received, what the server has begun, the
  line that comes next) and says which unit may follow which; it is needed because the client's position depends on a header
  it read one or two units ago. `GreetingInv` keeps commands behind the client id, so that the handshake loop, which
  runs the full `process_control`, finds none that needs the OSD. `OverlayInv` computes what windows and which OSD size there will be when all that is
  received has been handled: a chain of pictures, one per unit on the way, in which a `Close` empties the screen. `KeysInv` carries `select`'s answer over `process_control`. `SessionInv` is the rest.
* **AudioHandoverProofs** – type correctness, `MovieKeepsPlayer` and `AudioComesBack` for any set of tracks, with the exclusions named in
  section 3. The argument is
  that a session which did not begin inside a pass finds the updater waiting and `active` false
  (`UpdaterStopped`), that the audio has its device until `begin_external` takes it (`DeviceReleased`), so that the stop of the
  track and the emptying of the queue always happen, and that nothing starts in between (`EngineFree`).
  `AudioComesBack` has an invariant of its own, `AudioInv`. `TrackInv` goes along a session in which something was on and says at each place what the flags of
  the three classes must remember and what the engine does; `SilenceInv` is the same for a session in which nothing was; `UpdaterIdles` says
  why the updater, which runs again from `activate` on, does nothing to either: `g_bRunning` has stayed true, or `playing` is off.
* **PlaybackServerProofs** – the three safety properties for lists of any length and any number of keys. Among its parts are
  `WireInv` (a thread's place says what it has asked) and two that hold in every state: `HeldInv`, that an end somebody still has to use makes
  `over` true, and `BehindInv`, that an index behind the list which the monitor has not seen itself means a window that is about to close. The others hold as long as
  no key met an end: `TurnInv` (an end is pending in the queue, held by the monitor or acted on, at most one of them, and the window rests meanwhile), `IndexInv` (what a thread read is still the
  index when it writes), `MediumInv` and `FlagInv` (who has not yet told the engine).
* **RootApp2Proofs** – `NoProgramAfterPowerOff` for any number of copies: `PowerOffUnderway` follows the exit code
  99 through `status`, `g_bPowerdown` and the run of the player without a screen; the lemmas are about a stack of supervisors.

Left to TLC: the liveness properties, for which the prover has no reasoning about fairness and `ENABLED`. Every invariant
of the passing runs, and both refinements (`OwnerSpec`, `FrameSpec`), are theorems.

## 6. Findings

* The scale of the OSD ignores `OSD_Size` (`libfe.cpp:352`): run `OsdSize`.
* A dialog is removed while the frame before is still converted (`common-output.cpp:88`): run `RtdOutputDialog`.
* Met while reading, without a run of their own (each with its line in `PROJECT.json`): the other careless jobs above and the
  draw that is dropped; `OSD_SetPalette` and `OSD_Move` only print; `OSD_Close` clears every window; the size of the OSD outlives the session; a picture
  without a palette is read through a null pointer; a refused connect leads
  to a second `close` of the same number; `write_control_fd` keeps `write`'s result unsigned;
  `rtd_keymap` has no `Key_8`; an empty play list is read out of bounds; `ConfigFile::LoadFile` inverts
  the result of `CreateDefaultFile`; `RemoteMap` leaves a hole for a record it skips; a rectangle of width 0 converts eight pixels;
  `HDMI_thread` is not joined; the updater is not waited for (`updater.cpp:50`); stopped music counts as playing
  and comes back after a movie (`rtdaud.cpp:163`); the flag for streams stays when the list goes on to a file, and while it is set no end is acted on
  (`audio.hpp:1152`, `2177`); a late end makes ketlaer-mp skip the next medium (`qscreenrtd_qws.cpp:149`); a track or a medium that does not load is not noticed (`rtdaud.cpp:148`,
  `playback.py:107`); the flag `-playlist` is taken for a file (`movie.cpp:518`); a failed `execv` makes a second
  supervisor (`rootapp2.cpp:22`).

## 7. Not modelled

The hardware and its RPCs (abstracted to success), the S/PDIF, volume and audio settings, the MYIO part of
`libfe.cpp` (not compiled by default), input hooks, filters and cancel callbacks of MMS, the destructor of `RtdInp` (it does not join its
thread), which rectangles `Render::draw` computes and how it composes them, the partial write of a key, seeking, zoom and positions
of both players, how a stream is received, the order in which MMS picks tracks, the screen part of the Qt driver, and the components marked `not_modelled` in
`PROJECT.json`: settings and remote maps (straight-line file reading), the DirectFB system module, binary objects, and
the vendored libraries, which are nearly all of the lines of the repository and none of its own logic.
