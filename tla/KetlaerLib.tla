----------------------------- MODULE KetlaerLib -----------------------------
(***************************************************************************)
(* The life cycle of libketlaer (src/libketlaer/libketlaer.cpp and         *)
(* hdmihelper.cpp): one reference-counted platform shared by the plugins   *)
(* of a program.  The first init_libketlaer brings the pieces up one after *)
(* the other, starts MAIN_thread and HDMI_thread on the way, and the last  *)
(* uninit_libketlaer takes everything down again.                          *)
(*                                                                         *)
(* All calls come from the program's one main thread (MMS, the VDR front   *)
(* end and the Qt driver load and unload their plugins from it), so there  *)
(* is one call at a time; MAIN_thread and HDMI_thread run beside it.       *)
(***************************************************************************)
EXTENDS Integers, FiniteSets, Sequences

CONSTANTS
  Clients,     \* holders of a reference: mms main, RtdInp, RTDdev, RtdAud...
  Systems,     \* the TV systems the settings file can name
  MaxCycles,   \* bound: number of times the platform is brought up
  MaxEvents    \* bound: messages waiting in the control pipe

ASSUME ClientsAssumption == IsFiniteSet(Clients)
ASSUME SystemsAssumption == Systems # {}
ASSUME BoundsAssumption  == MaxCycles \in Nat /\ MaxEvents \in Nat

VARIABLES
  pc,         \* where the main thread is in init_libketlaer/uninit_libketlaer
  caller,     \* {} or the singleton of the client whose call is running
  holders,    \* clients whose init call has returned and that have not let go
  initcount,  \* the library's counter
  live,       \* pieces that exist: their globals point to something alive
  tvSystem,   \* setup->GetTvSystem(), as ConfigFile left it
  rect,       \* the TV system whose rectangle is in the global rect
  screenRect, \* the rectangle g_hScreen was created with
  main,       \* where MAIN_thread is
  cancelled,  \* pthread_cancel(thread_id_MAIN) has been called
  hdmi,       \* HDMI_thread of this cycle runs and was not cancelled
  orphans,    \* earlier HDMI threads: cancelled, never joined, still running
  pipe,       \* messages in AbstractAP::control_pipe, oldest first
  cycles      \* platform bring-ups so far (each leaves its pipe open)

libVars  == <<pc, caller, holders, initcount, live, cycles>>
rectVars == <<tvSystem, rect, screenRect>>
mainVars == <<main, cancelled>>
hdmiVars == <<hdmi, orphans>>
vars     == <<libVars, rectVars, mainVars, hdmiVars, pipe>>

\* The globals of libketlaer.cpp; "platform" stands for what pli_init ...
\* firmware_init set up, without which no hardware call works.
Pieces == {"irmap", "platform", "vo", "screen", "display", "pb", "ir"}

\* What each piece is built on.
Needs == [irmap |-> {}, platform |-> {}, vo |-> {"platform"},
          screen |-> {"platform"}, display |-> {"platform", "screen"},
          pb |-> {"platform"}, ir |-> {"irmap"}]

InitPcs   == {"irmap", "platform", "vo", "hdmi", "screen", "display", "pb",
              "ir"}
UninitPcs == {"closeIr", "deletePb", "releaseDisplay", "closeSurface",
              "cancel", "join", "deleteVo", "closePlatform"}
MainPcs   == {"none", "poll", "read", "config", "window", "exited"}
\* Messages of the pipe: type 125 with the system HDMI negotiated, or another.
Messages  == {[type |-> "tv", system |-> s] : s \in Systems}
               \cup {[type |-> "other"]}

Init ==
  /\ pc = "idle" /\ caller = {} /\ holders = {} /\ initcount = 0
  /\ live = {} /\ cycles = 0
  /\ tvSystem \in Systems /\ rect = tvSystem /\ screenRect = tvSystem
  /\ main = "none" /\ cancelled = FALSE
  /\ hdmi = FALSE /\ orphans = 0
  /\ pipe = <<>>

-----------------------------------------------------------------------------
(* init_libketlaer *)

\* initcount++ on every call; Init() runs if it was 0.
CountUp        == initcount + 1

\* A client asks for the library; only the first one finds initcount = 0.
CallInit(c) ==
  /\ pc = "idle" /\ c \notin holders
  /\ initcount = 0 => cycles < MaxCycles
  /\ initcount' = CountUp
  /\ IF initcount = 0
       THEN pc' = "irmap" /\ caller' = {c} /\ UNCHANGED holders
       ELSE holders' = holders \cup {c} /\ UNCHANGED <<pc, caller>>
  /\ UNCHANGED <<live, cycles, rectVars, mainVars, hdmiVars, pipe>>

\* One step of Init(): piece p comes up, the thread goes on to step next.
BringUp(p, next) ==
  /\ pc' = next
  /\ live' = live \cup {p}
  /\ UNCHANGED <<caller, holders, initcount, cycles>>

\* ConfigFile reads the settings, whatever they are by now; g_pIrMap is made.
LoadSettings ==
  /\ pc = "irmap"
  /\ BringUp("irmap", "platform")
  /\ tvSystem' \in Systems
  /\ UNCHANGED <<rect, screenRect, mainVars, hdmiVars, pipe>>

OpenPlatform ==
  /\ pc = "platform"
  /\ BringUp("platform", "vo")
  /\ UNCHANGED <<rectVars, mainVars, hdmiVars, pipe>>

\* g_vo is made and LoadTvConfig runs on this thread for the first time.
CreateVout ==
  /\ pc = "vo"
  /\ BringUp("vo", "hdmi")
  /\ rect' = tvSystem
  /\ UNCHANGED <<tvSystem, screenRect, mainVars, hdmiVars, pipe>>

\* A new pipe replaces the one of the cycle before; both threads start.
InitHDMI ==
  /\ pc = "hdmi"
  /\ pc' = "screen"
  /\ pipe' = <<>>
  /\ main' = "poll" /\ cancelled' = FALSE
  /\ hdmi' = TRUE
  /\ cycles' = cycles + 1
  /\ UNCHANGED <<caller, holders, initcount, live, rectVars, orphans>>

CreateScreen ==
  /\ pc = "screen"
  /\ BringUp("screen", "display")
  /\ screenRect' = rect
  /\ UNCHANGED <<tvSystem, rect, mainVars, hdmiVars, pipe>>

ShowScreen ==
  /\ pc = "display"
  /\ BringUp("display", "pb")
  /\ UNCHANGED <<rectVars, mainVars, hdmiVars, pipe>>

CreatePlayback ==
  /\ pc = "pb"
  /\ BringUp("pb", "ir")
  /\ UNCHANGED <<rectVars, mainVars, hdmiVars, pipe>>

\* /dev/venus_irrp is opened last; the call returns to the client.
OpenIr ==
  /\ pc = "ir"
  /\ pc' = "idle"
  /\ live' = live \cup {"ir"}
  /\ holders' = holders \cup caller
  /\ caller' = {}
  /\ UNCHANGED <<initcount, cycles, rectVars, mainVars, hdmiVars, pipe>>

-----------------------------------------------------------------------------
(* uninit_libketlaer *)

\* initcount-- on every call; UnInit() runs if that was the last reference.
CountDown       == initcount - 1
AnyReference    == initcount >= 1
LastReference   == initcount = 1

CallUninit(c) ==
  /\ pc = "idle" /\ c \in holders
  /\ holders' = holders \ {c}
  /\ initcount' = CountDown
  /\ pc' = IF LastReference THEN "closeIr" ELSE "idle"
  /\ UNCHANGED <<caller, live, cycles, rectVars, mainVars, hdmiVars, pipe>>

\* One step of UnInit(): pieces ps go, the thread goes on to step next.
TakeDown(from, ps, next) ==
  /\ pc = from
  /\ pc' = next
  /\ live' = live \ ps
  /\ UNCHANGED <<caller, holders, initcount, cycles, rectVars, mainVars,
                 hdmiVars, pipe>>

CloseIr        == TakeDown("closeIr", {"ir"}, "deletePb")
DeletePlayback == TakeDown("deletePb", {"pb"}, "releaseDisplay")
\* (Variant: the frame buffer goes before the display that shows it.)
ScreenFirst    == TakeDown("releaseDisplay", {"screen"}, "closeSurface")
ReleaseDisplay == TakeDown("releaseDisplay", {"display"}, "closeSurface")
\* (Variant: g_vo goes before the threads are stopped, as in TESTClient.)
VoutFirst      == TakeDown("closeSurface", {"screen", "vo"}, "cancel")
CloseSurface   == TakeDown("closeSurface", {"screen"}, "cancel")

\* (Variant: only HDMI_thread is cancelled.)
CancelHdmiOnly ==
  /\ pc = "cancel"
  /\ pc' = "join"
  /\ hdmi' = FALSE
  /\ orphans' = orphans + 1
  /\ UNCHANGED <<caller, holders, initcount, live, cycles, rectVars, mainVars,
                 pipe>>

\* DeInitHDMI cancels both threads.  The join of HDMI_thread is commented
\* out, so that thread may outlive everything that follows.
CancelThreads ==
  /\ pc = "cancel"
  /\ pc' = "join"
  /\ cancelled' = TRUE
  /\ hdmi' = FALSE
  /\ orphans' = orphans + 1
  /\ UNCHANGED <<caller, holders, initcount, live, cycles, rectVars, main,
                 pipe>>

\* pthread_join returns once MAIN_thread has acted on the cancellation.
JoinMain ==
  /\ pc = "join" /\ main = "exited"
  /\ pc' = "deleteVo"
  /\ main' = "none"
  /\ UNCHANGED <<caller, holders, initcount, live, cycles, rectVars,
                 cancelled, hdmiVars, pipe>>

DeleteVout    == TakeDown("deleteVo", {"vo"}, "closePlatform")
ClosePlatform == TakeDown("closePlatform", {"platform", "irmap"}, "idle")

-----------------------------------------------------------------------------
(* MAIN_thread and HDMI_thread *)

MainGoes(from, to) ==
  /\ main = from
  /\ main' = to
  /\ UNCHANGED <<libVars, cancelled, hdmiVars>>

\* pthread_testcancel, poll and read act on a pending cancellation, and so
\* may the printf and the RPCs inside TvSystemChanged.
MainExits ==
  /\ cancelled
  /\ \E from \in {"poll", "read", "config", "window"} : MainGoes(from, "exited")
  /\ UNCHANGED <<rectVars, pipe>>

\* A poll that times out only serves a timer of the SDK: its handler is not in
\* the source and touches nothing that is modelled here.
MainPolls ==
  /\ ~cancelled /\ pipe # <<>>
  /\ MainGoes("poll", "read")
  /\ UNCHANGED <<rectVars, pipe>>

\* Only type 125 reconfigures the output.
HandlesOther(m) == m.type = "other"
Handles(m)      == m.type = "tv"
AfterMessage    == IF Handles(Head(pipe)) THEN "config" ELSE "poll"

\* (Variant: the SetTvSystem that is commented out in MAIN_thread.)
MainReadsSystem ==
  /\ ~cancelled /\ pipe # <<>>
  /\ MainGoes("read", AfterMessage)
  /\ tvSystem' = IF Handles(Head(pipe)) THEN Head(pipe).system ELSE tvSystem
  /\ pipe' = Tail(pipe)
  /\ UNCHANGED <<rect, screenRect>>

\* The system in the message is not used.
MainReads ==
  /\ ~cancelled /\ pipe # <<>>
  /\ MainGoes("read", AfterMessage)
  /\ pipe' = Tail(pipe)
  /\ UNCHANGED rectVars

\* LoadTvConfig on MAIN_thread, up to the assignment of rect ...
MainConfigures ==
  /\ MainGoes("config", "window")
  /\ rect' = tvSystem
  /\ UNCHANGED <<tvSystem, screenRect, pipe>>

\* ... and from there on: rescale mode, display window, graphic canvas, HDMI.
MainSetsWindow ==
  /\ MainGoes("window", "poll")
  /\ UNCHANGED <<rectVars, pipe>>

\* Any running HDMI thread writes to whatever pipe the global names by now.
HdmiWrites ==
  /\ hdmi \/ orphans > 0
  /\ Len(pipe) < MaxEvents
  /\ \E m \in Messages : pipe' = Append(pipe, m)
  /\ UNCHANGED <<libVars, rectVars, mainVars, hdmiVars>>

\* A cancelled HDMI thread reaches a cancellation point, some day or never.
HdmiDies ==
  /\ orphans > 0
  /\ orphans' = orphans - 1
  /\ UNCHANGED <<libVars, rectVars, mainVars, hdmi, pipe>>

-----------------------------------------------------------------------------
InitSteps   == \/ LoadSettings \/ OpenPlatform \/ CreateVout \/ InitHDMI
               \/ CreateScreen \/ ShowScreen \/ CreatePlayback \/ OpenIr
UninitSteps == \/ CloseIr \/ DeletePlayback \/ ReleaseDisplay \/ CloseSurface
               \/ CancelThreads \/ JoinMain \/ DeleteVout \/ ClosePlatform
MainSteps   == \/ MainExits \/ MainPolls \/ MainReads \/ MainConfigures
               \/ MainSetsWindow

Next ==
  \/ \E c \in Clients : CallInit(c) \/ CallUninit(c)
  \/ InitSteps \/ UninitSteps
  \/ MainSteps
  \/ HdmiWrites \/ HdmiDies

Spec == Init /\ [][Next]_vars

\* The main thread does not stop inside a call and MAIN_thread is scheduled;
\* clients, the HDMI hardware and a cancelled HDMI_thread owe nothing.
Fairness == WF_vars(InitSteps \/ UninitSteps) /\ WF_vars(MainSteps)
FairSpec == Spec /\ Fairness

-----------------------------------------------------------------------------
(* Properties *)

TypeOK ==
  /\ pc \in {"idle"} \cup InitPcs \cup UninitPcs
  /\ caller \subseteq Clients /\ holders \subseteq Clients
  /\ initcount \in Nat /\ cycles \in Nat /\ orphans \in Nat
  /\ live \subseteq Pieces
  /\ tvSystem \in Systems /\ rect \in Systems /\ screenRect \in Systems
  /\ main \in MainPcs /\ cancelled \in BOOLEAN /\ hdmi \in BOOLEAN
  /\ pipe \in Seq(Messages)

\* The counter is the number of references out, a running first call included.
CountMatchesHolders ==
  initcount = Cardinality(holders) + IF pc \in InitPcs THEN 1 ELSE 0

\* A client that holds a reference finds every piece up, whatever the others
\* do: nobody's uninit takes the platform from under it.
HoldersSeeWholeLibrary == holders # {} => live = Pieces

\* MAIN_thread calls through g_vo in LoadTvConfig; g_vo must still be there.
\* DeInitHDMI has joined the thread before UnInit deletes g_vo.
MainThreadNeverUsesDeadVout == main \in {"config", "window"} => "vo" \in live

\* Nothing outlives what it is built on, in either direction of the cycle.
LifetimesNest ==
  \A p \in live : Needs[p] \subseteq live

\* The frame buffer has the size every client reads from getScreenRect(),
\* although LoadTvConfig rewrites rect on MAIN_thread at any time.
ScreenMatchesRect == "screen" \in live => screenRect = rect

\* Init never starts a second MAIN_thread beside one of the cycle before.
OneMainThread == pc = "hdmi" => main = "none"

\* With no reference out and no call running, nothing is left behind.
NothingLeftWhenUnused ==
  pc = "idle" /\ initcount = 0 => live = {} /\ main = "none" /\ ~hdmi

\* A piece goes only after the last reference went: no step of any thread
\* shrinks the library while a client still holds it.
TakenDownOnlyWhenUnheld == [][live' \subseteq live /\ live' # live
                                => holders = {} /\ initcount = 0]_vars

\* Every call returns: the join of MAIN_thread does not wait for ever.
CallsReturn == pc # "idle" ~> pc = "idle"

\* A TV system change HDMI announces reconfigures the output, unless the
\* library goes down first.
ChangesAreApplied ==
  (\E i \in DOMAIN pipe : pipe[i].type = "tv") /\ main # "none"
     ~> main = "config" \/ cancelled
=============================================================================
