-------------------------- MODULE KetlaerLibProofs --------------------------
(***************************************************************************)
(* The safety properties of KetlaerLib, proved for any number of clients,  *)
(* any set of TV systems and any bounds.                                   *)
(***************************************************************************)
EXTENDS KetlaerLib, FiniteSetTheorems, TLAPS

(***************************************************************************)
(* The inductive invariant ties every piece of state to the position pc of *)
(* the one thread that drives the life cycle.                              *)
(***************************************************************************)
Core == {"irmap", "platform", "vo"}

\* The pieces that exist when the main thread is at pc.
LiveAt ==
  CASE pc = "idle"           -> IF initcount = 0 THEN {} ELSE Pieces
    [] pc = "irmap"          -> {}
    [] pc = "platform"       -> {"irmap"}
    [] pc = "vo"             -> {"irmap", "platform"}
    [] pc \in {"hdmi", "screen", "cancel", "join", "deleteVo"} -> Core
    [] pc = "display"        -> Core \cup {"screen"}
    [] pc = "pb"             -> Core \cup {"screen", "display"}
    [] pc = "ir"             -> Core \cup {"screen", "display", "pb"}
    [] pc = "closeIr"        -> Pieces
    [] pc = "deletePb"       -> Pieces \ {"ir"}
    [] pc = "releaseDisplay" -> Core \cup {"screen", "display"}
    [] pc = "closeSurface"   -> Core \cup {"screen"}
    [] pc = "closePlatform"  -> {"irmap", "platform"}

\* MAIN_thread exists from InitHDMI to the join.
MainExists ==
  \/ pc \in {"screen", "display", "pb", "ir", "closeIr", "deletePb",
             "releaseDisplay", "closeSurface", "cancel", "join"}
  \/ pc = "idle" /\ initcount # 0

CountInv ==
  /\ IsFiniteSet(holders)
  /\ initcount = Cardinality(holders) + IF pc \in InitPcs THEN 1 ELSE 0
  /\ pc # "idle" => holders = {}
  /\ IF pc \in InitPcs THEN \E c \in Clients : caller = {c} ELSE caller = {}

LiveInv == live = LiveAt

ThreadInv ==
  /\ main # "none" <=> MainExists
  /\ hdmi <=> MainExists /\ pc # "join"
  /\ main # "none" => (cancelled <=> pc = "join")

RectInv ==
  /\ "vo" \in live => rect = tvSystem
  /\ "screen" \in live => screenRect = tvSystem

IInv == TypeOK /\ CountInv /\ LiveInv /\ ThreadInv /\ RectInv
-----------------------------------------------------------------------------
(* Type correctness *)

\* Every variable keeps its type: the counters never leave Nat because an
\* uninit_libketlaer call is made only by a client that holds a reference.
LEMMA TypeInit == Init => TypeOK
<1> SUFFICES ASSUME Init PROVE TypeOK
  OBVIOUS
<1>1. pipe \in Seq(Messages)
  BY DEF Init
<1>2. cancelled \in BOOLEAN /\ hdmi \in BOOLEAN
  BY DEF Init
<1>3. QED
  BY <1>1, <1>2 DEF Init, TypeOK, MainPcs

LEMMA InitStepType == TypeOK /\ InitSteps => TypeOK'
<1> SUFFICES ASSUME TypeOK, InitSteps PROVE TypeOK'
  OBVIOUS
<1>1. CASE LoadSettings \/ OpenPlatform \/ CreateVout
  BY <1>1 DEF TypeOK, LoadSettings, OpenPlatform, CreateVout, BringUp,
              InitPcs, Pieces, rectVars, mainVars, hdmiVars
<1>2. CASE InitHDMI
  <2>1. pipe' \in Seq(Messages)
    BY <1>2 DEF InitHDMI
  <2>2. cancelled' \in BOOLEAN /\ hdmi' \in BOOLEAN
    BY <1>2 DEF InitHDMI
  <2>3. QED
    BY <1>2, <2>1, <2>2 DEF TypeOK, InitHDMI, InitPcs, MainPcs, rectVars
<1>3. CASE CreateScreen \/ ShowScreen \/ CreatePlayback \/ OpenIr
  BY <1>3 DEF TypeOK, CreateScreen, ShowScreen, CreatePlayback, OpenIr,
              BringUp, InitPcs, Pieces, rectVars, mainVars, hdmiVars
<1>4. QED
  BY <1>1, <1>2, <1>3 DEF InitSteps

LEMMA UninitStepType == TypeOK /\ UninitSteps => TypeOK'
<1> SUFFICES ASSUME TypeOK, UninitSteps PROVE TypeOK'
  OBVIOUS
<1>1. CASE CancelThreads
  <2>1. cancelled' \in BOOLEAN /\ hdmi' \in BOOLEAN
    BY <1>1 DEF CancelThreads
  <2>2. QED
    BY <1>1, <2>1 DEF TypeOK, CancelThreads, UninitPcs, rectVars
<1>2. CASE JoinMain
  BY <1>2 DEF TypeOK, JoinMain, UninitPcs, MainPcs, rectVars, hdmiVars
<1>3. CASE CloseIr \/ DeletePlayback \/ ReleaseDisplay \/ CloseSurface
  BY <1>3 DEF TypeOK, CloseIr, DeletePlayback, ReleaseDisplay, CloseSurface,
              TakeDown, UninitPcs, rectVars, mainVars, hdmiVars
<1>4. CASE DeleteVout \/ ClosePlatform
  BY <1>4 DEF TypeOK, DeleteVout, ClosePlatform, TakeDown, UninitPcs,
              rectVars, mainVars, hdmiVars
<1>5. QED
  BY <1>1, <1>2, <1>3, <1>4 DEF UninitSteps

LEMMA ThreadStepType ==
  TypeOK /\ (MainSteps \/ HdmiWrites \/ HdmiDies) => TypeOK'
<1> SUFFICES ASSUME TypeOK, MainSteps \/ HdmiWrites \/ HdmiDies
             PROVE  TypeOK'
  OBVIOUS
<1>1. CASE MainExits \/ MainPolls \/ MainConfigures \/ MainSetsWindow
  BY <1>1 DEF TypeOK, MainExits, MainPolls, MainConfigures, MainSetsWindow,
              MainGoes, MainPcs, libVars, rectVars, hdmiVars
<1>2. CASE MainReads
  <2>1. pipe' \in Seq(Messages)
    BY <1>2 DEF MainReads, AfterMessage, Handles, TypeOK
  <2>2. QED
    BY <1>2, <2>1 DEF TypeOK, MainReads, AfterMessage, Handles, MainGoes,
                      MainPcs, libVars, rectVars, hdmiVars
<1>3. CASE HdmiWrites
  BY <1>3 DEF TypeOK, HdmiWrites, libVars, rectVars, mainVars, hdmiVars
<1>4. CASE HdmiDies
  BY <1>4 DEF TypeOK, HdmiDies, libVars, rectVars, mainVars
<1>5. QED
  BY <1>1, <1>2, <1>3, <1>4 DEF MainSteps

-----------------------------------------------------------------------------
(* The inductive step, one lemma per group of actions *)

LEMMA InitEstablishes == Init => IInv
<1> SUFFICES ASSUME Init PROVE IInv
  OBVIOUS
<1>1. TypeOK
  BY TypeInit
<1>2. CountInv
  BY FS_EmptySet DEF Init, CountInv, InitPcs
<1>3. LiveInv /\ ThreadInv /\ RectInv
  BY DEF Init, LiveInv, LiveAt, ThreadInv, MainExists, RectInv
<1>4. QED
  BY <1>1, <1>2, <1>3 DEF IInv

\* A call that does not come first or last only moves the counter.
LEMMA CallInitStep ==
  ASSUME IInv, NEW c \in Clients, CallInit(c)
  PROVE  IInv'
<1> USE DEF IInv
<1>0. IsFiniteSet(holders) /\ Cardinality(holders) \in Nat
  BY FS_CardinalityType DEF CountInv
<1>1. TypeOK'
  BY DEF TypeOK, CallInit, CountUp, InitPcs, rectVars, mainVars, hdmiVars
<1>2. CountInv'
  <2>1. CASE initcount = 0
    <3>1. holders = {}
      BY <2>1, <1>0, FS_EmptySet DEF CountInv, CallInit, CountUp, InitPcs
    <3>2. /\ pc' = "irmap" /\ initcount' = 1 /\ caller' = {c}
          /\ holders' = {} /\ Cardinality(holders') = 0
      BY <2>1, <3>1, FS_EmptySet DEF CallInit, CountUp
    <3>3. QED
      BY <3>2, FS_EmptySet DEF CountInv, InitPcs
  <2>2. CASE initcount # 0
    <3>1. Cardinality(holders \cup {c}) = Cardinality(holders) + 1
      BY <1>0, FS_AddElement DEF CallInit, CountUp
    <3>2. IsFiniteSet(holders \cup {c})
      BY <1>0, FS_AddElement
    <3>3. /\ pc = "idle" /\ pc' = "idle" /\ caller' = caller
          /\ holders' = holders \cup {c} /\ initcount' = initcount + 1
      BY <2>2 DEF CallInit, CountUp
    <3>4. initcount = Cardinality(holders) /\ caller = {}
      BY <1>0, <3>3 DEF CountInv, InitPcs
    <3>5. QED
      BY <3>1, <3>2, <3>3, <3>4 DEF CountInv, InitPcs
  <2>3. QED
    BY <2>1, <2>2
<1>3. LiveInv' /\ ThreadInv' /\ RectInv'
  BY DEF LiveInv, LiveAt, ThreadInv, MainExists, RectInv, TypeOK, CallInit,
         CountUp, rectVars, mainVars, hdmiVars
<1>4. QED
  BY <1>1, <1>2, <1>3

LEMMA CallUninitStep ==
  ASSUME IInv, NEW c \in Clients, CallUninit(c)
  PROVE  IInv'
<1> USE DEF IInv
<1>0. /\ IsFiniteSet(holders)
      /\ Cardinality(holders) \in Nat
      /\ IsFiniteSet(holders \ {c})
      /\ Cardinality(holders \ {c}) = Cardinality(holders) - 1
      /\ Cardinality(holders \ {c}) \in Nat
  BY FS_CardinalityType, FS_RemoveElement DEF CountInv, CallUninit, CountDown,
                                              LastReference
<1>1. initcount = Cardinality(holders) /\ pc = "idle"
  BY <1>0 DEF CountInv, CallUninit, CountDown, LastReference, InitPcs
<1>2. TypeOK'
  BY <1>0, <1>1 DEF TypeOK, CallUninit, CountDown, LastReference, UninitPcs,
                    rectVars, mainVars, hdmiVars
<1>3. CountInv'
  <2>1. initcount = 1 => holders \ {c} = {}
    BY <1>0, <1>1, FS_EmptySet
  <2>2. QED
    BY <1>0, <1>1, <2>1 DEF CountInv, CallUninit, CountDown, LastReference,
                            InitPcs
<1>4. LiveInv' /\ ThreadInv' /\ RectInv'
  BY <1>0, <1>1 DEF LiveInv, LiveAt, ThreadInv, MainExists, RectInv, TypeOK,
                    CallUninit, CountDown, LastReference, rectVars, mainVars,
                    hdmiVars, Core, Pieces
<1>5. QED
  BY <1>2, <1>3, <1>4

\* Init() brings up exactly the piece its position names.
LEMMA InitStepsStep ==
  ASSUME IInv, InitSteps
  PROVE  IInv'
<1> USE DEF IInv
<1>1. TypeOK'
  BY InitStepType
<1>2. CountInv'
  <2>1. CASE OpenIr
    <3>1. PICK c \in Clients : caller = {c}
      BY <2>1 DEF OpenIr, CountInv, InitPcs
    <3>2. pc = "ir" /\ holders = {}
      BY <2>1 DEF OpenIr, CountInv
    <3>3. initcount = 1
      BY <3>2, FS_EmptySet DEF CountInv, InitPcs
    <3>4. holders' = {c} /\ initcount' = 1 /\ pc' = "idle" /\ caller' = {}
      BY <2>1, <3>1, <3>2, <3>3 DEF OpenIr
    <3>5. IsFiniteSet(holders') /\ Cardinality(holders') = 1
      BY <3>4, FS_Singleton
    <3>6. QED
      BY <3>4, <3>5 DEF CountInv, InitPcs
  <2>2. CASE ~OpenIr
    BY <2>2 DEF InitSteps, CountInv, LoadSettings, OpenPlatform, CreateVout,
                InitHDMI, CreateScreen, ShowScreen, CreatePlayback, BringUp,
                InitPcs
  <2>3. QED
    BY <2>1, <2>2
<1>3. initcount # 0
  <2>1. pc \in InitPcs
    BY DEF InitSteps, LoadSettings, OpenPlatform, CreateVout, InitHDMI,
           CreateScreen, ShowScreen, CreatePlayback, OpenIr, InitPcs
  <2>2. holders = {}
    BY <2>1 DEF CountInv, InitPcs
  <2>3. QED
    BY <2>1, <2>2, FS_EmptySet DEF CountInv
<1>4. LiveInv'
  BY <1>3 DEF InitSteps, LiveInv, LiveAt, LoadSettings, OpenPlatform,
              CreateVout, InitHDMI, CreateScreen, ShowScreen, CreatePlayback,
              OpenIr, BringUp, Core, Pieces
<1>5. ThreadInv'
  <2>1. CASE LoadSettings \/ OpenPlatform \/ CreateVout
    BY <2>1 DEF ThreadInv, MainExists, LoadSettings, OpenPlatform,
                CreateVout, BringUp, mainVars, hdmiVars
  <2>2. CASE InitHDMI
    BY <2>2 DEF ThreadInv, MainExists, InitHDMI
  <2>3. CASE CreateScreen \/ ShowScreen \/ CreatePlayback
    BY <2>3 DEF ThreadInv, MainExists, CreateScreen, ShowScreen,
                CreatePlayback, BringUp, mainVars, hdmiVars
  <2>4. CASE OpenIr
    BY <1>3, <2>4 DEF ThreadInv, MainExists, OpenIr, mainVars, hdmiVars
  <2>5. QED
    BY <2>1, <2>2, <2>3, <2>4 DEF InitSteps
<1>6. RectInv'
  BY DEF InitSteps, RectInv, LiveInv, LiveAt, Core, LoadSettings,
         OpenPlatform, CreateVout, InitHDMI, CreateScreen, ShowScreen,
         CreatePlayback, OpenIr, BringUp, rectVars
<1>7. QED
  BY <1>1, <1>2, <1>4, <1>5, <1>6

LEMMA UninitStepsStep ==
  ASSUME IInv, UninitSteps
  PROVE  IInv'
<1> USE DEF IInv
<1>1. TypeOK'
  BY UninitStepType
<1>2. holders = {} /\ initcount = 0 /\ caller = {}
  BY FS_EmptySet
     DEF CountInv, UninitSteps, CloseIr, DeletePlayback, ReleaseDisplay,
         CloseSurface, CancelThreads, JoinMain, DeleteVout, ClosePlatform,
         TakeDown, InitPcs
<1>3. CountInv'
  BY <1>2, FS_EmptySet
     DEF CountInv, UninitSteps, CloseIr, DeletePlayback, ReleaseDisplay,
         CloseSurface, CancelThreads, JoinMain, DeleteVout, ClosePlatform,
         TakeDown, InitPcs
<1>4. LiveInv'
  BY <1>2
     DEF LiveInv, LiveAt, UninitSteps, CloseIr, DeletePlayback,
         ReleaseDisplay, CloseSurface, CancelThreads, JoinMain, DeleteVout,
         ClosePlatform, TakeDown, Core, Pieces
<1>5. ThreadInv'
  BY <1>2
     DEF ThreadInv, MainExists, UninitSteps, CloseIr, DeletePlayback,
         ReleaseDisplay, CloseSurface, CancelThreads, JoinMain, DeleteVout,
         ClosePlatform, TakeDown, mainVars, hdmiVars, TypeOK
<1>6. RectInv'
  BY DEF RectInv, UninitSteps, CloseIr, DeletePlayback, ReleaseDisplay,
         CloseSurface, CancelThreads, JoinMain, DeleteVout, ClosePlatform,
         TakeDown, rectVars
<1>7. QED
  BY <1>1, <1>3, <1>4, <1>5, <1>6

\* MAIN_thread moves only while it exists, and it only rewrites rect with
\* the value rect has had since LoadTvConfig first ran.
LEMMA ThreadStepsStep ==
  ASSUME IInv, MainSteps \/ HdmiWrites \/ HdmiDies
  PROVE  IInv'
<1> USE DEF IInv
<1>1. TypeOK'
  BY ThreadStepType
<1>2. UNCHANGED <<libVars, tvSystem, screenRect, cancelled, hdmi>>
  BY DEF MainSteps, MainExits, MainPolls, MainReads, AfterMessage, Handles,
         MainConfigures, MainSetsWindow, MainGoes, HdmiWrites, HdmiDies,
         rectVars, mainVars, hdmiVars
<1>3. CountInv' /\ LiveInv'
  BY <1>2 DEF CountInv, LiveInv, LiveAt, libVars
<1>4. ThreadInv'
  BY <1>2 DEF ThreadInv, MainExists, libVars, MainSteps, MainExits, MainPolls,
              MainReads, AfterMessage, Handles, MainConfigures,
              MainSetsWindow, MainGoes, HdmiWrites, HdmiDies, mainVars
<1>5. rect' = rect \/ rect' = tvSystem
  BY DEF MainSteps, MainExits, MainPolls, MainReads, AfterMessage, Handles,
         MainConfigures, MainSetsWindow, HdmiWrites, HdmiDies, rectVars
<1>6. RectInv'
  BY <1>2, <1>5 DEF RectInv, libVars
<1>7. QED
  BY <1>1, <1>3, <1>4, <1>6

LEMMA StepPreserves == IInv /\ [Next]_vars => IInv'
<1> SUFFICES ASSUME IInv, [Next]_vars PROVE IInv'
  OBVIOUS
<1>1. CASE UNCHANGED vars
  BY <1>1 DEF IInv, TypeOK, CountInv, LiveInv, LiveAt, ThreadInv, MainExists,
              RectInv, vars, libVars, rectVars, mainVars, hdmiVars
<1>2. CASE Next
  BY <1>2, CallInitStep, CallUninitStep, InitStepsStep, UninitStepsStep,
     ThreadStepsStep DEF Next
<1>3. QED
  BY <1>1, <1>2

THEOREM Inductive == Spec => []IInv
  BY InitEstablishes, StepPreserves, PTL DEF Spec

-----------------------------------------------------------------------------
(* The properties *)

\* Every variable of the life cycle keeps its type.
THEOREM TypeCorrect == Spec => []TypeOK
<1>1. IInv => TypeOK
  BY DEF IInv
<1>2. QED
  BY <1>1, Inductive, PTL

\* initcount is the number of references out, for any number of clients.
THEOREM CountCorrect == Spec => []CountMatchesHolders
<1>1. IInv => CountMatchesHolders
  BY DEF IInv, CountInv, CountMatchesHolders
<1>2. QED
  BY <1>1, Inductive, PTL

\* A client that holds a reference finds every piece of the library up.
THEOREM HoldersSafe == Spec => []HoldersSeeWholeLibrary
<1>1. IInv => HoldersSeeWholeLibrary
  <2> SUFFICES ASSUME IInv, holders # {} PROVE live = Pieces
    BY DEF HoldersSeeWholeLibrary
  <2>1. pc = "idle"
    BY DEF IInv, CountInv
  <2>2. initcount # 0
    <3>1. IsFiniteSet(holders) /\ Cardinality(holders) \in Nat
      BY FS_CardinalityType DEF IInv, CountInv
    <3>2. Cardinality(holders) # 0
      BY <3>1, FS_EmptySet
    <3>3. QED
      BY <2>1, <3>1, <3>2 DEF IInv, CountInv, InitPcs
  <2>3. QED
    BY <2>1, <2>2 DEF IInv, LiveInv, LiveAt
<1>2. QED
  BY <1>1, Inductive, PTL

\* LoadTvConfig never runs on MAIN_thread after g_vo is deleted.
THEOREM MainThreadSafe == Spec => []MainThreadNeverUsesDeadVout
<1>1. IInv => MainThreadNeverUsesDeadVout
  BY DEF IInv, ThreadInv, MainExists, LiveInv, LiveAt, Core, Pieces,
         MainThreadNeverUsesDeadVout
<1>2. QED
  BY <1>1, Inductive, PTL

\* Every piece goes down before what it is built on.
THEOREM LifetimesCorrect == Spec => []LifetimesNest
<1>1. IInv => LifetimesNest
  BY DEF IInv, TypeOK, InitPcs, UninitPcs, LiveInv, LiveAt, Core, Pieces,
         Needs, LifetimesNest
<1>2. QED
  BY <1>1, Inductive, PTL

\* The screen surface keeps the size getScreenRect() tells the clients.
THEOREM ScreenCorrect == Spec => []ScreenMatchesRect
<1>1. IInv => ScreenMatchesRect
  BY DEF IInv, TypeOK, InitPcs, UninitPcs, LiveInv, LiveAt, Core, Pieces,
         RectInv, ScreenMatchesRect
<1>2. QED
  BY <1>1, Inductive, PTL

\* No second MAIN_thread, and nothing left once the last reference is gone.
THEOREM CleanUp == Spec => [](OneMainThread /\ NothingLeftWhenUnused)
<1>1. IInv => OneMainThread /\ NothingLeftWhenUnused
  BY DEF IInv, ThreadInv, MainExists, LiveInv, LiveAt, OneMainThread,
         NothingLeftWhenUnused
<1>2. QED
  BY <1>1, Inductive, PTL

\* No step shrinks the library while a client holds a reference.
THEOREM TakeDownSafe == Spec => TakenDownOnlyWhenUnheld
<1>1. IInv /\ [Next]_vars
        => [live' \subseteq live /\ live' # live
              => holders = {} /\ initcount = 0]_vars
  <2> SUFFICES ASSUME IInv, Next, live' \subseteq live, live' # live
               PROVE  holders = {} /\ initcount = 0
    OBVIOUS
  <2>1. CASE UninitSteps
    BY <2>1, FS_EmptySet
       DEF IInv, CountInv, UninitSteps, CloseIr, DeletePlayback,
           ReleaseDisplay, CloseSurface, CancelThreads, JoinMain, DeleteVout,
           ClosePlatform, TakeDown, InitPcs
  <2>2. CASE InitSteps
    BY <2>2 DEF InitSteps, LoadSettings, OpenPlatform, CreateVout, InitHDMI,
                CreateScreen, ShowScreen, CreatePlayback, OpenIr, BringUp
  <2>3. CASE \E c \in Clients : CallInit(c) \/ CallUninit(c)
    BY <2>3 DEF CallInit, CountUp, CallUninit, CountDown, LastReference
  <2>4. CASE MainSteps \/ HdmiWrites \/ HdmiDies
    BY <2>4 DEF MainSteps, MainExits, MainPolls, MainReads, AfterMessage,
                Handles, MainConfigures, MainSetsWindow, MainGoes, HdmiWrites,
                HdmiDies, libVars
  <2>5. QED
    BY <2>1, <2>2, <2>3, <2>4 DEF Next
<1>2. QED
  BY <1>1, Inductive, PTL DEF Spec, TakenDownOnlyWhenUnheld
=============================================================================
