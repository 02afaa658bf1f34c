------------------------------ MODULE RtdInput ------------------------------
(***************************************************************************)
(* The remote control in MMS: the thread of RtdInp (rtdinp.cpp) reads keys *)
(* from the IR device and queues them in InputMaster; the main thread takes*)
(* them with get_input and, for TV or a movie, takes the remote away from  *)
(* the input thread with suspend(), reads the IR device itself, and gives  *)
(* it back with wake_up().                                                 *)
(*                                                                         *)
(* ost::Event (commoncpp2) is modelled at the steps of its users: signal   *)
(* releases a thread that already waits and leaves the flag set, wait      *)
(* passes while the flag is set, reset clears the flag without the lock.   *)
(***************************************************************************)
EXTENDS Integers, Sequences

CONSTANTS
  Mapped,    \* keys of rtd_keymap that MMS has a command for
  Unmapped,  \* the other keys
  TvKey,     \* the key whose command starts the TV or a movie
  HomeKey,   \* the key that ends it
  MaxKeys    \* bound: keys waiting in the IR device

Keys == Mapped \cup Unmapped

ASSUME KeysAssumption  == {TvKey, HomeKey} \subseteq Mapped
ASSUME BoundAssumption == MaxKeys \in Nat

VARIABLES
  mpc,       \* where the main thread is
  ipc,       \* where the input thread is
  suspended, \* RtdInp::suspended
  evSuspended, evWakeup, inputReady,  \* the _signaled flags of the events
  irReady,   \* what the input thread's last select said
  key,       \* the key the input thread holds
  inputs,    \* InputMaster::inputs
  keys,      \* keys the IR device holds
  lastReader \* history: who read the last key from the device

shared  == <<suspended, evSuspended, evWakeup>>
queue   == <<inputs, inputReady>>
device  == <<keys, lastReader>>
locals  == <<irReady, key>>
vars    == <<mpc, ipc, shared, queue, device, locals>>

GetInputPcs  == {"ui", "blockedInput", "resetInput", "pop"}
SuspendPcs   == {"acquire", "waitSuspended", "blockedSuspended",
                 "resetSuspended"}
ExternalPcs  == {"external", "readKey"}
ReleasePcs   == {"release", "signalWakeup"}
InputPcs     == {"select", "check", "getkey", "add", "signalSuspended",
                 "waitWakeup", "blockedWakeup", "resetWakeup"}

Init ==
  /\ mpc = "ui" /\ ipc = "select"
  /\ suspended = FALSE
  /\ evSuspended = FALSE /\ evWakeup = FALSE /\ inputReady = FALSE
  /\ irReady = FALSE /\ key \in Unmapped
  /\ inputs = <<>>
  /\ keys = <<>> /\ lastReader = "nobody"

\* Where a signal takes a thread that waits, and one that does not.
Released(pc, blocked, next) == IF pc = blocked THEN next ELSE pc

-----------------------------------------------------------------------------
(* The main thread: get_input *)

GetInput ==
  /\ mpc = "ui"
  /\ mpc' = IF inputReady THEN "resetInput" ELSE "blockedInput"
  /\ UNCHANGED <<ipc, shared, queue, device, locals>>

ResetInput ==
  /\ mpc = "resetInput"
  /\ mpc' = "pop"
  /\ inputReady' = FALSE
  /\ UNCHANGED <<ipc, shared, inputs, device, locals>>

\* Without an entry the caller gets an empty Input.
PopInput ==
  /\ mpc = "pop"
  /\ IF inputs = <<>>
       THEN mpc' = "ui" /\ UNCHANGED inputs
       ELSE /\ inputs' = Tail(inputs)
            /\ mpc' = IF Head(inputs) = TvKey THEN "acquire" ELSE "ui"
  /\ UNCHANGED <<ipc, shared, inputReady, device, locals>>

-----------------------------------------------------------------------------
(* The main thread: suspend, the external program, wake_up *)

SetSuspended ==
  /\ mpc = "acquire"
  /\ mpc' = "waitSuspended"
  /\ suspended' = TRUE
  /\ UNCHANGED <<ipc, evSuspended, evWakeup, queue, device, locals>>

\* (Variant: suspend does not wait for the input thread.)
SuspendAtOnce ==
  /\ mpc = "waitSuspended"
  /\ mpc' = "resetSuspended"
  /\ UNCHANGED <<ipc, shared, queue, device, locals>>

WaitSuspended ==
  /\ mpc = "waitSuspended"
  /\ mpc' = IF evSuspended THEN "resetSuspended" ELSE "blockedSuspended"
  /\ UNCHANGED <<ipc, shared, queue, device, locals>>

ResetSuspended ==
  /\ mpc = "resetSuspended"
  /\ mpc' = "external"
  /\ evSuspended' = FALSE
  /\ UNCHANGED <<ipc, suspended, evWakeup, queue, device, locals>>

\* The external program polls: select first, ir_getkey only with a key there.
ExternalSelects ==
  /\ mpc = "external" /\ keys # <<>>
  /\ mpc' = "readKey"
  /\ UNCHANGED <<ipc, shared, queue, device, locals>>

ExternalReads ==
  /\ mpc = "readKey" /\ keys # <<>>
  /\ mpc' = IF Head(keys) = HomeKey THEN "release" ELSE "external"
  /\ keys' = Tail(keys)
  /\ lastReader' = "external"
  /\ UNCHANGED <<ipc, shared, queue, locals>>

\* The stream or the movie is over, or could not be started.
ExternalEnds ==
  /\ mpc = "external"
  /\ mpc' = "release"
  /\ UNCHANGED <<ipc, shared, queue, device, locals>>

ClearSuspended ==
  /\ mpc = "release"
  /\ mpc' = IF suspended THEN "signalWakeup" ELSE "ui"
  /\ suspended' = FALSE
  /\ UNCHANGED <<ipc, evSuspended, evWakeup, queue, device, locals>>

\* (Variant: the flag alone is thought to be enough.)
NoSignal ==
  /\ mpc = "signalWakeup"
  /\ mpc' = "ui"
  /\ UNCHANGED <<ipc, shared, queue, device, locals>>

SignalWakeup ==
  /\ mpc = "signalWakeup"
  /\ mpc' = "ui"
  /\ evWakeup' = TRUE
  /\ ipc' = Released(ipc, "blockedWakeup", "resetWakeup")
  /\ UNCHANGED <<suspended, evSuspended, queue, device, locals>>

-----------------------------------------------------------------------------
(* The input thread: RtdInp::run *)

\* select with a timeout of 100 ms: it returns with a key or without one.
Select ==
  /\ ipc = "select"
  /\ ipc' = "check"
  /\ irReady' = (keys # <<>>)
  /\ UNCHANGED <<mpc, shared, queue, device, key>>

CheckSuspended ==
  /\ ipc = "check"
  /\ ipc' = IF suspended THEN "signalSuspended"
            ELSE IF irReady THEN "getkey" ELSE "select"
  /\ UNCHANGED <<mpc, shared, queue, device, locals>>

\* (Variant: the thread acknowledges and goes on.)
SignalAndGoOn ==
  /\ ipc = "signalSuspended"
  /\ ipc' = "select"
  /\ evSuspended' = TRUE
  /\ mpc' = Released(mpc, "blockedSuspended", "resetSuspended")
  /\ UNCHANGED <<suspended, evWakeup, queue, device, locals>>

SignalSuspended ==
  /\ ipc = "signalSuspended"
  /\ ipc' = "waitWakeup"
  /\ evSuspended' = TRUE
  /\ mpc' = Released(mpc, "blockedSuspended", "resetSuspended")
  /\ UNCHANGED <<suspended, evWakeup, queue, device, locals>>

WaitWakeup ==
  /\ ipc = "waitWakeup"
  /\ ipc' = IF evWakeup THEN "resetWakeup" ELSE "blockedWakeup"
  /\ UNCHANGED <<mpc, shared, queue, device, locals>>

ResetWakeup ==
  /\ ipc = "resetWakeup"
  /\ ipc' = "select"
  /\ evWakeup' = FALSE
  /\ UNCHANGED <<mpc, suspended, evSuspended, queue, device, locals>>

\* ir_getkey blocks in read until the device has a key.
GetKey ==
  /\ ipc = "getkey" /\ keys # <<>>
  /\ key' = Head(keys)
  /\ keys' = Tail(keys)
  /\ lastReader' = "ui"
  /\ ipc' = IF key' \in Mapped THEN "add" ELSE "select"
  /\ UNCHANGED <<mpc, shared, queue, irReady>>

\* add_input, under inputs_mutex: a key that comes while another waits is
\* dropped.
SignalInput == /\ inputReady' = TRUE
               /\ mpc' = Released(mpc, "blockedInput", "resetInput")

PulseOnly ==   \* (variant: the event does not remember the signal)
  /\ ipc = "add"
  /\ ipc' = "select"
  /\ inputs' = IF inputs = <<>> THEN <<key>> ELSE inputs
  /\ mpc' = Released(mpc, "blockedInput", "resetInput")
  /\ UNCHANGED <<inputReady, shared, device, locals>>

AddInput ==
  /\ ipc = "add"
  /\ ipc' = "select"
  /\ IF inputs = <<>> THEN inputs' = <<key>> /\ SignalInput
                      ELSE UNCHANGED <<queue, mpc>>
  /\ UNCHANGED <<shared, device, locals>>

-----------------------------------------------------------------------------
PressKey ==
  /\ Len(keys) < MaxKeys
  /\ \E k \in Keys : keys' = Append(keys, k)
  /\ UNCHANGED <<mpc, ipc, shared, queue, locals, lastReader>>

MainThread  == \/ GetInput \/ ResetInput \/ PopInput
               \/ SetSuspended \/ WaitSuspended \/ ResetSuspended
               \/ ExternalSelects \/ ExternalReads \/ ExternalEnds
               \/ ClearSuspended \/ SignalWakeup
InputThread == \/ Select \/ CheckSuspended \/ SignalSuspended \/ WaitWakeup
               \/ ResetWakeup \/ GetKey \/ AddInput

Next == MainThread \/ InputThread \/ PressKey
Spec == Init /\ [][Next]_vars

\* Both threads run; nobody has to press a key and no programme has to end.
FairSpec == Spec /\ WF_vars(MainThread) /\ WF_vars(InputThread)

-----------------------------------------------------------------------------
(* Properties *)

TypeOK ==
  /\ mpc \in GetInputPcs \cup SuspendPcs \cup ExternalPcs \cup ReleasePcs
  /\ ipc \in InputPcs
  /\ suspended \in BOOLEAN /\ evSuspended \in BOOLEAN
  /\ evWakeup \in BOOLEAN /\ inputReady \in BOOLEAN /\ irReady \in BOOLEAN
  /\ key \in Keys
  /\ inputs \in Seq(Keys) /\ Len(inputs) <= 1
  /\ keys \in Seq(Keys)
  /\ lastReader \in {"nobody", "ui", "external"}

\* From the return of suspend() to wake_up() the input thread does nothing
\* but wait: no key of a TV session is looked at, or taken, by MMS.
InputThreadParked ==
  mpc \in ExternalPcs \cup {"release"} =>
    ipc \in {"waitWakeup", "blockedWakeup"}

\* A thread that calls the blocking ir_getkey after its select finds the key
\* still there: the other reader has not taken it in between.
NobodyBlocksInRead ==
  /\ ipc = "getkey"  => keys # <<>>
  /\ mpc = "readKey" => keys # <<>>

\* A queued command is never forgotten: input_ready is set, or get_input has
\* already seen it set, although reset() takes no lock; and get_input never
\* wakes up to an empty queue: the caller gets a command.
QueuedInputIsAnnounced ==
  /\ inputs # <<>> => inputReady \/ mpc \in {"resetInput", "pop"}
  /\ mpc \in {"resetInput", "pop"} => inputs # <<>>

\* The protocol keeps what RemoteOwner promises; the remote belongs to the
\* external program from the return of suspend() to wake_up().
Owner == INSTANCE RemoteOwner WITH
           owner <- IF mpc \in ExternalPcs \cup {"release"} THEN "external"
                                                            ELSE "ui"
OwnerSpec == Owner!Spec

\* suspend() returns, however the input thread is placed when it is called,
\* and after wake_up() the input thread reads the remote again.
HandoverCompletes ==
  /\ mpc = "acquire" ~> mpc = "external"
  /\ mpc = "signalWakeup" ~> ipc = "select"

\* Somebody always reads the remote: a full device does not stay full.
KeysAreRead == Len(keys) = MaxKeys ~> Len(keys) < MaxKeys
=============================================================================
