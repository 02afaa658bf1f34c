--------------------------- MODULE RtdInputProofs ---------------------------
(***************************************************************************)
(* The safety properties of RtdInput, and that it implements RemoteOwner,  *)
(* proved for any sets of keys and any bound.                              *)
(***************************************************************************)
EXTENDS RtdInput, TLAPS

-----------------------------------------------------------------------------
(* The inductive invariant, in three parts                                 *)

\* The input thread is inside ev_wakeup.wait() and nobody has let it out.
Parked == ipc \in {"waitWakeup", "blockedWakeup"} /\ ~evWakeup

\* suspend/wake_up: which positions of the two threads go together.  The
\* suspended part of the main thread's cycle starts with a signal that only
\* the thread that parks sends, and ends with the one that releases it.
Handshake ==
  /\ suspended <=> mpc \in {"waitSuspended", "blockedSuspended",
                            "resetSuspended", "external", "readKey", "release"}
  /\ mpc \in {"resetSuspended", "signalWakeup", "release"} \cup ExternalPcs
       => Parked
  /\ evSuspended => Parked /\ mpc \in {"waitSuspended", "resetSuspended"}
  /\ ipc = "signalSuspended" =>
       /\ mpc \in {"waitSuspended", "blockedSuspended"}
       /\ ~evWakeup
  /\ evWakeup => ipc \in {"waitWakeup", "resetWakeup"}

\* get_input/add_input: the queue is full exactly from the signal to the pop.
QueueInv ==
  /\ inputs # <<>> <=> inputReady \/ mpc \in {"resetInput", "pop"}
  /\ mpc \in {"pop", "blockedInput"} => ~inputReady

\* A key select has shown to a thread is there when the thread reads it.
DeviceInv ==
  /\ ipc = "check" /\ irReady => keys # <<>>
  /\ ipc = "getkey"           => keys # <<>>
  /\ mpc = "readKey"          => keys # <<>>

IInv == TypeOK /\ Handshake /\ QueueInv /\ DeviceInv

-----------------------------------------------------------------------------
(* Type correctness *)

LEMMA TypeInit == Init => TypeOK
<1> SUFFICES ASSUME Init PROVE TypeOK
  OBVIOUS
<1>1. /\ suspended \in BOOLEAN /\ evSuspended \in BOOLEAN
      /\ evWakeup \in BOOLEAN /\ inputReady \in BOOLEAN /\ irReady \in BOOLEAN
  BY DEF Init
<1>2. /\ mpc \in GetInputPcs /\ ipc \in InputPcs
      /\ key \in Keys /\ lastReader \in {"nobody", "ui", "external"}
  BY DEF Init, Keys, GetInputPcs, InputPcs
<1>3. inputs \in Seq(Keys) /\ Len(inputs) <= 1 /\ keys \in Seq(Keys)
  BY DEF Init
<1>4. QED
  BY <1>1, <1>2, <1>3 DEF TypeOK

\* A step of the main thread keeps the types.
LEMMA MainType == TypeOK /\ MainThread => TypeOK'
<1> SUFFICES ASSUME TypeOK, MainThread PROVE TypeOK'
  OBVIOUS
<1> USE DEF TypeOK, GetInputPcs, SuspendPcs, ExternalPcs, ReleasePcs, InputPcs
<1>1. mpc' \in GetInputPcs \cup SuspendPcs \cup ExternalPcs \cup ReleasePcs
  BY DEF MainThread, GetInput, ResetInput, PopInput, SetSuspended,
         WaitSuspended, ResetSuspended, ExternalSelects, ExternalReads,
         ExternalEnds, ClearSuspended, SignalWakeup
<1>2. ipc' \in InputPcs
  BY DEF MainThread, GetInput, ResetInput, PopInput, SetSuspended,
         WaitSuspended, ResetSuspended, ExternalSelects, ExternalReads,
         ExternalEnds, ClearSuspended, SignalWakeup, Released
<1>3. /\ suspended' \in BOOLEAN /\ evSuspended' \in BOOLEAN
      /\ evWakeup' \in BOOLEAN /\ inputReady' \in BOOLEAN
      /\ irReady' \in BOOLEAN /\ key' \in Keys
      /\ lastReader' \in {"nobody", "ui", "external"}
  BY DEF MainThread, GetInput, ResetInput, PopInput, SetSuspended,
         WaitSuspended, ResetSuspended, ExternalSelects, ExternalReads,
         ExternalEnds, ClearSuspended, SignalWakeup, shared, queue, device,
         locals
<1>4. inputs' \in Seq(Keys) /\ Len(inputs') <= 1
  BY DEF MainThread, GetInput, ResetInput, PopInput, SetSuspended,
         WaitSuspended, ResetSuspended, ExternalSelects, ExternalReads,
         ExternalEnds, ClearSuspended, SignalWakeup, queue
<1>5. keys' \in Seq(Keys)
  BY DEF MainThread, GetInput, ResetInput, PopInput, SetSuspended,
         WaitSuspended, ResetSuspended, ExternalSelects, ExternalReads,
         ExternalEnds, ClearSuspended, SignalWakeup, device
<1>6. QED
  BY <1>1, <1>2, <1>3, <1>4, <1>5

\* So does a step of the input thread, and a key press.
LEMMA InputType == TypeOK /\ (InputThread \/ PressKey) => TypeOK'
<1> SUFFICES ASSUME TypeOK, InputThread \/ PressKey PROVE TypeOK'
  OBVIOUS
<1> USE DEF TypeOK, GetInputPcs, SuspendPcs, ExternalPcs, ReleasePcs, InputPcs
<1>1. mpc' \in GetInputPcs \cup SuspendPcs \cup ExternalPcs \cup ReleasePcs
  BY DEF InputThread, Select, CheckSuspended, SignalSuspended, WaitWakeup,
         ResetWakeup, GetKey, AddInput, SignalInput, PressKey, Released
<1>2. ipc' \in InputPcs
  BY DEF InputThread, Select, CheckSuspended, SignalSuspended, WaitWakeup,
         ResetWakeup, GetKey, AddInput, PressKey
<1>3. /\ suspended' \in BOOLEAN /\ evSuspended' \in BOOLEAN
      /\ evWakeup' \in BOOLEAN /\ inputReady' \in BOOLEAN
      /\ irReady' \in BOOLEAN
      /\ lastReader' \in {"nobody", "ui", "external"}
  BY DEF InputThread, Select, CheckSuspended, SignalSuspended, WaitWakeup,
         ResetWakeup, GetKey, AddInput, SignalInput, PressKey, shared, queue,
         device, locals
<1>4. key' \in Keys
  BY DEF InputThread, Select, CheckSuspended, SignalSuspended, WaitWakeup,
         ResetWakeup, GetKey, AddInput, PressKey, locals
<1>5. inputs' \in Seq(Keys) /\ Len(inputs') <= 1
  <2>1. inputs' = inputs \/ inputs' = <<key>>
    BY DEF InputThread, Select, CheckSuspended, SignalSuspended, WaitWakeup,
           ResetWakeup, GetKey, AddInput, PressKey, queue
  <2>2. key \in Keys /\ inputs \in Seq(Keys) /\ Len(inputs) <= 1
    OBVIOUS
  <2>3. CASE inputs' = inputs
    BY ONLY <2>2, <2>3
  <2>4. CASE inputs' = <<key>>
    <3>1. <<key>> \in Seq(Keys)
      BY <2>2
    <3>2. Len(<<key>>) = 1
      OBVIOUS
    <3>3. QED
      BY ONLY <3>1, <3>2, <2>4
  <2>5. QED
    BY <2>1, <2>3, <2>4
<1>6. keys' \in Seq(Keys)
  <2>1. \/ keys' = keys
        \/ keys # <<>> /\ keys' = Tail(keys)
        \/ \E k \in Keys : keys' = Append(keys, k)
    BY DEF InputThread, Select, CheckSuspended, SignalSuspended, WaitWakeup,
           ResetWakeup, GetKey, AddInput, PressKey, device
  <2>2. keys \in Seq(Keys)
    OBVIOUS
  <2>3. QED
    BY ONLY <2>1, <2>2
<1>7. QED
  BY <1>1, <1>2, <1>3, <1>4, <1>5, <1>6

-----------------------------------------------------------------------------
(* The invariant is inductive *)

LEMMA InitEstablishes == Init => IInv
<1> SUFFICES ASSUME Init PROVE IInv
  OBVIOUS
<1>1. Handshake
  BY DEF Init, Handshake, ExternalPcs, Parked
<1>2. QueueInv /\ DeviceInv
  BY DEF Init, QueueInv, DeviceInv
<1>3. QED
  BY <1>1, <1>2, TypeInit DEF IInv

\* The main thread: it waits in suspend() until the input thread has parked,
\* and lets it out in wake_up() only.
LEMMA MainStep == IInv /\ MainThread => IInv'
<1> SUFFICES ASSUME IInv, MainThread PROVE IInv'
  OBVIOUS
<1> USE DEF IInv
<1>1. TypeOK'
  BY MainType
<1>2. Handshake'
  BY DEF MainThread, GetInput, ResetInput, PopInput, SetSuspended,
         WaitSuspended, ResetSuspended, ExternalSelects, ExternalReads,
         ExternalEnds, ClearSuspended, SignalWakeup, Released, Handshake,
         Parked, ExternalPcs, shared, TypeOK
<1>3. QueueInv'
  BY DEF MainThread, GetInput, ResetInput, PopInput, SetSuspended,
         WaitSuspended, ResetSuspended, ExternalSelects, ExternalReads,
         ExternalEnds, ClearSuspended, SignalWakeup, QueueInv, queue, TypeOK
<1>4. DeviceInv'
  BY DEF MainThread, GetInput, ResetInput, PopInput, SetSuspended,
         WaitSuspended, ResetSuspended, ExternalSelects, ExternalReads,
         ExternalEnds, ClearSuspended, SignalWakeup, Released, DeviceInv,
         Handshake, Parked, ExternalPcs, device, locals
<1>5. QED
  BY <1>1, <1>2, <1>3, <1>4

\* The input thread: it acknowledges only a main thread that waits, and
\* reads a key only while that thread cannot.
LEMMA InputStep == IInv /\ (InputThread \/ PressKey) => IInv'
<1> SUFFICES ASSUME IInv, InputThread \/ PressKey PROVE IInv'
  OBVIOUS
<1> USE DEF IInv
<1>1. TypeOK'
  BY InputType
<1>2. Handshake'
  BY DEF InputThread, Select, CheckSuspended, SignalSuspended, WaitWakeup,
         ResetWakeup, GetKey, AddInput, SignalInput, PressKey, Released,
         Handshake, Parked, ExternalPcs, shared, TypeOK
<1>3. QueueInv'
  <2>1. CASE AddInput
    <3>1. <<key>> # <<>>
      OBVIOUS
    <3>2. QED
      BY <2>1, <3>1 DEF AddInput, SignalInput, Released, QueueInv, queue
  <2>2. CASE SignalSuspended
    BY <2>2 DEF SignalSuspended, Released, QueueInv, queue
  <2>3. CASE UNCHANGED <<mpc, queue>>
    BY <2>3 DEF QueueInv, queue
  <2>4. QED
    BY <2>1, <2>2, <2>3
       DEF InputThread, Select, CheckSuspended, WaitWakeup, ResetWakeup,
           GetKey, PressKey
<1>4. DeviceInv'
  <2>1. CASE GetKey
    BY <2>1 DEF GetKey, DeviceInv, Handshake, Parked, ExternalPcs
  <2>2. CASE PressKey
    <3>1. \A k \in Keys : Append(keys, k) # <<>>
      BY DEF TypeOK
    <3>2. QED
      BY <2>2, <3>1 DEF PressKey, DeviceInv, locals
  <2>3. CASE Select \/ CheckSuspended
    BY <2>3 DEF Select, CheckSuspended, DeviceInv, device, locals
  <2>4. CASE SignalSuspended \/ WaitWakeup \/ ResetWakeup \/ AddInput
    BY <2>4 DEF SignalSuspended, WaitWakeup, ResetWakeup, AddInput,
                SignalInput, Released, DeviceInv, device, locals
  <2>5. QED
    BY <2>1, <2>2, <2>3, <2>4 DEF InputThread
<1>5. QED
  BY <1>1, <1>2, <1>3, <1>4

THEOREM Inductive == Spec => []IInv
<1>1. IInv /\ [Next]_vars => IInv'
  <2> SUFFICES ASSUME IInv, [Next]_vars PROVE IInv'
    OBVIOUS
  <2>1. CASE UNCHANGED vars
    <3>1. TypeOK'
      BY <2>1 DEF IInv, TypeOK, vars, shared, queue, device, locals
    <3>2. Handshake' /\ QueueInv' /\ DeviceInv'
      BY <2>1 DEF IInv, Handshake, Parked, QueueInv, DeviceInv, vars, shared,
                  queue, device, locals
    <3>3. QED
      BY <3>1, <3>2 DEF IInv
  <2>2. QED
    BY <2>1, MainStep, InputStep DEF Next
<1>2. QED
  BY <1>1, InitEstablishes, PTL DEF Spec

-----------------------------------------------------------------------------
(* The properties *)

\* Every variable keeps its type, and the input queue never holds two.
THEOREM TypeCorrect == Spec => []TypeOK
  BY Inductive, PTL DEF IInv

\* While the external program runs, the input thread waits in ev_wakeup.
THEOREM ParkedWhileExternal == Spec => []InputThreadParked
<1>1. IInv => InputThreadParked
  BY DEF IInv, Handshake, Parked, InputThreadParked
<1>2. QED
  BY <1>1, Inductive, PTL

\* Neither thread blocks in ir_getkey on a key the other one took.
THEOREM NoBlockingRead == Spec => []NobodyBlocksInRead
<1>1. IInv => NobodyBlocksInRead
  BY DEF IInv, DeviceInv, NobodyBlocksInRead
<1>2. QED
  BY <1>1, Inductive, PTL

\* No queued command is forgotten and get_input never comes back empty.
THEOREM QueueCorrect == Spec => []QueuedInputIsAnnounced
<1>1. IInv => QueuedInputIsAnnounced
  BY DEF IInv, QueueInv, QueuedInputIsAnnounced
<1>2. QED
  BY <1>1, Inductive, PTL

\* RtdInput implements RemoteOwner: a read by the input thread is a read by
\* the owner "ui", one by the main thread a read by the owner "external".
THEOREM ImplementsOwner == Spec => OwnerSpec
<1>1. Init => Owner!Init
  BY DEF Init, Owner!Init, ExternalPcs
<1>2. IInv /\ [Next]_vars => [Owner!Next]_Owner!vars
  <2> SUFFICES ASSUME IInv, [Next]_vars PROVE [Owner!Next]_Owner!vars
    OBVIOUS
  <2> DEFINE owner == IF mpc \in ExternalPcs \cup {"release"} THEN "external"
                                                             ELSE "ui"
  <2>1. CASE UNCHANGED vars
    BY <2>1 DEF Owner!vars, vars, device
  <2>2. CASE GetKey
    <3>1. owner = "ui" /\ owner' = "ui"
      BY <2>2 DEF GetKey, IInv, Handshake, Parked, ExternalPcs
    <3>2. Owner!OwnerReads
      BY <2>2, <3>1 DEF GetKey, Owner!OwnerReads
    <3>3. QED
      BY <3>2 DEF Owner!Next
  <2>3. CASE ExternalReads
    <3>1. owner = "external" /\ owner' = "external"
      BY <2>3 DEF ExternalReads, ExternalPcs
    <3>2. Owner!OwnerReads
      BY <2>3, <3>1 DEF ExternalReads, Owner!OwnerReads
    <3>3. QED
      BY <3>2 DEF Owner!Next
  <2>4. CASE PressKey
    BY <2>4 DEF PressKey, Owner!Next, Owner!Press
  <2>5. CASE UNCHANGED device
    BY <2>5 DEF device, Owner!Next, Owner!ChangeOwner, ExternalPcs
  <2>6. QED
    BY <2>1, <2>2, <2>3, <2>4, <2>5
       DEF Next, MainThread, GetInput, ResetInput, PopInput, SetSuspended,
           WaitSuspended, ResetSuspended, ExternalSelects, ExternalEnds,
           ClearSuspended, SignalWakeup, InputThread, Select, CheckSuspended,
           SignalSuspended, WaitWakeup, ResetWakeup, AddInput
<1>3. QED
  BY <1>1, <1>2, Inductive, PTL DEF Spec, OwnerSpec, Owner!Spec
=============================================================================
