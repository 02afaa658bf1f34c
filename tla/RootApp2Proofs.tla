--------------------------- MODULE RootApp2Proofs ---------------------------
(***************************************************************************)
(* NoProgramAfterPowerOff of RootApp2, proved for any number of copies of  *)
(* the supervisor.                                                         *)
(***************************************************************************)
EXTENDS RootApp2, SequenceTheorems, TLAPS

-----------------------------------------------------------------------------
(* The inductive invariant *)

Sups == [pc : {"dvd", "inDvd", "inSystem", "judgeDvd", "sleep", "reboot",
               "other", "inOther", "judgeOther"},
         status : {0, 1, 88, 99}, powerdown : BOOLEAN]

TypeOK ==
  /\ sups \in Seq(Sups)
  /\ prog \in {"dvd", "other", "off", "none"}
  /\ machine \in {"on", "asleep"}
  /\ rebooting \in BOOLEAN /\ off \in BOOLEAN

\* The last supervisor waits for the program that runs.
Waits ==
  prog # "none" =>
    /\ sups # <<>>
    /\ Top.pc = CASE prog = "dvd" -> "inDvd" [] prog = "other" -> "inOther"
                  [] OTHER -> "inSystem"
    /\ prog = "off" => Top.powerdown

\* The way of a power-off through the supervisor: the exit code of the other
\* program becomes g_bPowerdown, that lets the player run without a screen,
\* and either of the two leads to sleep.
Underway(sup) ==
  \/ sup.pc = "judgeOther" /\ sup.status = 99
  \/ sup.pc \in {"dvd", "inSystem"} /\ sup.powerdown
  \/ sup.pc = "judgeDvd" /\ (sup.status = 99 \/ sup.powerdown)
  \/ sup.pc = "sleep"

PowerOffUnderway == off => machine = "on" /\ sups # <<>> /\ Underway(Top)

IInv == TypeOK /\ Waits /\ PowerOffUnderway

-----------------------------------------------------------------------------
(* The stack of supervisors *)

LEMMA TopIsSup ==
  ASSUME TypeOK, sups # <<>>
  PROVE  Top \in Sups /\ Below \in Seq(Sups)
<1>1. Len(sups) \in Nat \ {0} /\ sups \in [1..Len(sups) -> Sups]
  BY EmptySeq, LenProperties DEF TypeOK
<1>2. Top \in Sups
  BY <1>1 DEF Top, Last
<1>3. Below \in Seq(Sups)
  BY <1>1, SubSeqProperties DEF TypeOK, Below, Front
<1>4. QED
  BY <1>2, <1>3

\* The supervisor on top replaced by another one.
LEMMA BecomesTop ==
  ASSUME TypeOK, sups # <<>>, NEW sup \in Sups, Becomes(sup)
  PROVE  sups' \in Seq(Sups) /\ sups' # <<>> /\ Top' = sup
<1>1. Below \in Seq(Sups)
  BY TopIsSup
<1>2. /\ Append(Below, sup) \in Seq(Sups)
      /\ Len(Append(Below, sup)) = Len(Below) + 1
      /\ Append(Below, sup)[Len(Below) + 1] = sup
  BY <1>1, AppendProperties
<1>3. Append(Below, sup) # <<>>
  BY <1>1, AppendProperties
<1>4. QED
  BY <1>2, <1>3 DEF Becomes, Top, Last

-----------------------------------------------------------------------------
(* Every step keeps the invariant *)

\* Starting a program, with success and with its two failures, where no
\* power-off is under way.
LEMMA StartKeeps ==
  ASSUME IInv, ~off,
         \E from \in {"dvd", "other"} : 
           \/ RunChild(from, from) \/ ExecFails(from, from) \/ ForkFails(from)
  PROVE  IInv'
<1>1. PICK from \in {"dvd", "other"} :
        RunChild(from, from) \/ ExecFails(from, from) \/ ForkFails(from)
  OBVIOUS
<1>2. TypeOK /\ sups # <<>> /\ machine = "on" /\ Top.pc = from
  BY <1>1 DEF IInv, RunChild, ExecFails, ForkFails, At
<1>3. Top \in Sups /\ Below \in Seq(Sups)
  BY <1>2, TopIsSup
<1>4. prog = "none"
  BY <1>2, <1>1 DEF IInv, Waits, TypeOK
<1>5. CASE RunChild(from, from)
  <2> DEFINE in == IF from = "dvd" THEN "inDvd" ELSE "inOther"
  <2>1. [Top EXCEPT !.pc = in] \in Sups /\ [Top EXCEPT !.pc = in].pc = in
    BY <1>3 DEF Sups
  <2>2. Becomes([Top EXCEPT !.pc = in]) /\ prog' = from
        /\ UNCHANGED <<machine, rebooting, off>>
    BY <1>1, <1>5 DEF RunChild, Goto
  <2>3. sups' \in Seq(Sups) /\ sups' # <<>> /\ Top' = [Top EXCEPT !.pc = in]
    BY <1>2, <2>1, <2>2, BecomesTop
  <2>4. TypeOK'
    BY <1>2, <2>2, <2>3 DEF TypeOK
  <2>5. Waits'
    BY <2>1, <2>2, <2>3 DEF Waits
  <2>6. PowerOffUnderway'
    BY <2>2 DEF PowerOffUnderway
  <2>7. QED
    BY <2>4, <2>5, <2>6 DEF IInv
<1>6. CASE ExecFails(from, from)
  <2> DEFINE in == IF from = "dvd" THEN "inDvd" ELSE "inOther"
  <2>1. [Top EXCEPT !.pc = in] \in Sups /\ Returned(Top, 0) \in Sups
    BY <1>3 DEF Sups, Returned
  <2>2. sups' = Below \o <<[Top EXCEPT !.pc = in], Returned(Top, 0)>>
    BY <1>1, <1>6 DEF ExecFails
  <2>3. sups' \in Seq(Sups)
    BY <1>3, <2>1, <2>2, ConcatProperties
  <2>4. QED
    BY <1>2, <1>4, <1>6, <2>3 DEF IInv, TypeOK, Waits, PowerOffUnderway, ExecFails
<1>7. CASE ForkFails(from)
  <2>1. Below # <<>> => Last(Below) \in Sups /\ Front(Below) \in Seq(Sups)
    <3> SUFFICES ASSUME Below # <<>>
                 PROVE  Last(Below) \in Sups /\ Front(Below) \in Seq(Sups)
      OBVIOUS
    <3>1. Len(Below) \in Nat \ {0} /\ Below \in [1..Len(Below) -> Sups]
      BY <1>3, EmptySeq, LenProperties
    <3>2. QED
      BY <3>1, <1>3, SubSeqProperties DEF Last, Front
  <2>2. Below # <<>> => Returned(Last(Below), 1) \in Sups
    BY <2>1 DEF Returned, Sups
  <2>3. sups' \in Seq(Sups)
    BY <1>1, <1>7, <2>1, <2>2, AppendProperties, EmptySeq DEF ForkFails
  <2>4. QED
    BY <1>2, <1>4, <1>7, <2>3 DEF IInv, TypeOK, Waits, PowerOffUnderway, ForkFails
<1>8. QED
  BY <1>1, <1>5, <1>6, <1>7

\* A step that changes the supervisor on top only.
LEMMA SuperviseKeeps == IInv /\ Supervise => IInv'
<1> SUFFICES ASSUME IInv, Supervise PROVE IInv'
  OBVIOUS
<1>0. TypeOK /\ Waits /\ PowerOffUnderway
  BY DEF IInv
<1>1. CASE At("dvd") /\ RunDvdPlayer
  <2>1. ~off
    BY <1>0, <1>1 DEF PowerOffUnderway, Underway, RunDvdPlayer, At
  <2>2. QED
    BY <1>1, <2>1, StartKeeps DEF RunDvdPlayer
<1>2. CASE RunOtherProg
  <2>1. At("other")
    BY <1>2 DEF RunOtherProg, RunChild, ExecFails, ForkFails
  <2>2. ~off
    BY <1>0, <2>1 DEF PowerOffUnderway, Underway, At
  <2>3. QED
    BY <1>2, <2>2, StartKeeps DEF RunOtherProg
<1>3. CASE SwitchPlayerOff
  <2>1. sups # <<>> /\ Top \in Sups /\ Top.pc = "dvd" /\ Top.powerdown
    BY <1>0, <1>3, TopIsSup DEF SwitchPlayerOff, At
  <2> DEFINE sup == [Top EXCEPT !.pc = "inSystem"]
  <2>2. sup \in Sups /\ sup.pc = "inSystem" /\ sup.powerdown
    BY <2>1 DEF Sups
  <2>3. sups' \in Seq(Sups) /\ sups' # <<>> /\ Top' = sup
    BY <1>0, <1>3, <2>1, <2>2, BecomesTop DEF SwitchPlayerOff, Goto
  <2>4. QED
    BY <1>0, <1>3, <2>2, <2>3
       DEF IInv, TypeOK, Waits, PowerOffUnderway, Underway, SwitchPlayerOff, At
<1>4. CASE JudgeDvdPlayer
  <2>1. /\ sups # <<>> /\ Top \in Sups /\ Top.pc = "judgeDvd" /\ prog = "none"
        /\ UNCHANGED <<prog, machine, rebooting, off>> /\ machine = "on"
    BY <1>0, <1>4, TopIsSup DEF JudgeDvdPlayer, At, Waits, TypeOK
  <2>2. PICK sup \in Sups : 
          /\ Becomes(sup)
          /\ Top.status = 99 \/ Top.powerdown => sup.pc = "sleep"
    <3>1. /\ [Top EXCEPT !.pc = "sleep", !.powerdown = FALSE] \in Sups
          /\ [Top EXCEPT !.pc = "sleep", !.powerdown = FALSE].pc = "sleep"
          /\ [Top EXCEPT !.pc = "other"] \in Sups
          /\ [Top EXCEPT !.pc = "reboot"] \in Sups
      BY <2>1 DEF Sups
    <3>2. CASE Top.status = 99 \/ Top.powerdown
      <4>1. Becomes([Top EXCEPT !.pc = "sleep", !.powerdown = FALSE])
        BY <1>4, <2>1, <3>2, SMT DEF JudgeDvdPlayer, Becomes, Goto, Sups
      <4>2. QED
        BY <3>1, <4>1, Zenon
    <3>3. CASE ~(Top.status = 99 \/ Top.powerdown)
      BY <1>4, <3>1, <3>3 DEF JudgeDvdPlayer, Goto
    <3>4. QED
      BY <3>2, <3>3
  <2>3. sups' \in Seq(Sups) /\ sups' # <<>> /\ Top' = sup
    BY <1>0, <2>1, <2>2, BecomesTop
  <2>4. QED
    BY <1>0, <2>1, <2>2, <2>3
       DEF IInv, TypeOK, Waits, PowerOffUnderway, Underway
<1>5. CASE Sleep
  <2>1. sups # <<>> /\ Top \in Sups /\ Top.pc = "sleep" /\ prog = "none"
    BY <1>0, <1>5, TopIsSup DEF Sleep, At, Waits, TypeOK
  <2> DEFINE sup == [Top EXCEPT !.pc = "dvd"]
  <2>2. sup \in Sups
    BY <2>1 DEF Sups
  <2>3. sups' \in Seq(Sups)
    BY <1>0, <1>5, <2>1, <2>2, BecomesTop DEF Sleep, Goto
  <2>4. QED
    BY <1>0, <1>5, <2>1, <2>3 DEF IInv, TypeOK, Waits, PowerOffUnderway, Sleep
<1>6. CASE Reboot
  <2>1. /\ sups # <<>> /\ Top \in Sups /\ Top.pc = "reboot" /\ prog = "none"
        /\ ~off
    BY <1>0, <1>6, TopIsSup
       DEF Reboot, At, Waits, TypeOK, PowerOffUnderway, Underway
  <2> DEFINE sup == [Top EXCEPT !.pc = "dvd"]
  <2>2. sup \in Sups
    BY <2>1 DEF Sups
  <2>3. sups' \in Seq(Sups)
    BY <1>0, <1>6, <2>1, <2>2, BecomesTop DEF Reboot, Goto
  <2>4. QED
    BY <1>0, <1>6, <2>1, <2>3 DEF IInv, TypeOK, Waits, PowerOffUnderway, Reboot
<1>7. CASE JudgeOtherProg
  <2>1. /\ sups # <<>> /\ Top \in Sups /\ Top.pc = "judgeOther" /\ prog = "none"
        /\ UNCHANGED <<prog, machine, rebooting, off>> /\ machine = "on"
    BY <1>0, <1>7, TopIsSup DEF JudgeOtherProg, At, Waits, TypeOK
  <2> DEFINE sup == [Top EXCEPT !.pc = "dvd", !.powerdown = (Top.status = 99)]
  <2>2. /\ sup \in Sups /\ sup.pc = "dvd"
        /\ sup.powerdown = (Top.status = 99)
    BY <2>1 DEF Sups
  <2>3. sups' \in Seq(Sups) /\ sups' # <<>> /\ Top' = sup
    BY <1>0, <1>7, <2>1, <2>2, BecomesTop DEF JudgeOtherProg
  <2>4. QED
    BY <1>0, <2>1, <2>2, <2>3
       DEF IInv, TypeOK, Waits, PowerOffUnderway, Underway
<1>8. QED
  BY <1>1, <1>2, <1>3, <1>4, <1>5, <1>6, <1>7 DEF Supervise

\* The end of a program, with or without a power-off.
LEMMA ProgramEndsKeeps == IInv /\ ProgramEnds => IInv'
<1> SUFFICES ASSUME IInv, ProgramEnds PROVE IInv'
  OBVIOUS
<1>1. /\ TypeOK /\ sups # <<>> /\ Top \in Sups /\ Top.pc \in {"inDvd", "inOther"}
      /\ machine = "on"
  BY TopIsSup DEF IInv, ProgramEnds, Waits
<1>2. PICK status \in {0, 88, 99} :
        Becomes(Returned(Top, status)) /\ off' = (status = 99)
  BY DEF ProgramEnds
<1> DEFINE sup == Returned(Top, status)
<1>3. /\ sup \in Sups /\ sup.pc \in {"judgeDvd", "judgeOther"}
      /\ sup.status = status
  BY <1>1 DEF Returned, Sups
<1>4. sups' \in Seq(Sups) /\ sups' # <<>> /\ Top' = sup
  BY <1>1, <1>2, <1>3, BecomesTop
<1>5. QED
  BY <1>1, <1>2, <1>3, <1>4
     DEF IInv, TypeOK, Waits, PowerOffUnderway, Underway, ProgramEnds

LEMMA PlayerOffKeeps == IInv /\ PlayerOff => IInv'
<1> SUFFICES ASSUME IInv, PlayerOff PROVE IInv'
  OBVIOUS
<1>1. TypeOK /\ sups # <<>> /\ Top \in Sups /\ Top.powerdown
  BY TopIsSup DEF IInv, PlayerOff, Waits
<1> DEFINE sup == [Top EXCEPT !.pc = "judgeDvd"]
<1>2. sup \in Sups /\ sup.pc = "judgeDvd" /\ sup.powerdown
  BY <1>1 DEF Sups
<1>3. sups' \in Seq(Sups) /\ sups' # <<>> /\ Top' = sup
  BY <1>1, <1>2, BecomesTop DEF PlayerOff, Goto
<1>4. QED
  BY <1>1, <1>2, <1>3
     DEF IInv, TypeOK, Waits, PowerOffUnderway, Underway, PlayerOff

LEMMA BoxKeeps == IInv /\ (WakeUp \/ Restart \/ UNCHANGED vars) => IInv'
<1> SUFFICES ASSUME IInv, WakeUp \/ Restart \/ UNCHANGED vars PROVE IInv'
  OBVIOUS
<1>1. CASE WakeUp
  BY <1>1 DEF WakeUp, IInv, TypeOK, Waits, PowerOffUnderway, Top
<1>2. CASE Restart
  <2>1. <<ColdStart>> \in Seq(Sups)
    BY DEF ColdStart, Sups
  <2>2. QED
    BY <1>2, <2>1 DEF Restart, IInv, TypeOK, Waits, PowerOffUnderway
<1>3. CASE UNCHANGED vars
  BY <1>3 DEF vars, IInv, TypeOK, Waits, PowerOffUnderway, Top
<1>4. QED
  BY <1>1, <1>2, <1>3

\* The supervisor on top waits for the program that runs, and a power-off is
\* on its way to sleep in every state between the exit code and the sleep.
THEOREM Inductive == Spec => []IInv
<1>1. Init => IInv
  <2> SUFFICES ASSUME Init PROVE IInv
    OBVIOUS
  <2>1. sups \in Seq(Sups)
    BY DEF Init, ColdStart, Sups
  <2>2. QED
    BY <2>1 DEF Init, IInv, TypeOK, Waits, PowerOffUnderway
<1>2. IInv /\ [Next]_vars => IInv'
  BY SuperviseKeeps, ProgramEndsKeeps, PlayerOffKeeps, BoxKeeps DEF Next
<1>3. QED
  BY <1>1, <1>2, PTL DEF Spec

\* After a power-off no program is started until the box has slept or
\* restarted, however many copies of the supervisor failed execs have left.
THEOREM PowerOffIsFinal == Spec => NoProgramAfterPowerOff
<1>1. ASSUME IInv, [Next]_vars, prog' \in {"dvd", "other"}, prog' # prog
      PROVE  ~off
  <2>1. Next
    BY <1>1 DEF vars
  <2>2. CASE At("dvd") /\ RunDvdPlayer
    BY <1>1, <2>2 DEF IInv, PowerOffUnderway, Underway, RunDvdPlayer, At
  <2>3. CASE RunOtherProg
    BY <1>1, <2>3 DEF IInv, PowerOffUnderway, Underway, RunOtherProg, RunChild,
                      ExecFails, ForkFails, At
  <2>4. QED
    BY <1>1, <2>1, <2>2, <2>3
       DEF Next, Supervise, SwitchPlayerOff, JudgeDvdPlayer, Sleep, Reboot,
           JudgeOtherProg, ProgramEnds, PlayerOff, WakeUp, Restart
<1>2. IInv /\ [Next]_vars
        => [(prog' \in {"dvd", "other"} /\ prog' # prog) => ~off]_vars
  BY <1>1
<1>3. QED
  BY <1>2, Inductive, PTL DEF Spec, NoProgramAfterPowerOff
=============================================================================
