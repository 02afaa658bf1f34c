------------------------------ MODULE RootApp2 ------------------------------
(***************************************************************************)
(* rootapp2, the first program of the box: it runs the DVD player and the  *)
(* other program (the shell script that starts MMS) in turn and acts on    *)
(* their exit codes: 99 puts the box to sleep, 88 of the player hands over *)
(* to the other program, anything else of the player reboots.              *)
(*                                                                         *)
(* run_child returns in the parent and, when execv fails, in the child as  *)
(* well: that child goes on as a copy of the supervisor, with status 0,    *)
(* while the parent waits for it.  The copies form a stack; only the last  *)
(* one acts.                                                               *)
(***************************************************************************)
EXTENDS Naturals, Sequences, SequencesExt

CONSTANT MaxCopies  \* bound: supervisors at a time

ASSUME BoundAssumption == MaxCopies \in Nat \ {0}

VARIABLES
  sups,      \* the supervisor and its copies
  prog,      \* the program that runs: "dvd", "other", "off" or none
  machine,   \* "on" or "asleep"
  rebooting, \* reboot has been called, the box is not down yet
  off        \* history: the viewer has switched off, the box is still on

vars == <<sups, prog, machine, rebooting, off>>

\* pc: the next step of run_dvd_player and run_other_prog; status: what the
\* last child returned; powerdown: g_bPowerdown.
ColdStart == [pc |-> "dvd", status |-> 0, powerdown |-> FALSE]

Init ==
  /\ sups = <<ColdStart>>
  /\ prog = "none" /\ machine = "on" /\ rebooting = FALSE /\ off = FALSE

-----------------------------------------------------------------------------
Top == Last(sups)

At(l) == machine = "on" /\ sups # <<>> /\ Top.pc = l

Below == Front(sups)

Becomes(sup) == sups' = Append(Below, sup)

Goto(l) == Becomes([Top EXCEPT !.pc = l])

\* run_child returns with a status: where the supervisor that called it goes on.
Returned(sup, status) ==
  [sup EXCEPT !.pc = IF @ \in {"dvd", "inDvd"} THEN "judgeDvd" ELSE "judgeOther",
              !.status = status]

\* fork and execv succeed.  A supervisor has one child at a time, so wait does
\* not return another one and the exit(1) behind it does not come up ...
RunChild(from, name) ==
  /\ At(from) /\ prog' = name
  /\ Goto(IF name = "dvd" THEN "inDvd" ELSE "inOther")
  /\ UNCHANGED <<machine, rebooting, off>>

\* ... execv fails: the child returns 0 ...
ExecFails(from, name) ==
  /\ At(from) /\ Len(sups) < MaxCopies
  /\ sups' = Below \o <<[Top EXCEPT !.pc = IF name = "dvd" THEN "inDvd" ELSE "inOther"],
                        Returned(Top, 0)>>
  /\ UNCHANGED <<prog, machine, rebooting, off>>

\* ... or fork fails and the supervisor exits with 1, for its parent to judge.
ForkFails(from) ==
  /\ At(from)
  /\ sups' = IF Below = <<>> THEN <<>>
             ELSE Append(Front(Below), Returned(Last(Below), 1))
  /\ UNCHANGED <<prog, machine, rebooting, off>>

-----------------------------------------------------------------------------
(* run_dvd_player *)

RunDvdPlayer ==
  /\ ~Top.powerdown
  /\ RunChild("dvd", "dvd") \/ ExecFails("dvd", "dvd") \/ ForkFails("dvd")

\* A power-off in the other program: the player only gets an "O" to read.
SwitchPlayerOff ==
  /\ At("dvd") /\ Top.powerdown
  /\ prog' = "off" /\ Goto("inSystem")
  /\ UNCHANGED <<machine, rebooting, off>>

\* (Variant: g_bPowerdown is not cleared.)
KeepPowerdown ==
  /\ At("judgeDvd")
  /\ CASE Top.status = 99 \/ Top.powerdown -> Goto("sleep")
       [] Top.status = 88 /\ ~Top.powerdown -> Goto("other")
       [] OTHER -> Goto("reboot")
  /\ UNCHANGED <<prog, machine, rebooting, off>>

JudgeDvdPlayer ==
  /\ At("judgeDvd")
  /\ CASE Top.status = 99 \/ Top.powerdown ->
            Becomes([Top EXCEPT !.pc = "sleep", !.powerdown = FALSE])
       [] Top.status = 88 /\ ~Top.powerdown -> Goto("other")
       [] OTHER -> Goto("reboot")
  /\ UNCHANGED <<prog, machine, rebooting, off>>

\* The modules go, the box sleeps and, woken, runs the player again.
Sleep ==
  /\ At("sleep")
  /\ Goto("dvd")
  /\ machine' = "asleep" /\ off' = FALSE
  /\ UNCHANGED <<prog, rebooting>>

\* The supervisor goes on if the box is not down after 20 seconds.
Reboot ==
  /\ At("reboot")
  /\ Goto("dvd")
  /\ rebooting' = TRUE
  /\ UNCHANGED <<prog, machine, off>>

-----------------------------------------------------------------------------
(* run_other_prog *)

RunOtherProg == RunChild("other", "other") \/ ExecFails("other", "other")
                \/ ForkFails("other")

\* (Variant: every end of the other program goes back to the player.)
IgnoreStatus ==
  /\ At("judgeOther")
  /\ Becomes([Top EXCEPT !.pc = "dvd", !.powerdown = FALSE])
  /\ UNCHANGED <<prog, machine, rebooting, off>>

JudgeOtherProg ==
  /\ At("judgeOther")
  /\ Becomes([Top EXCEPT !.pc = "dvd", !.powerdown = (Top.status = 99)])
  /\ UNCHANGED <<prog, machine, rebooting, off>>

-----------------------------------------------------------------------------
(* The programs and the box *)

\* A program ends: 0 also stands for a signal and for other codes.
ProgramEnds ==
  /\ machine = "on" /\ prog \in {"dvd", "other"}
  /\ \E status \in {0, 88, 99} :
       /\ Becomes(Returned(Top, status))
       /\ off' = (status = 99)
  /\ prog' = "none"
  /\ UNCHANGED <<machine, rebooting>>

\* system() drops the result of the player that was switched off.
PlayerOff ==
  /\ machine = "on" /\ prog = "off"
  /\ prog' = "none" /\ Goto("judgeDvd")
  /\ UNCHANGED <<machine, rebooting, off>>

WakeUp ==
  /\ machine = "asleep"
  /\ machine' = "on"
  /\ UNCHANGED <<sups, prog, rebooting, off>>

\* The reboot takes everything down and starts the box anew.
Restart ==
  /\ machine = "on" /\ rebooting
  /\ sups' = <<ColdStart>> /\ prog' = "none"
  /\ rebooting' = FALSE /\ off' = FALSE
  /\ UNCHANGED machine

Supervise ==
  \/ At("dvd") /\ RunDvdPlayer
  \/ SwitchPlayerOff \/ JudgeDvdPlayer \/ Sleep \/ Reboot
  \/ RunOtherProg \/ JudgeOtherProg

Next == Supervise \/ ProgramEnds \/ PlayerOff \/ WakeUp \/ Restart

Spec == Init /\ [][Next]_vars

\* The supervisor runs, and the player ends when it is told to.
FairSpec == Spec /\ WF_vars(Supervise) /\ WF_vars(PlayerOff)

-----------------------------------------------------------------------------
(* Properties *)

\* After a power-off (exit code 99 of either program) the viewer gets no
\* program again until the box has slept or restarted: the code travels from
\* run_other_prog through g_bPowerdown and a run of the player without screen.
NoProgramAfterPowerOff ==
  [][(prog' \in {"dvd", "other"} /\ prog' # prog) => ~off]_vars

\* The viewer gets a program again, after a wake-up as after any end of the
\* last one, unless he has switched off, the box reboots or fork failed in
\* every supervisor.  Failed execs and the copies they leave do not change it.
ProgramComesBack ==
  (machine = "on" /\ prog = "none" /\ ~off) ~>
    (prog \in {"dvd", "other"} \/ rebooting \/ off \/ sups = <<>>)

\* A power-off puts the box to sleep.
PowerOffSleeps == off ~> (~off)
=============================================================================
