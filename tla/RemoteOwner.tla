---------------------------- MODULE RemoteOwner -----------------------------
(***************************************************************************)
(* What the suspend/wake_up protocol of the input plugins promises: the    *)
(* remote control has one owner at a time, the user interface or an        *)
(* external program (the VDR front end, the movie player), and every key   *)
(* is read once, in the order of the presses, by whoever owns the remote   *)
(* when it is read.                                                        *)
(***************************************************************************)
EXTENDS Sequences

CONSTANT Keys

VARIABLES owner,     \* "ui" or "external"
          keys,      \* keys pressed and not read
          lastReader \* who read the last key, "nobody" before the first

vars == <<owner, keys, lastReader>>

Init == owner = "ui" /\ keys = <<>> /\ lastReader = "nobody"

Press ==
  /\ \E k \in Keys : keys' = Append(keys, k)
  /\ UNCHANGED <<owner, lastReader>>

OwnerReads ==
  /\ keys # <<>>
  /\ keys' = Tail(keys)
  /\ lastReader' = owner
  /\ UNCHANGED owner

ChangeOwner ==
  /\ owner' \in {"ui", "external"}
  /\ UNCHANGED <<keys, lastReader>>

Next == Press \/ OwnerReads \/ ChangeOwner
Spec == Init /\ [][Next]_vars
=============================================================================
