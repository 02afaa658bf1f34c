------------------------------ MODULE OneFrame ------------------------------
(***************************************************************************)
(* What the renderer and the output device of MMS promise each other: they *)
(* take turns at one picture.  In its turn the renderer draws at most one  *)
(* frame into it, on top of a picture that is shown as a whole; in its     *)
(* turn the device shows all that was drawn, and only then gives the       *)
(* picture back.  Who does not keep to the turns leads them astray; then   *)
(* nothing is promised until the two have found back to the renderer's turn*)
(***************************************************************************)
CONSTANT Areas

VARIABLES turn,    \* "renderer", "device" or "astray"
          unshown  \* areas drawn and not shown yet

vars == <<turn, unshown>>

Init == turn = "device" /\ unshown = {}

DrawFrame ==
  /\ turn = "renderer" /\ unshown = {}
  /\ unshown' \in (SUBSET Areas) \ {{}}
  /\ UNCHANGED turn

HandOver == turn = "renderer" /\ turn' = "device" /\ UNCHANGED unshown

ShowAll == turn = "device" /\ unshown' = {} /\ UNCHANGED turn

GiveBack ==
  /\ turn = "device" /\ unshown = {}
  /\ turn' = "renderer"
  /\ UNCHANGED unshown

Disturb == turn # "astray" /\ turn' = "astray" /\ unshown' = {}

Recover == turn = "astray" /\ turn' = "renderer" /\ UNCHANGED unshown

Next == DrawFrame \/ HandOver \/ ShowAll \/ GiveBack \/ Disturb \/ Recover
Spec == Init /\ [][Next]_vars
=============================================================================
