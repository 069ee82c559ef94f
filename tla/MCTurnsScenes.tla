--------------------------- MODULE MCTurnsScenes ---------------------------
(* Several instances in one run: a behaviour stays in the scene it starts  *)
(* in.                                                                     *)
EXTENDS MCThreadTurns

CONSTANT Scenes

VARIABLE scene

\* Arrivals: two messages, one of which may arrive during the other's call.
\* Instructed: one message and an owner instruction, with controls and faults.
\* Controlled: one message, with controls and an edit or a fault.
\* Reminded: one message and its reminder, with faults and no control.
InScene ==
  CASE scene = "arrivals" -> epoch' = 0 /\ faults' = 0
    [] scene = "instructed" -> inbox'[m2] = "absent"
    [] scene = "controlled" -> inbox'[r1] = "absent" /\ faults' + edits' <= 1
    [] scene = "reminded" -> epoch' = 0

ScenesInit == Init /\ scene \in Scenes
ScenesNext == Next /\ InScene /\ UNCHANGED scene
ScenesSafety == ScenesInit /\ [][ScenesNext]_<<vars, scene>>
ScenesSpec == ScenesSafety /\ Fairness
=============================================================================
