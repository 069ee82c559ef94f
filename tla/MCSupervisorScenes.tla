------------------------ MODULE MCSupervisorScenes ------------------------
(* Several instances: a behaviour stays in the scene it starts in. *)
EXTENDS MCSupervisor

CONSTANT Scenes

VARIABLE scene

\* Pool: a job for each of three workers, nobody interferes.
\* Controls: two jobs for worker a, every control of a; the other workers
\* were stopped before.  Each with one fault.
\* Served: all workers, with two controls, or one and a fault.
InScene ==
  CASE scene = "pool" -> status'[4] = "absent" /\ controls' = 0
    [] scene = "controls" -> op'.stopping \subseteq {a} /\ \A i \in intents' : i.worker = a
    [] scene = "served" -> controls' + faults' <= 2

ScenesInit ==
  /\ scene \in Scenes
  /\ IF scene = "controls" THEN InitWith({b, c}) ELSE Init
ScenesNext == Next /\ InScene /\ UNCHANGED scene
ScenesSafety == ScenesInit /\ [][ScenesNext]_<<vars, scene>>
ScenesSpec == ScenesSafety /\ Fairness
=============================================================================
