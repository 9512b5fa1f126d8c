--------------------------- MODULE InstallLifecycle ---------------------------
(***************************************************************************)
(* What the supply of Pi installations promises its users, whatever its    *)
(* locks, plans and crashes: an installation that somebody holds stays     *)
(* available; it is retired only when nobody holds it, for good, and only  *)
(* what was retired is deleted.                                            *)
(***************************************************************************)
CONSTANTS Installs, Holders   \* Holders: those who may hold one

VARIABLES
  stage,    \* where each installation is in its life
  holders   \* who holds it: callers, and processes they started

vars == <<stage, holders>>

Stages == {"unknown", "available", "retired", "gone"}

Init ==
  /\ stage = [i \in Installs |-> "unknown"]
  /\ holders = [i \in Installs |-> {}]

\* It is registered at the end of its publication, by who holds it then.
Register(i) ==
  /\ stage[i] = "unknown" /\ stage'[i] = "available"
  /\ holders'[i] \subseteq holders[i]

Hold(i) ==
  /\ stage[i] \in {"unknown", "available"} /\ stage'[i] = stage[i]
  /\ holders[i] \subseteq holders'[i]

Leave(i) == holders'[i] \subseteq holders[i] /\ stage'[i] = stage[i]

Retire(i) ==
  /\ stage[i] = "available" /\ stage'[i] = "retired"
  /\ holders[i] = {} /\ holders'[i] = {}

Delete(i) ==
  /\ stage[i] = "retired" /\ stage'[i] = "gone"
  /\ holders'[i] = holders[i]

\* Several may be retired in one step: a plan retires all or none.
Next ==
  \A i \in Installs : Register(i) \/ Hold(i) \/ Leave(i) \/ Retire(i) \/ Delete(i)

Spec == Init /\ [][Next]_vars
===============================================================================
