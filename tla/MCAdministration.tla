--------------------------- MODULE MCAdministration ---------------------------
(* Two small instances checked in one run, side by side: the purge of        *)
(* projects, and the life of a default plugin with a migration and of an     *)
(* addon that depends on it.  They share no state; one moves, the other rests.*)
EXTENDS ProjectPurge, PluginLifecycle, TLC

CONSTANTS p1, p2, w1, w2, base, addon, o1, s1

AddonRequiresBase == (base :> {}) @@ (addon :> {base})

VARIABLE part

AdministrationInit == part \in {"purge", "plugins"} /\ Init /\ PluginInit
AdministrationNext ==
  \/ part = "purge" /\ Next /\ UNCHANGED <<pluginVars, part>>
  \/ part = "plugins" /\ PluginNext /\ UNCHANGED <<vars, part>>
AdministrationSpec ==
  /\ AdministrationInit
  /\ [][AdministrationNext]_<<vars, pluginVars, part>>
  /\ Fairness
=============================================================================
