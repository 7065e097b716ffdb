SPECIFICATION AdministrationSpec
CONSTANTS
  p1 = p1 p2 = p2 w1 = w1 w2 = w2
  Projects = {p1, p2}
  Workers = {w1, w2}
  MaxAttempts = 2
  MaxFaults = 2
  NoWorker = NoWorker NoProject = NoProject Unmarked = Unmarked
  base = base addon = addon o1 = o1 s1 = s1
  Plugins = {base, addon}
  Requires <- AddonRequiresBase
  Migrating = {base}
  DefaultEnabled = {base}
  Operators = {o1}
  Servers = {s1}
  Free = Free
  Dead = Dead
  MaxTroubles = 1
INVARIANTS PurgeSafe MigratedExactlyOnce ServedAsRecorded
PROPERTIES QueueWorks
CHECK_DEADLOCK FALSE
