SPECIFICATION Spec
CONSTANTS
  c1 = c1
  c2 = c2
  k1 = k1
  k2 = k2
  i1 = i1
  i2 = i2
  i3 = i3
  Installs = {i1, i2}
  Users = {c1}
  Publishers = {c1}
  Cleaners = {k1}
  NoInstall = NoInstall
  Torn = Torn
  Window = 1
  Whole = 1
  MaxChecks = 3
  MaxActivations = 1
  MaxPlans = 1
  MaxRuns = 1
  MaxFaults = 1
  MaxWaiting = 1
CHECK_DEADLOCK FALSE
INVARIANT IntentCanBeCompleted
