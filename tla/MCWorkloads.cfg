SPECIFICATION MCSpec
CONSTANTS
  w1 = w1
  w2 = w2
  q1 = q1
  q2 = q2
  Place = {plat, cust}
  Platform = plat
  Ports <- SomePorts
  MaxDomains = 2
  Text = {a1}
  MaxEdits = 3
  MaxWrites = 2
  MaxOthers = 1
  Blank = Blank
  Workload = {w1, w2}
  Deployed = {w1}
  Request = {q1, q2}
  Built = {First, q1}
  Bundled = {q2}
  Tracked = {First, q1}
  MaxAttempts = 2
  MaxLosses = 1
  MaxRaces = 1
  Overlapping = TRUE
  First = First
  None = None
CHECK_DEADLOCK FALSE
INVARIANTS TypeOK AvailableIsDeployed ProvisioningIsUnderWay DesiredIsServed DeployedIsClicked SavedStays
