SPECIFICATION FairSpec
CONSTANTS
  s1 = s1
  s2 = s2
  query = query
  logs = logs
  Turns = {t1, t2}
  Tools = {query, logs}
  None = None
  Servers <- MCServers
  Offers <- MCOffers
  Enabled <- MCEnabled
  Stateful = {s2}
  Wires <- MCWires
  TextParts = 2
  ArgsParts = 2
  MaxAttempts = 2
  Threshold = 2
  Cooldown = 1
  Pool = 1
  Rounds = 1
INVARIANTS NothingPartial AloneIsRight
PROPERTIES Completes FailsBack Recovers EveryPostHandled
