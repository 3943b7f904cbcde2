SPECIFICATION Spec
CONSTANTS
  teh = teh
  ifr = ifr
  web = web
  mine = mine
  other = other
  uid = uid
  pods = pods
  debug = debug
  nodes = nodes
  board = board
  vmstat = vmstat
  book = book
  None = None
  Clusters = {teh, ifr, web}
  Namespaces = {mine, other}
  Ids = {uid}
  Tools = {pods, debug, nodes, board, vmstat, book}
  Rule <- MCRule
  Scope <- MCScope
  AdminOn <- MCAdminOn
  Identified = TRUE
  Known = {}
  Grants <- MCGrants
  Records <- MCRecords
  Outputs <- MCOutputs
  Calls <- MCCalls
  MaxCalls = 2
  MaxIter = 3
  MaxNudges = 1
  MaxContinuations = 2
  ResultRunes = 2
  RoundRunes = 3
  ConversationRunes = 6
  FilterBytes = 4
  Notice = 1
INVARIANT ContinuationSeesTheCut
