SPECIFICATION Spec
CONSTANTS
  auto = auto
  human = human
  s1 = s1
  cli = cli
  ide = ide
  agent = agent
  private = private
  work = work
  k1 = k1
  k2 = k2
  k3 = k3
  cA = cA
  cB = cB
  cC = cC
  v1 = v1
  slot1 = slot1
  none = none
  NONE = none
  Client = {auto, human}
  Session = {s1}
  Surface = {cli, ide}
  Agent = {agent}
  Scope = {private, work}
  Content = {cA, cB, cC}
  Value = {v1}
  Times <- MCTimes
  Grants <- MCGrants
  Correctors = {human}
  Resolvers = {human}
  Key = {k1, k2, k3}
  Slot = {slot1}
  Contexts <- HumanOnly
  Requests <- HistoryRequests
  Erasable = {1, 2, 3}
  Near = {}
  Embedding = FALSE
SYMMETRY KeySymmetry
INVARIANTS
  ConflictsResolvable
