SPECIFICATION Spec
CONSTANTS
  l1 = l1  l2 = l2  w1 = w1  w2 = w2  p1 = p1  p2 = p2
  source = source  destination = destination
  Name = {l1, l2}
  Replica = {source, destination}
  Workload = {w1, w2}
  Pod = {p1, p2}
  Specs <- MCSpecs
  InitialReplica <- MCInitialReplica
  ReplicaSpecs <- MCReplicaSpecs
  Templates <- MCTemplates
  Shapes <- MCShapes
  None = None
  Budgets <- MCBudgets
SYMMETRY Symmetric
INVARIANTS RevisionKept SingleWriter WorkloadsExclusive 
 
CHECK_DEADLOCK FALSE
