\* Two devices of one pod both route the on-link prefix in the main table.
CONSTANTS
  w1 = w1  w2 = w2  w3 = w3  n1 = n1  n2 = n2  l1 = l1  l2 = l2
  p1 = p1  p2 = p2  g1 = g1  m1 = m1
  NoIP = NoIP  NoPrefix = NoPrefix  NoVRF = NoVRF  NoTable = NoTable
  NoMaster = NoMaster
  Workers <- MCWorkers
  Namespaces = {n1}
  Links = {l1, l2}
  Prefixes = {p1, p2}
  IPs = {g1}
  Macs = {m1}
  VRFNames = {"red", "green"}
  NsOf <- MCNsOf
  LinkOf <- MCLinkOf
  Candidates <- CandidatesSameDst
  CoveredBy <- MCCoveredBy
  FNV32a <- MCFNV32a
  VRFTableOffset = 1000
  MaxRetries = 1
  KernelFaults = FALSE
SPECIFICATION Spec
INVARIANT SuccessImpliesOwnRoutes
