\* Two devices of pod namespace n1 and one of n2 (on a link named like the
\* first's) join VRF red, with faults on the VRF path and one re-invocation
\* each: every step only adds to the kernel state of one namespace.
CONSTANTS
  w1 = w1  w2 = w2  w3 = w3  n1 = n1  n2 = n2  l1 = l1  l2 = l2
  p1 = p1  p2 = p2  g1 = g1  m1 = m1
  NoIP = NoIP  NoPrefix = NoPrefix  NoVRF = NoVRF  NoTable = NoTable
  NoMaster = NoMaster
  Workers <- MCWorkers3
  Namespaces = {n1, n2}
  Links = {l1, l2}
  Prefixes = {p1, p2}
  IPs = {g1}
  Macs = {m1}
  VRFNames = {"red", "green"}
  NsOf <- MCNsOf3
  LinkOf <- MCLinkOf3
  Candidates <- CandidatesTwoNs
  CoveredBy <- MCCoveredBy
  FNV32a <- MCFNV32a
  VRFTableOffset = 1000
  MaxRetries = 1
  KernelFaults = TRUE
SPECIFICATION Spec
PROPERTIES KernelRefinement
