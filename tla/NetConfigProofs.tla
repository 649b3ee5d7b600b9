--------------------------- MODULE NetConfigProofs ---------------------------
(***************************************************************************)
(* Proofs about the network configuration engine, for every value of the   *)
(* constants that satisfies the assumptions of NetConfig.                  *)
(***************************************************************************)
EXTENDS NetConfig, TLAPS

\* TypeOK is not inductive alone: a step of a loop reads the entry at an
\* index of pending, and the VRF steps read the VRF of the config.
PendingOK ==
  \A w \in Workers :
    /\ pc[w] = "routes" => pending[w] \subseteq DOMAIN cfg[w].routes
    /\ pc[w] = "neighbors" => pending[w] \subseteq DOMAIN cfg[w].neighbors
    /\ pc[w] = "rules" => pending[w] \subseteq DOMAIN cfg[w].rules
    /\ pc[w] \in {"vrf", "vrf_attach"} => cfg[w].vrf # NoVRF

TypeInv == TypeOK /\ PendingOK

(***************************************************************************)
(* What Default and ValidateConfig hand to the engine: a NetworkConfig     *)
(* whose VRF, if any, has a positive table.                                *)
(***************************************************************************)
LEMMA AcceptedConfig ==
  ASSUME NEW w \in Workers, NEW c \in Accepted(w)
  PROVE  /\ c \in NetworkConfig
         /\ c.vrf # NoVRF => c.vrf.table \in Nat \ {0}
<1>1. PICK d \in Candidates[w] : ValidateConfig(Default(d)) /\ c = Default(d)
  BY DEF Accepted
<1>2. d \in NetworkConfig
  BY CandidateAssumption
<1>3. CASE d.vrf # NoVRF /\ d.vrf.table = NoTable
  <2>1. VRFDefaultTable(d.vrf.name) \in Nat
    <3>1. d.vrf.name \in VRFNames
      BY <1>2, <1>3 DEF NetworkConfig, VRFConfig
    <3>2. QED
      BY <3>1, HashAssumption, OffsetAssumption DEF VRFDefaultTable
  <2>2. c = [d EXCEPT !.vrf = [name |-> d.vrf.name, table |-> VRFDefaultTable(d.vrf.name)]]
    BY <1>1, <1>3 DEF Default
  <2>3. c.vrf \in VRFConfig
    BY <1>2, <1>3, <2>1, <2>2 DEF NetworkConfig, VRFConfig
  <2>4. c \in NetworkConfig
    BY <1>2, <2>2, <2>3 DEF NetworkConfig
  <2>5. c.vrf.table = VRFDefaultTable(d.vrf.name)
    <3>1. d = [routes |-> d.routes, neighbors |-> d.neighbors, rules |-> d.rules,
               vrf |-> d.vrf]
      BY <1>2, Zenon DEF NetworkConfig
    <3>2. QED
      BY <2>2, <3>1, Zenon
  <2>6. c.vrf.table # NoTable
    <3>1. NoTable \notin Nat
      BY SentinelAssumption
    <3>2. QED
      BY <2>1, <2>5, <3>1, Zenon
  <2>7. QED
    BY <1>1, <2>3, <2>4, <2>6 DEF ValidateConfig, ValidVRF, VRFConfig
<1>4. CASE ~(d.vrf # NoVRF /\ d.vrf.table = NoTable)
  <2>1. c = d
    BY <1>1, <1>4 DEF Default
  <2>2. QED
    BY <1>1, <1>2, <1>4, <2>1 DEF ValidateConfig, ValidVRF, NetworkConfig, VRFConfig
<1>5. QED
  BY <1>3, <1>4

LEMMA InitTypeInv == Init => TypeInv
<1> SUFFICES ASSUME Init PROVE TypeInv
  OBVIOUS
<1>1. \A w \in Workers : /\ cfg[w] \in NetworkConfig
                         /\ cfg[w].vrf # NoVRF => cfg[w].vrf.table \in Nat \ {0}
  BY AcceptedConfig DEF Init
<1>2. TypeOK
  <2>1. cfg \in [Workers -> NetworkConfig]
    BY <1>1 DEF Init
  <2>2. /\ pc \in [Workers -> Phases]
        /\ pending \in [Workers -> SUBSET Nat]
        /\ errs \in [Workers -> SUBSET ErrorRec]
        /\ vrfTable \in [Workers -> Nat]
        /\ tries \in [Workers -> 0..MaxRetries]
    BY RetryAssumption DEF Init, Phases
  <2>3. /\ kroutes \in [Namespaces -> SUBSET KRoute]
        /\ kneighs \in [Namespaces -> SUBSET KNeigh]
        /\ krules \in [Namespaces -> SUBSET RuleConfig]
        /\ kvrf \in [Namespaces -> [VRFNames -> Nat]]
        /\ kup \in [Namespaces -> SUBSET VRFNames]
        /\ kmaster \in [Namespaces -> [Links -> VRFNames \cup {NoMaster}]]
        /\ ksysctl \in [Namespaces -> SUBSET {"tcp", "udp"}]
    BY DEF Init
  <2>4. QED
    BY <1>1, <2>1, <2>2, <2>3 DEF TypeOK
<1>3. PendingOK
  BY DEF Init, PendingOK
<1>4. QED
  BY <1>2, <1>3 DEF TypeInv

(***************************************************************************)
(* The shape of a configuration: its lists are sequences of entries of     *)
(* their types, and its VRF, if any, has a positive table.                 *)
(***************************************************************************)
LEMMA CfgFacts ==
  ASSUME TypeOK, NEW w \in Workers
  PROVE  /\ DOMAIN cfg[w].routes \subseteq Nat
         /\ DOMAIN cfg[w].neighbors \subseteq Nat
         /\ DOMAIN cfg[w].rules \subseteq Nat
         /\ \A i \in DOMAIN cfg[w].routes : cfg[w].routes[i] \in RouteConfig
         /\ \A i \in DOMAIN cfg[w].neighbors : cfg[w].neighbors[i] \in NeighborConfig
         /\ \A i \in DOMAIN cfg[w].rules : cfg[w].rules[i] \in RuleConfig
         /\ cfg[w].vrf # NoVRF => /\ cfg[w].vrf.name \in VRFNames
                                 /\ cfg[w].vrf.table \in Nat \ {0}
<1>1. cfg[w] \in NetworkConfig
  BY DEF TypeOK
<1>2. /\ cfg[w].routes \in Seq(RouteConfig)
      /\ cfg[w].neighbors \in Seq(NeighborConfig)
      /\ cfg[w].rules \in Seq(RuleConfig)
      /\ cfg[w].vrf \in VRFConfig \cup {NoVRF}
  BY <1>1 DEF NetworkConfig
<1>3. cfg[w].vrf # NoVRF => cfg[w].vrf.table \in Nat \ {0}
  BY DEF TypeOK
<1>4. QED
  BY <1>2, <1>3 DEF VRFConfig

\* TypeOK after a step that leaves the configurations alone
LEMMA CfgUnchanged ==
  ASSUME TypeOK, cfg' = cfg
  PROVE  /\ cfg' \in [Workers -> NetworkConfig]
         /\ \A w \in Workers : cfg'[w].vrf # NoVRF => cfg'[w].vrf.table \in Nat \ {0}
BY DEF TypeOK

(***************************************************************************)
(* TypeOK in three parts: the configurations, the state of the workers and *)
(* the kernel objects.  A step proves each part that it changes.           *)
(***************************************************************************)
CfgTypes ==
  /\ cfg \in [Workers -> NetworkConfig]
  /\ \A w \in Workers : cfg[w].vrf # NoVRF => cfg[w].vrf.table \in Nat \ {0}

WorkerTypes ==
  /\ pc \in [Workers -> Phases]
  /\ pending \in [Workers -> SUBSET Nat]
  /\ errs \in [Workers -> SUBSET ErrorRec]
  /\ vrfTable \in [Workers -> Nat]
  /\ tries \in [Workers -> 0..MaxRetries]

KernelTypes ==
  /\ kroutes \in [Namespaces -> SUBSET KRoute]
  /\ kneighs \in [Namespaces -> SUBSET KNeigh]
  /\ krules \in [Namespaces -> SUBSET RuleConfig]
  /\ kvrf \in [Namespaces -> [VRFNames -> Nat]]
  /\ kup \in [Namespaces -> SUBSET VRFNames]
  /\ kmaster \in [Namespaces -> [Links -> VRFNames \cup {NoMaster}]]
  /\ ksysctl \in [Namespaces -> SUBSET {"tcp", "udp"}]

LEMMA TypeOKParts ==
  /\ TypeOK <=> CfgTypes /\ WorkerTypes /\ KernelTypes
  /\ TypeOK' <=> CfgTypes' /\ WorkerTypes' /\ KernelTypes'
BY DEF TypeOK, CfgTypes, WorkerTypes, KernelTypes

(***************************************************************************)
(* Every step of the engine and of its caller preserves TypeInv.           *)
(***************************************************************************)
LEMMA NextTypeInv == TypeInv /\ [Next]_vars => TypeInv'
<1> SUFFICES ASSUME TypeInv, [Next]_vars PROVE TypeInv'
  OBVIOUS
<1>0. TypeOK /\ PendingOK
  BY DEF TypeInv
<1>1. ASSUME NEW w \in Workers, Start(w) PROVE TypeInv'
  <2>1. CfgTypes'
    BY <1>0, <1>1, CfgUnchanged DEF Start, CfgTypes
  <2>2. WorkerTypes'
    BY <1>0, <1>1, CfgFacts DEF Start, Begin, WorkerTypes, TypeOK, Phases
  <2>3. KernelTypes'
    BY <1>0, <1>1, CfgFacts DEF Start, Begin, KernelTypes, TypeOK, kernelVars
  <2>4. PendingOK'
    BY <1>0, <1>1 DEF Start, Begin, PendingOK, TypeOK
  <2>5. QED
    BY <2>1, <2>2, <2>3, <2>4, TypeOKParts DEF TypeInv
<1>2. ASSUME NEW w \in Workers, Retry(w) PROVE TypeInv'
  <2>1. CfgTypes'
    BY <1>0, <1>2, CfgUnchanged DEF Retry, CfgTypes
  <2>2. WorkerTypes'
    BY <1>0, <1>2, CfgFacts, RetryAssumption DEF Retry, Begin, RetryAllowed, WorkerTypes, TypeOK, Phases
  <2>3. KernelTypes'
    BY <1>0, <1>2, CfgFacts, RetryAssumption DEF Retry, Begin, RetryAllowed, KernelTypes, TypeOK, kernelVars
  <2>4. PendingOK'
    BY <1>0, <1>2 DEF Retry, Begin, RetryAllowed, PendingOK, TypeOK
  <2>5. QED
    BY <2>1, <2>2, <2>3, <2>4, TypeOKParts DEF TypeInv
<1>3. ASSUME NEW w \in Workers, VRFEnsure(w) PROVE TypeInv'
  <2>0. cfg[w].vrf # NoVRF
    BY <1>0, <1>3 DEF VRFEnsure, PendingOK
  <2>1. CfgTypes'
    BY <1>0, <1>3, CfgUnchanged DEF VRFEnsure, CfgTypes
  <2>a. cfg[w].vrf.name \in VRFNames /\ cfg[w].vrf.table \in Nat \ {0}
    BY <1>0, <2>0, CfgFacts
  <2>b. /\ pc' \in [Workers -> Phases]
        /\ errs' \in [Workers -> SUBSET ErrorRec]
        /\ kvrf' \in [Namespaces -> [VRFNames -> Nat]]
    <3>1. CASE kvrf[NsOf[w]][cfg[w].vrf.name] # 0
      BY <1>0, <1>3, <3>1 DEF VRFEnsure, TypeOK, Phases
    <3>2. CASE kvrf[NsOf[w]][cfg[w].vrf.name] = 0
      <4>1. PICK ok \in Outcomes :
              IF ok THEN /\ kvrf' = [kvrf EXCEPT ![NsOf[w]][cfg[w].vrf.name] = cfg[w].vrf.table]
                         /\ pc' = [pc EXCEPT ![w] = "vrf_attach"]
                         /\ UNCHANGED errs
                    ELSE /\ Fail(w)
                         /\ UNCHANGED kvrf
        BY <1>3, <3>2 DEF VRFEnsure
      <4>2. CASE ok
        <5>1. /\ kvrf' = [kvrf EXCEPT ![NsOf[w]][cfg[w].vrf.name] = cfg[w].vrf.table]
              /\ pc' = [pc EXCEPT ![w] = "vrf_attach"]
              /\ errs' = errs
          BY <4>1, <4>2, Zenon
        <5>2. QED
          BY <1>0, <5>1, <2>a, NsAssumption DEF TypeOK, Phases
      <4>3. CASE ~ok
        <5>1. Fail(w) /\ kvrf' = kvrf
          BY <4>1, <4>3, Zenon
        <5>2. QED
          BY <1>0, <5>1 DEF Fail, TypeOK, Phases, ErrorRec
      <4>4. QED
        BY <4>2, <4>3
    <3>3. QED
      BY <3>1, <3>2
  <2>2. WorkerTypes'
    BY <1>0, <1>3, <2>b DEF VRFEnsure, WorkerTypes, TypeOK
  <2>3. KernelTypes'
    BY <1>0, <1>3, <2>b DEF VRFEnsure, KernelTypes, TypeOK
  <2>4. PendingOK'
    BY <1>0, <1>3, <2>0 DEF VRFEnsure, Fail, PendingOK, TypeOK
  <2>5. QED
    BY <2>1, <2>2, <2>3, <2>4, TypeOKParts DEF TypeInv
<1>4. ASSUME NEW w \in Workers, VRFAttach(w) PROVE TypeInv'
  <2>0. cfg[w].vrf # NoVRF
    BY <1>0, <1>4 DEF VRFAttach, PendingOK
  <2>1. CfgTypes'
    BY <1>0, <1>4, CfgUnchanged DEF VRFAttach, CfgTypes
  <2>a. cfg[w].vrf.name \in VRFNames /\ cfg[w].vrf.table \in Nat \ {0}
    BY <1>0, <2>0, CfgFacts
  <2>b. /\ pc' \in [Workers -> Phases]
        /\ pending' \in [Workers -> SUBSET Nat]
        /\ errs' \in [Workers -> SUBSET ErrorRec]
        /\ vrfTable' \in [Workers -> Nat]
        /\ pc'[w] \in {"routes", "failed"}
        /\ pc'[w] = "routes" => pending'[w] = DOMAIN cfg[w].routes
        /\ \A v \in Workers \ {w} : pc'[v] = pc[v] /\ pending'[v] = pending[v]
    <3>1. PICK k \in 0..4 :
            IF k = 4
              THEN /\ vrfTable' = [vrfTable EXCEPT ![w] = cfg[w].vrf.table]
                   /\ pc' = [pc EXCEPT ![w] = "routes"]
                   /\ pending' = [pending EXCEPT ![w] = DOMAIN cfg[w].routes]
                   /\ UNCHANGED errs
              ELSE /\ Fail(w)
                   /\ UNCHANGED <<vrfTable, pending>>
      BY <1>4 DEF VRFAttach
    <3>2. CASE k = 4
      <4>1. /\ vrfTable' = [vrfTable EXCEPT ![w] = cfg[w].vrf.table]
            /\ pc' = [pc EXCEPT ![w] = "routes"]
            /\ pending' = [pending EXCEPT ![w] = DOMAIN cfg[w].routes]
            /\ errs' = errs
        BY <3>1, <3>2, Zenon
      <4>2. QED
        BY <1>0, <4>1, <2>a, CfgFacts DEF TypeOK, Phases
    <3>3. CASE k # 4
      <4>1. Fail(w) /\ vrfTable' = vrfTable /\ pending' = pending
        BY <3>1, <3>3, Zenon
      <4>2. QED
        BY <1>0, <4>1 DEF Fail, TypeOK, Phases, ErrorRec
    <3>4. QED
      BY <3>2, <3>3
  <2>2. WorkerTypes'
    BY <1>0, <1>4, <2>b DEF VRFAttach, WorkerTypes, TypeOK
  <2>3. KernelTypes'
    BY <1>0, <1>4, CfgFacts, <2>0, NsAssumption, LinkAssumption DEF VRFAttach, Fail, KernelTypes, TypeOK
  <2>4. PendingOK'
    BY <1>0, <1>4, <2>b DEF VRFAttach, PendingOK, TypeOK
  <2>5. QED
    BY <2>1, <2>2, <2>3, <2>4, TypeOKParts DEF TypeInv
<1>5. ASSUME NEW w \in Workers, RouteStep(w) PROVE TypeInv'
  <2>1. CfgTypes'
    BY <1>0, <1>5, CfgUnchanged DEF RouteStep, CfgTypes
  <2>2. WorkerTypes'
    BY <1>0, <1>5, CfgFacts, NsAssumption, LinkAssumption DEF RouteStep, Advance, WorkerTypes, TypeOK, ErrorRec
  <2>3. KernelTypes'
    <3>1. PICK i \in pending[w] :
            kroutes' = IF RouteResult(w, KRouteOf(w, cfg[w].routes[i])) = "ok"
                         THEN [kroutes EXCEPT ![NsOf[w]] =
                                 @ \cup {KRouteOf(w, cfg[w].routes[i])}]
                         ELSE kroutes
      BY <1>5 DEF RouteStep
    <3>2. cfg[w].routes[i] \in RouteConfig
      BY <1>0, <1>5, <3>1, CfgFacts DEF RouteStep, PendingOK
    <3>3. RouteResult(w, KRouteOf(w, cfg[w].routes[i])) = "ok"
            => KRouteOf(w, cfg[w].routes[i]) \in KRoute
      <4> DEFINE r == cfg[w].routes[i]
      <4>1. ParseCIDR(r.dst) \in Prefixes \cup {NoPrefix}
        BY <3>2 DEF ParseCIDR, RouteConfig, Dests
      <4>2. KernelTable(RouteTable(w, r)) \in Nat
        <5>1. vrfTable[w] \in Nat
          BY <1>0 DEF TypeOK
        <5>2. r.table \in Nat
          BY <3>2 DEF RouteConfig
        <5>3. QED
          BY <5>1, <5>2 DEF KernelTable, RouteTable, RT_TABLE_MAIN
      <4>3. r.gw \in IPs \cup {NoIP} /\ r.scope \in {RT_SCOPE_UNIVERSE, RT_SCOPE_LINK}
        BY <3>2 DEF RouteConfig
      <4>4. LinkOf[w] \in Links
        BY LinkAssumption
      <4>5. RouteResult(w, KRouteOf(w, r)) = "ok" => ParseCIDR(r.dst) # NoPrefix
        BY DEF RouteResult, KRouteOf
      <4>6. QED
        BY <4>1, <4>2, <4>3, <4>4, <4>5 DEF KRouteOf, KRoute
    <3>4. kroutes' \in [Namespaces -> SUBSET KRoute]
      BY <1>0, <3>1, <3>3, NsAssumption DEF TypeOK
    <3>5. QED
      BY <1>0, <1>5, <3>4 DEF RouteStep, KernelTypes, TypeOK
  <2>4. PendingOK'
    BY <1>0, <1>5 DEF RouteStep, Advance, PendingOK, TypeOK
  <2>5. QED
    BY <2>1, <2>2, <2>3, <2>4, TypeOKParts DEF TypeInv
<1>6. ASSUME NEW w \in Workers, RoutesDone(w) PROVE TypeInv'
  <2>1. CfgTypes'
    BY <1>0, <1>6, CfgUnchanged DEF RoutesDone, CfgTypes
  <2>2. WorkerTypes'
    BY <1>0, <1>6, CfgFacts DEF RoutesDone, WorkerTypes, TypeOK, Phases
  <2>3. KernelTypes'
    BY <1>0, <1>6, CfgFacts DEF RoutesDone, KernelTypes, TypeOK, kernelVars
  <2>4. PendingOK'
    BY <1>0, <1>6 DEF RoutesDone, PendingOK, TypeOK
  <2>5. QED
    BY <2>1, <2>2, <2>3, <2>4, TypeOKParts DEF TypeInv
<1>7. ASSUME NEW w \in Workers, NeighStep(w) PROVE TypeInv'
  <2>1. CfgTypes'
    BY <1>0, <1>7, CfgUnchanged DEF NeighStep, CfgTypes
  <2>2. WorkerTypes'
    BY <1>0, <1>7, CfgFacts, NsAssumption, LinkAssumption DEF NeighStep, Advance, WorkerTypes, TypeOK
  <2>3. KernelTypes'
    <3>1. PICK i \in pending[w] :
            kneighs' = IF NeighExists(NsOf[w], LinkOf[w], cfg[w].neighbors[i].ip)
                         THEN kneighs
                         ELSE [kneighs EXCEPT ![NsOf[w]] =
                                 @ \cup {[link |-> LinkOf[w], ip |-> cfg[w].neighbors[i].ip,
                                          mac |-> cfg[w].neighbors[i].mac]}]
      BY <1>7 DEF NeighStep
    <3>2. cfg[w].neighbors[i] \in NeighborConfig
      BY <1>0, <1>7, <3>1, CfgFacts DEF NeighStep, PendingOK
    <3>3. kneighs' \in [Namespaces -> SUBSET KNeigh]
      BY <1>0, <3>1, <3>2, NsAssumption, LinkAssumption DEF TypeOK, KNeigh, NeighborConfig
    <3>4. QED
      BY <1>0, <1>7, <3>3 DEF NeighStep, KernelTypes, TypeOK
  <2>4. PendingOK'
    BY <1>0, <1>7 DEF NeighStep, Advance, PendingOK, TypeOK
  <2>5. QED
    BY <2>1, <2>2, <2>3, <2>4, TypeOKParts DEF TypeInv
<1>8. ASSUME NEW w \in Workers, NeighborsDone(w) PROVE TypeInv'
  <2>1. CfgTypes'
    BY <1>0, <1>8, CfgUnchanged DEF NeighborsDone, CfgTypes
  <2>2. WorkerTypes'
    BY <1>0, <1>8, CfgFacts DEF NeighborsDone, WorkerTypes, TypeOK, Phases
  <2>3. KernelTypes'
    BY <1>0, <1>8, CfgFacts DEF NeighborsDone, KernelTypes, TypeOK, kernelVars
  <2>4. PendingOK'
    BY <1>0, <1>8 DEF NeighborsDone, PendingOK, TypeOK
  <2>5. QED
    BY <2>1, <2>2, <2>3, <2>4, TypeOKParts DEF TypeInv
<1>9. ASSUME NEW w \in Workers, RuleStep(w) PROVE TypeInv'
  <2>1. CfgTypes'
    BY <1>0, <1>9, CfgUnchanged DEF RuleStep, CfgTypes
  <2>2. WorkerTypes'
    BY <1>0, <1>9, CfgFacts, NsAssumption DEF RuleStep, Advance, WorkerTypes, TypeOK
  <2>3. KernelTypes'
    <3>1. PICK i \in pending[w] : krules' = [krules EXCEPT ![NsOf[w]] = @ \cup {cfg[w].rules[i]}]
      BY <1>9 DEF RuleStep
    <3>2. cfg[w].rules[i] \in RuleConfig
      BY <1>0, <1>9, <3>1, CfgFacts DEF RuleStep, PendingOK
    <3>3. krules' \in [Namespaces -> SUBSET RuleConfig]
      BY <1>0, <3>1, <3>2, NsAssumption DEF TypeOK
    <3>4. QED
      BY <1>0, <1>9, <3>3 DEF RuleStep, KernelTypes, TypeOK
  <2>4. PendingOK'
    BY <1>0, <1>9 DEF RuleStep, Advance, PendingOK, TypeOK
  <2>5. QED
    BY <2>1, <2>2, <2>3, <2>4, TypeOKParts DEF TypeInv
<1>10. ASSUME NEW w \in Workers, RulesDone(w) PROVE TypeInv'
  <2>1. CfgTypes'
    BY <1>0, <1>10, CfgUnchanged DEF RulesDone, CfgTypes
  <2>2. WorkerTypes'
    BY <1>0, <1>10, CfgFacts DEF RulesDone, WorkerTypes, TypeOK, Phases
  <2>3. KernelTypes'
    BY <1>0, <1>10, CfgFacts DEF RulesDone, KernelTypes, TypeOK, kernelVars
  <2>4. PendingOK'
    BY <1>0, <1>10 DEF RulesDone, PendingOK, TypeOK
  <2>5. QED
    BY <2>1, <2>2, <2>3, <2>4, TypeOKParts DEF TypeInv
<1>11. CASE Finished \/ UNCHANGED vars
  BY <1>0, <1>11 DEF Finished, vars, workerVars, kernelVars, TypeInv, TypeOK, PendingOK
<1>12. QED
  BY <1>1, <1>2, <1>3, <1>4, <1>5, <1>6, <1>7, <1>8, <1>9, <1>10, <1>11 DEF Next

(***************************************************************************)
(* Type correctness: whatever configurations the claims carry, every state *)
(* the driver's network configuration steps reach has well-typed kernel    *)
(* objects and worker state (TypeOK, checked by run netconfig_safety).     *)
(***************************************************************************)
THEOREM TypeCorrect == Spec => []TypeOK
<1>1. Init => TypeInv
  BY InitTypeInv
<1>2. TypeInv /\ [Next]_vars => TypeInv'
  BY NextTypeInv
<1>3. TypeInv => TypeOK
  BY DEF TypeInv
<1>4. QED
  BY <1>1, <1>2, <1>3, PTL DEF Spec

-----------------------------------------------------------------------------
(***************************************************************************)
(* VRF tables.  When no claim gives its VRF an explicit table, Default     *)
(* derives every table from the name, so two devices of a pod that name    *)
(* the same VRF agree on its table (run netconfig_vrf_table shows what     *)
(* goes wrong otherwise).                                                  *)
(***************************************************************************)
DerivedTablesOnly ==
  \A w \in Workers : \A c \in Candidates[w] : c.vrf # NoVRF => c.vrf.table = NoTable

\* The configuration of a worker carries the table derived from its name
DerivedCfg ==
  \A w \in Workers : cfg[w].vrf # NoVRF =>
    cfg[w].vrf.table = VRFDefaultTable(cfg[w].vrf.name)

\* A VRF device is absent or was created with the table derived from its name
VRFDevices ==
  \A ns \in Namespaces : \A n \in VRFNames : kvrf[ns][n] \in {0, VRFDefaultTable(n)}

\* Only the worker of a link enslaves it, and to the VRF of its config
MasterOwned ==
  \A w \in Workers :
    kmaster[NsOf[w]][LinkOf[w]] # NoMaster =>
      /\ cfg[w].vrf # NoVRF
      /\ kmaster[NsOf[w]][LinkOf[w]] = cfg[w].vrf.name

\* A link is enslaved only to a VRF device that exists
MasterHasDevice ==
  \A ns \in Namespaces : \A l \in Links :
    kmaster[ns][l] # NoMaster => kvrf[ns][kmaster[ns][l]] # 0

\* The attach step runs after the VRF device exists
AttachAfterEnsure ==
  \A w \in Workers : pc[w] = "vrf_attach" => kvrf[NsOf[w]][cfg[w].vrf.name] # 0

\* The route loop of a VRF device runs with the table applyVRFConfig returned
RoutesUseVRF ==
  \A w \in Workers : pc[w] = "routes" /\ cfg[w].vrf # NoVRF =>
    vrfTable[w] = cfg[w].vrf.table

VRFInv ==
  /\ TypeInv
  /\ RoutesFollowVRFTable
  /\ DerivedCfg
  /\ VRFDevices
  /\ MasterOwned
  /\ MasterHasDevice
  /\ AttachAfterEnsure
  /\ RoutesUseVRF

\* The part of VRFInv about the kernel's VRF state
VRFKernelInv ==
  /\ RoutesFollowVRFTable
  /\ VRFDevices
  /\ MasterOwned
  /\ MasterHasDevice

\* A step that leaves the configurations and the kernel alone keeps VRFKernelInv
LEMMA KernelFrame ==
  ASSUME VRFKernelInv, UNCHANGED <<cfg, kroutes, kvrf, kmaster>>
  PROVE  VRFKernelInv'
BY DEF VRFKernelInv, RoutesFollowVRFTable, VRFDevices, MasterOwned,
       MasterHasDevice

\* No step changes the configurations
LEMMA CfgConstant == [Next]_vars => cfg' = cfg
BY DEF Next, vars, workerVars, Start, Retry, VRFEnsure, VRFAttach, RouteStep,
       RoutesDone, NeighStep, NeighborsDone, RuleStep, RulesDone, Finished

LEMMA InitVRFInv == DerivedTablesOnly /\ Init => VRFInv
<1> SUFFICES ASSUME DerivedTablesOnly, Init PROVE VRFInv
  OBVIOUS
<1>1. TypeInv
  BY InitTypeInv
<1>2. DerivedCfg
  <2> SUFFICES ASSUME NEW w \in Workers, cfg[w].vrf # NoVRF
               PROVE  cfg[w].vrf.table = VRFDefaultTable(cfg[w].vrf.name)
    BY DEF DerivedCfg
  <2>1. PICK d \in Candidates[w] : cfg[w] = Default(d)
    BY DEF Init, Accepted
  <2>2. d \in NetworkConfig
    BY CandidateAssumption
  <2>3. d.vrf # NoVRF
    BY <2>1 DEF Default
  <2>4. d.vrf.table = NoTable
    BY <2>3 DEF DerivedTablesOnly
  <2>5. d = [routes |-> d.routes, neighbors |-> d.neighbors, rules |-> d.rules,
             vrf |-> d.vrf]
    BY <2>2, Zenon DEF NetworkConfig
  <2>6. cfg[w].vrf = [name |-> d.vrf.name, table |-> VRFDefaultTable(d.vrf.name)]
    BY <2>1, <2>3, <2>4, <2>5, Zenon DEF Default
  <2>7. QED
    BY <2>6
<1>3. RoutesFollowVRFTable /\ VRFDevices
  BY DEF Init, RoutesFollowVRFTable, VRFDevices
<1>4. MasterOwned /\ MasterHasDevice
  BY NsAssumption, LinkAssumption DEF Init, MasterOwned, MasterHasDevice
<1>5. AttachAfterEnsure /\ RoutesUseVRF
  BY DEF Init, AttachAfterEnsure, RoutesUseVRF
<1>6. QED
  BY <1>1, <1>2, <1>3, <1>4, <1>5 DEF VRFInv

\* A step of worker w that neither attaches nor starts the route loop of a
\* VRF device keeps AttachAfterEnsure and RoutesUseVRF
LEMMA FrameAttachRoutes ==
  ASSUME NEW w \in Workers, AttachAfterEnsure, RoutesUseVRF,
         /\ pc'[w] # "vrf_attach"
         /\ pc'[w] = "routes" => cfg[w].vrf = NoVRF
         /\ \A u \in Workers \ {w} : pc'[u] = pc[u] /\ vrfTable'[u] = vrfTable[u]
         /\ UNCHANGED <<cfg, kvrf>>
  PROVE  AttachAfterEnsure' /\ RoutesUseVRF'
<1>1. AttachAfterEnsure'
  <2> SUFFICES ASSUME NEW u \in Workers, pc'[u] = "vrf_attach"
               PROVE  kvrf'[NsOf[u]][cfg'[u].vrf.name] # 0
    BY DEF AttachAfterEnsure
  <2>1. u # w /\ pc[u] = "vrf_attach"
    OBVIOUS
  <2>2. QED
    BY <2>1 DEF AttachAfterEnsure
<1>2. RoutesUseVRF'
  <2> SUFFICES ASSUME NEW u \in Workers, pc'[u] = "routes", cfg'[u].vrf # NoVRF
               PROVE  vrfTable'[u] = cfg'[u].vrf.table
    BY DEF RoutesUseVRF
  <2>1. u # w /\ pc[u] = "routes"
    OBVIOUS
  <2>2. QED
    BY <2>1 DEF RoutesUseVRF
<1>3. QED
  BY <1>1, <1>2

\* The part of VRFInv a step has to re-establish
Rest == VRFKernelInv /\ AttachAfterEnsure /\ RoutesUseVRF

(***************************************************************************)
(* Every step preserves VRFInv.  The attach step only enslaves the link of *)
(* its own device, to a VRF device that exists, and flushes the routes     *)
(* through the link when its master changes; the route loop of a VRF      *)
(* device writes to the table applyVRFConfig returned, which is the table *)
(* of the config and, tables being derived, the table of the VRF device.  *)
(***************************************************************************)
LEMMA NextVRFInv == VRFInv /\ [Next]_vars => VRFInv'
<1> SUFFICES ASSUME VRFInv, [Next]_vars PROVE VRFInv'
  OBVIOUS
<1>0. /\ TypeOK /\ PendingOK /\ DerivedCfg /\ VRFKernelInv
      /\ AttachAfterEnsure /\ RoutesUseVRF
  BY DEF VRFInv, TypeInv, VRFKernelInv
<1>a. /\ pc \in [Workers -> Phases] /\ vrfTable \in [Workers -> Nat]
      /\ kvrf \in [Namespaces -> [VRFNames -> Nat]]
  BY <1>0 DEF TypeOK
<1>1. ASSUME NEW w \in Workers, Start(w) PROVE Rest'
  <2>1. VRFKernelInv'
    BY <1>0, <1>1, KernelFrame DEF Start, kernelVars
  <2>2. /\ pc'[w] # "vrf_attach"
        /\ pc'[w] = "routes" => cfg[w].vrf = NoVRF
        /\ \A u \in Workers \ {w} : pc'[u] = pc[u] /\ vrfTable'[u] = vrfTable[u]
        /\ UNCHANGED <<cfg, kvrf>>
    BY <1>1, <1>a DEF Start, Begin, kernelVars
  <2>3. AttachAfterEnsure' /\ RoutesUseVRF'
    BY <1>0, <2>2, FrameAttachRoutes
  <2>4. QED
    BY <2>1, <2>3 DEF Rest
<1>2. ASSUME NEW w \in Workers, Retry(w) PROVE Rest'
  <2>1. VRFKernelInv'
    BY <1>0, <1>2, KernelFrame DEF Retry, kernelVars
  <2>2. /\ pc'[w] # "vrf_attach"
        /\ pc'[w] = "routes" => cfg[w].vrf = NoVRF
        /\ \A u \in Workers \ {w} : pc'[u] = pc[u] /\ vrfTable'[u] = vrfTable[u]
        /\ UNCHANGED <<cfg, kvrf>>
    BY <1>2, <1>a DEF Retry, Begin, kernelVars
  <2>3. AttachAfterEnsure' /\ RoutesUseVRF'
    BY <1>0, <2>2, FrameAttachRoutes
  <2>4. QED
    BY <2>1, <2>3 DEF Rest
<1>3. ASSUME NEW w \in Workers, VRFEnsure(w) PROVE Rest'
  <2> DEFINE ns == NsOf[w]
             v == cfg[w].vrf
  <2>0. /\ v # NoVRF /\ v.name \in VRFNames /\ v.table \in Nat \ {0}
        /\ ns \in Namespaces
    BY <1>0, <1>3, CfgFacts, NsAssumption DEF VRFEnsure, PendingOK
  <2>1. \/ kvrf' = kvrf
        \/ kvrf[ns][v.name] = 0 /\ kvrf' = [kvrf EXCEPT ![ns][v.name] = v.table]
    BY <1>3 DEF VRFEnsure
  <2>2. /\ pc'[w] \in {"vrf_attach", "failed"}
        /\ pc'[w] = "vrf_attach" => kvrf'[ns][v.name] # 0
        /\ \A u \in Workers \ {w} : pc'[u] = pc[u]
    <3>1. CASE kvrf[ns][v.name] # 0
      BY <1>0, <1>3, <3>1 DEF VRFEnsure, TypeOK
    <3>2. CASE kvrf[ns][v.name] = 0
      <4>1. PICK ok \in Outcomes :
              IF ok THEN /\ kvrf' = [kvrf EXCEPT ![ns][v.name] = v.table]
                         /\ pc' = [pc EXCEPT ![w] = "vrf_attach"]
                    ELSE Fail(w)
        BY <1>3, <3>2 DEF VRFEnsure
      <4>2. CASE ok
        <5>1. /\ kvrf' = [kvrf EXCEPT ![ns][v.name] = v.table]
              /\ pc' = [pc EXCEPT ![w] = "vrf_attach"]
          BY <4>1, <4>2, Zenon
        <5>2. QED
          BY <1>0, <2>0, <5>1 DEF TypeOK
      <4>3. CASE ~ok
        <5>1. Fail(w)
          BY <4>1, <4>3, Zenon
        <5>2. QED
          BY <1>0, <5>1 DEF Fail, TypeOK
      <4>4. QED
        BY <4>2, <4>3
    <3>3. QED
      BY <3>1, <3>2
  <2>3. \A n \in Namespaces, m \in VRFNames :
          /\ kvrf'[n][m] \in {kvrf[n][m], VRFDefaultTable(m)}
          /\ kvrf[n][m] # 0 => kvrf'[n][m] = kvrf[n][m]
    <3>1. v.table = VRFDefaultTable(v.name)
      BY <1>0, <2>0 DEF DerivedCfg
    <3>2. CASE kvrf' = kvrf
      BY <3>2
    <3>3. CASE kvrf[ns][v.name] = 0 /\ kvrf' = [kvrf EXCEPT ![ns][v.name] = v.table]
      BY <1>a, <2>0, <3>1, <3>3
    <3>4. QED
      BY <2>1, <3>2, <3>3
  <2>4. UNCHANGED <<cfg, kroutes, kmaster, vrfTable>>
    BY <1>3 DEF VRFEnsure
  <2>5. RoutesFollowVRFTable'
    BY <1>0, <2>3, <2>4
    DEF VRFKernelInv, RoutesFollowVRFTable, MasterHasDevice, TypeOK, KRoute
  <2>6. VRFDevices'
    BY <1>0, <2>3 DEF VRFKernelInv, VRFDevices
  <2>7. MasterOwned' /\ MasterHasDevice'
    BY <1>0, <2>3, <2>4 DEF VRFKernelInv, MasterOwned, MasterHasDevice, TypeOK
  <2>8. AttachAfterEnsure' /\ RoutesUseVRF'
    <3>1. AttachAfterEnsure'
      <4> SUFFICES ASSUME NEW u \in Workers, pc'[u] = "vrf_attach"
                   PROVE  kvrf'[NsOf[u]][cfg[u].vrf.name] # 0
        BY <2>4 DEF AttachAfterEnsure
      <4>1. CASE u = w
        BY <2>2, <4>1
      <4>2. CASE u # w
        <5>1. pc[u] = "vrf_attach"
          BY <2>2, <4>2
        <5>2. kvrf[NsOf[u]][cfg[u].vrf.name] # 0
          BY <1>0, <5>1 DEF AttachAfterEnsure
        <5>3. NsOf[u] \in Namespaces /\ cfg[u].vrf.name \in VRFNames
          BY <1>0, <5>1, CfgFacts, NsAssumption DEF PendingOK
        <5>4. QED
          BY <2>3, <5>2, <5>3
      <4>3. QED
        BY <4>1, <4>2
    <3>2. RoutesUseVRF'
      BY <1>0, <2>2, <2>4 DEF RoutesUseVRF
    <3>3. QED
      BY <3>1, <3>2
  <2>9. QED
    BY <2>5, <2>6, <2>7, <2>8 DEF Rest, VRFKernelInv
<1>4. ASSUME NEW w \in Workers, VRFAttach(w) PROVE Rest'
  <2> DEFINE ns == NsOf[w]
             l == LinkOf[w]
             v == cfg[w].vrf
             moved == MasterChanged(ns, l, v.name)
  <2>0. /\ v # NoVRF /\ v.name \in VRFNames /\ v.table \in Nat \ {0}
        /\ ns \in Namespaces /\ l \in Links
        /\ kvrf[ns][v.name] # 0
    BY <1>0, <1>4, CfgFacts, NsAssumption, LinkAssumption
    DEF VRFAttach, PendingOK, AttachAfterEnsure
  <2>1. PICK k \in 0..4 :
          /\ kmaster' = IF k >= 2 THEN [kmaster EXCEPT ![ns][l] = v.name] ELSE kmaster
          /\ kroutes' = IF k >= 2 /\ moved
                          THEN [kroutes EXCEPT ![ns] = {r \in @ : r.link # l}]
                          ELSE kroutes
          /\ IF k = 4
               THEN /\ vrfTable' = [vrfTable EXCEPT ![w] = v.table]
                    /\ pc' = [pc EXCEPT ![w] = "routes"]
               ELSE Fail(w) /\ UNCHANGED vrfTable
    BY <1>4 DEF VRFAttach
  <2>2. UNCHANGED <<cfg, kvrf>>
    BY <1>4 DEF VRFAttach
  <2>3. /\ pc'[w] \in {"routes", "failed"}
        /\ pc'[w] = "routes" => vrfTable'[w] = v.table
        /\ \A u \in Workers \ {w} : pc'[u] = pc[u] /\ vrfTable'[u] = vrfTable[u]
    <3>1. CASE k = 4
      <4>1. /\ vrfTable' = [vrfTable EXCEPT ![w] = v.table]
            /\ pc' = [pc EXCEPT ![w] = "routes"]
        BY <2>1, <3>1, Zenon
      <4>2. QED
        BY <1>0, <4>1 DEF TypeOK
    <3>2. CASE k # 4
      <4>1. Fail(w)
        BY <2>1, <3>2, Zenon
      <4>2. vrfTable' = vrfTable
        BY <2>1, <3>2, Zenon
      <4>3. QED
        BY <1>0, <4>1, <4>2 DEF Fail, TypeOK
    <3>3. QED
      BY <3>1, <3>2
  \* the master of any link other than l is untouched; that of l becomes v
  <2>4. \A n \in Namespaces, m \in Links :
          kmaster'[n][m] = IF n = ns /\ m = l /\ k >= 2 THEN v.name ELSE kmaster[n][m]
    BY <1>0, <2>0, <2>1 DEF TypeOK
  \* the routes left keep their master
  <2>5. \A n \in Namespaces : \A r \in kroutes'[n] :
          r \in kroutes[n] /\ kmaster'[n][r.link] = kmaster[n][r.link]
    <3>1. CASE k >= 2 /\ moved
      <4>1. kroutes' = [kroutes EXCEPT ![ns] = {r \in @ : r.link # l}]
        BY <2>1, <3>1
      <4>2. QED
        BY <1>0, <2>0, <2>4, <4>1 DEF TypeOK, KRoute
    <3>2. CASE ~(k >= 2 /\ moved)
      BY <1>0, <2>0, <2>1, <2>4, <3>2 DEF TypeOK, KRoute, MasterChanged
    <3>3. QED
      BY <3>1, <3>2
  <2>6. RoutesFollowVRFTable'
    BY <1>0, <2>2, <2>5 DEF VRFKernelInv, RoutesFollowVRFTable
  <2>7. VRFDevices'
    BY <1>0, <2>2 DEF VRFKernelInv, VRFDevices
  <2>8. MasterOwned'
    BY <1>0, <2>0, <2>2, <2>4, NsAssumption, LinkAssumption
    DEF VRFKernelInv, MasterOwned
  <2>9. MasterHasDevice'
    BY <1>0, <2>0, <2>2, <2>4 DEF VRFKernelInv, MasterHasDevice
  <2>10. AttachAfterEnsure' /\ RoutesUseVRF'
    BY <1>0, <2>2, <2>3 DEF AttachAfterEnsure, RoutesUseVRF
  <2>11. QED
    BY <2>6, <2>7, <2>8, <2>9, <2>10 DEF Rest, VRFKernelInv
<1>5. ASSUME NEW w \in Workers, RouteStep(w) PROVE Rest'
  <2> DEFINE ns == NsOf[w]
             l == LinkOf[w]
             v == cfg[w].vrf
  <2>1. PICK i \in pending[w] :
          kroutes' = IF RouteResult(w, KRouteOf(w, cfg[w].routes[i])) = "ok"
                       THEN [kroutes EXCEPT ![ns] = @ \cup {KRouteOf(w, cfg[w].routes[i])}]
                       ELSE kroutes
    BY <1>5 DEF RouteStep
  <2> DEFINE r == cfg[w].routes[i]
             k == KRouteOf(w, r)
  <2>2. UNCHANGED <<cfg, pc, vrfTable, kvrf, kmaster>>
    BY <1>5 DEF RouteStep
  <2>3. ns \in Namespaces /\ l \in Links /\ k.link = l
    BY NsAssumption, LinkAssumption DEF KRouteOf
  \* the new route is in the table of the VRF its link is enslaved to
  <2>4. kmaster[ns][l] # NoMaster => k.table = kvrf[ns][kmaster[ns][l]]
    <3> SUFFICES ASSUME kmaster[ns][l] # NoMaster
                 PROVE  k.table = kvrf[ns][kmaster[ns][l]]
      OBVIOUS
    <3>1. v # NoVRF /\ kmaster[ns][l] = v.name
      BY <1>0 DEF VRFKernelInv, MasterOwned
    <3>2. v.name \in VRFNames /\ v.table \in Nat \ {0}
      BY <1>0, <3>1, CfgFacts
    <3>3. vrfTable[w] = v.table
      BY <1>0, <1>5, <3>1 DEF RouteStep, RoutesUseVRF
    <3>4. k.table = v.table
      BY <3>2, <3>3 DEF KRouteOf, KernelTable, RouteTable
    <3>5. kvrf[ns][v.name] # 0
      BY <1>0, <2>3, <3>1 DEF VRFKernelInv, MasterHasDevice
    <3>6. kvrf[ns][v.name] = v.table
      BY <1>0, <2>3, <3>1, <3>2, <3>5 DEF VRFKernelInv, VRFDevices, DerivedCfg
    <3>7. QED
      BY <3>1, <3>4, <3>6
  <2>5. RoutesFollowVRFTable'
    BY <1>0, <2>1, <2>2, <2>3, <2>4 DEF VRFKernelInv, RoutesFollowVRFTable, TypeOK
  <2>6. (VRFDevices /\ MasterOwned /\ MasterHasDevice)'
    BY <1>0, <2>2 DEF VRFKernelInv, VRFDevices, MasterOwned, MasterHasDevice
  <2>7. AttachAfterEnsure' /\ RoutesUseVRF'
    BY <1>0, <2>2 DEF AttachAfterEnsure, RoutesUseVRF
  <2>8. QED
    BY <2>5, <2>6, <2>7 DEF Rest, VRFKernelInv
<1>6. ASSUME NEW w \in Workers, RoutesDone(w) PROVE Rest'
  <2>1. VRFKernelInv'
    BY <1>0, <1>6, KernelFrame DEF RoutesDone, kernelVars
  <2>2. /\ pc'[w] # "vrf_attach"
        /\ pc'[w] = "routes" => cfg[w].vrf = NoVRF
        /\ \A u \in Workers \ {w} : pc'[u] = pc[u] /\ vrfTable'[u] = vrfTable[u]
        /\ UNCHANGED <<cfg, kvrf>>
    BY <1>6, <1>a DEF RoutesDone, kernelVars
  <2>3. AttachAfterEnsure' /\ RoutesUseVRF'
    BY <1>0, <2>2, FrameAttachRoutes
  <2>4. QED
    BY <2>1, <2>3 DEF Rest
<1>7. ASSUME NEW w \in Workers, NeighStep(w) PROVE Rest'
  <2>1. VRFKernelInv'
    BY <1>0, <1>7, KernelFrame DEF NeighStep, kernelVars
  <2>2. /\ pc'[w] # "vrf_attach"
        /\ pc'[w] = "routes" => cfg[w].vrf = NoVRF
        /\ \A u \in Workers \ {w} : pc'[u] = pc[u] /\ vrfTable'[u] = vrfTable[u]
        /\ UNCHANGED <<cfg, kvrf>>
    BY <1>7, <1>a DEF NeighStep, kernelVars
  <2>3. AttachAfterEnsure' /\ RoutesUseVRF'
    BY <1>0, <2>2, FrameAttachRoutes
  <2>4. QED
    BY <2>1, <2>3 DEF Rest
<1>8. ASSUME NEW w \in Workers, NeighborsDone(w) PROVE Rest'
  <2>1. VRFKernelInv'
    BY <1>0, <1>8, KernelFrame DEF NeighborsDone, kernelVars
  <2>2. /\ pc'[w] # "vrf_attach"
        /\ pc'[w] = "routes" => cfg[w].vrf = NoVRF
        /\ \A u \in Workers \ {w} : pc'[u] = pc[u] /\ vrfTable'[u] = vrfTable[u]
        /\ UNCHANGED <<cfg, kvrf>>
    BY <1>8, <1>a DEF NeighborsDone, kernelVars
  <2>3. AttachAfterEnsure' /\ RoutesUseVRF'
    BY <1>0, <2>2, FrameAttachRoutes
  <2>4. QED
    BY <2>1, <2>3 DEF Rest
<1>9. ASSUME NEW w \in Workers, RuleStep(w) PROVE Rest'
  <2>1. VRFKernelInv'
    BY <1>0, <1>9, KernelFrame DEF RuleStep, kernelVars
  <2>2. /\ pc'[w] # "vrf_attach"
        /\ pc'[w] = "routes" => cfg[w].vrf = NoVRF
        /\ \A u \in Workers \ {w} : pc'[u] = pc[u] /\ vrfTable'[u] = vrfTable[u]
        /\ UNCHANGED <<cfg, kvrf>>
    BY <1>9, <1>a DEF RuleStep, kernelVars
  <2>3. AttachAfterEnsure' /\ RoutesUseVRF'
    BY <1>0, <2>2, FrameAttachRoutes
  <2>4. QED
    BY <2>1, <2>3 DEF Rest
<1>10. ASSUME NEW w \in Workers, RulesDone(w) PROVE Rest'
  <2>1. VRFKernelInv'
    BY <1>0, <1>10, KernelFrame DEF RulesDone, kernelVars
  <2>2. /\ pc'[w] # "vrf_attach"
        /\ pc'[w] = "routes" => cfg[w].vrf = NoVRF
        /\ \A u \in Workers \ {w} : pc'[u] = pc[u] /\ vrfTable'[u] = vrfTable[u]
        /\ UNCHANGED <<cfg, kvrf>>
    BY <1>10, <1>a DEF RulesDone, kernelVars
  <2>3. AttachAfterEnsure' /\ RoutesUseVRF'
    BY <1>0, <2>2, FrameAttachRoutes
  <2>4. QED
    BY <2>1, <2>3 DEF Rest
<1>11. ASSUME Finished \/ UNCHANGED vars PROVE Rest'
  <2>1. UNCHANGED vars
    BY <1>11 DEF Finished
  <2>2. UNCHANGED <<cfg, pc, vrfTable, kroutes, kvrf, kmaster>>
    BY <2>1 DEF vars, workerVars, kernelVars
  <2>3. VRFKernelInv'
    BY <1>0, <2>2, KernelFrame
  <2>4. AttachAfterEnsure' /\ RoutesUseVRF'
    BY <1>0, <2>2 DEF AttachAfterEnsure, RoutesUseVRF
  <2>5. QED
    BY <2>3, <2>4 DEF Rest
<1>12. Rest'
  <2>1. CASE \E w \in Workers :
               \/ Start(w) \/ Retry(w)
               \/ VRFEnsure(w) \/ VRFAttach(w)
               \/ RouteStep(w) \/ RoutesDone(w)
               \/ NeighStep(w) \/ NeighborsDone(w)
               \/ RuleStep(w) \/ RulesDone(w)
    BY <2>1, <1>1, <1>2, <1>3, <1>4, <1>5, <1>6, <1>7, <1>8, <1>9, <1>10
  <2>2. CASE Finished \/ UNCHANGED vars
    BY <2>2, <1>11
  <2>3. QED
    BY <2>1, <2>2 DEF Next
<1>13. TypeInv'
  BY NextTypeInv DEF VRFInv
<1>14. DerivedCfg'
  BY <1>0, CfgConstant DEF DerivedCfg
<1>15. QED
  BY <1>12, <1>13, <1>14 DEF VRFInv, Rest, VRFKernelInv

(***************************************************************************)
(* When no claim gives its VRF an explicit table, every route through a    *)
(* link enslaved to a VRF is in that VRF's table, as the comment of        *)
(* applyRoutingConfig requires (RoutesFollowVRFTable, checked by run       *)
(* netconfig_safety), however the devices of the pod interleave, fail and *)
(* are re-invoked.                                                        *)
(***************************************************************************)
THEOREM RoutesFollowVRF ==
  ASSUME DerivedTablesOnly
  PROVE  Spec => []RoutesFollowVRFTable
<1>1. Init => VRFInv
  BY InitVRFInv
<1>2. VRFInv /\ [Next]_vars => VRFInv'
  BY NextVRFInv
<1>3. VRFInv => RoutesFollowVRFTable
  BY DEF VRFInv
<1>4. QED
  BY <1>1, <1>2, <1>3, PTL DEF Spec

=============================================================================
