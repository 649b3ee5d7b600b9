------------------------ MODULE NetConfigKernelProofs ------------------------
(***************************************************************************)
(* Proof that the engine implements AbstractKernel (KernelRefinement): no  *)
(* step undoes or corrupts kernel state, for every value of the constants *)
(* that satisfies the assumptions of NetConfig.                           *)
(*                                                                         *)
(* The argument, step by step.  Every action works on the namespace of    *)
(* one device and maps to AK!Apply of that namespace; the caller's steps  *)
(* and the ends of the loops leave the kernel alone and map to stutters.  *)
(* Two steps need more than their own text:                                *)
(*   - the flush of VRFAttach removes nothing (RoutesGrow, from SuccessInv);*)
(*   - VRFAttach overwrites the master of its link, which keeps it only     *)
(*     because an enslaved link is enslaved to the VRF of the one device    *)
(*     on it (MasterMine), whose config never changes.                     *)
(***************************************************************************)
EXTENDS NetConfigSuccessProofs

\* An enslaved link is enslaved to the VRF of the device on it
MasterMine ==
  \A ns \in Namespaces : \A l \in Links :
    kmaster[ns][l] # NoMaster =>
      \E w \in Workers : /\ NsOf[w] = ns /\ LinkOf[w] = l
                         /\ cfg[w].vrf # NoVRF
                         /\ kmaster[ns][l] = cfg[w].vrf.name

KernelInv == SuccessInv /\ MasterMine


LEMMA InitKernelInv == Init => KernelInv
<1> SUFFICES ASSUME Init PROVE KernelInv
  OBVIOUS
<1>1. SuccessInv
  BY InitSuccessInv
<1>2. MasterMine
  BY SentinelAssumption DEF Init, MasterMine
<1>3. QED
  BY <1>1, <1>2 DEF KernelInv

\* The facts about the step of VRFAttach(w) the proofs below share
LEMMA AttachFacts ==
  ASSUME TypeOK, PendingOK, NEW w \in Workers, VRFAttach(w)
  PROVE  LET ns == NsOf[w]
             l == LinkOf[w]
             v == cfg[w].vrf
         IN  /\ v # NoVRF /\ v.name \in VRFNames
             /\ ns \in Namespaces /\ l \in Links
             /\ \E kk \in 0..4 :
                  /\ kup' = IF kk >= 1 THEN [kup EXCEPT ![ns] = @ \cup {v.name}] ELSE kup
                  /\ kmaster' = IF kk >= 2 THEN [kmaster EXCEPT ![ns][l] = v.name]
                                           ELSE kmaster
                  /\ ksysctl' = [ksysctl EXCEPT ![ns] =
                                   @ \cup (IF kk >= 3 THEN {"tcp"} ELSE {})
                                     \cup (IF kk >= 4 THEN {"udp"} ELSE {})]
             /\ UNCHANGED <<kneighs, krules, kvrf>>
<1> DEFINE ns == NsOf[w]
           l == LinkOf[w]
           v == cfg[w].vrf
<1>1. v # NoVRF /\ v.name \in VRFNames /\ ns \in Namespaces /\ l \in Links
  BY CfgFacts, NsAssumption, LinkAssumption DEF VRFAttach, PendingOK
<1>2. PICK kk \in IF KernelFaults THEN 0..4 ELSE {4} :
        /\ kup' = IF kk >= 1 THEN [kup EXCEPT ![ns] = @ \cup {v.name}] ELSE kup
        /\ kmaster' = IF kk >= 2 THEN [kmaster EXCEPT ![ns][l] = v.name] ELSE kmaster
        /\ ksysctl' = [ksysctl EXCEPT ![ns] =
                         @ \cup (IF kk >= 3 THEN {"tcp"} ELSE {})
                           \cup (IF kk >= 4 THEN {"udp"} ELSE {})]
  BY DEF VRFAttach
<1>3. kk \in 0..4
  OBVIOUS
<1>4. UNCHANGED <<kneighs, krules, kvrf>>
  BY DEF VRFAttach
<1>5. QED
  BY <1>1, <1>2, <1>3, <1>4

\* Only the device on a link moves it, and always to the VRF of its config
LEMMA MasterStep ==
  ASSUME KernelInv, [Next]_vars
  PROVE  MasterMine'
<1>0. TypeOK /\ PendingOK /\ MasterMine /\ cfg' = cfg
  BY CfgConstant DEF KernelInv, SuccessInv, TypeInv
<1>1. CASE \E w \in Workers : VRFAttach(w)
  <2>1. PICK w \in Workers : VRFAttach(w)
    BY <1>1
  <2> DEFINE ns == NsOf[w]
             l == LinkOf[w]
             v == cfg[w].vrf
  <2>2. /\ v # NoVRF /\ v.name \in VRFNames /\ ns \in Namespaces /\ l \in Links
        /\ \E kk \in 0..4 :
             kmaster' = IF kk >= 2 THEN [kmaster EXCEPT ![ns][l] = v.name] ELSE kmaster
    BY <1>0, <2>1, AttachFacts
  <2>3. \A n \in Namespaces, m \in Links :
          kmaster'[n][m] = kmaster[n][m] \/ (n = ns /\ m = l /\ kmaster'[n][m] = v.name)
    BY <1>0, <2>2 DEF TypeOK
  <2> SUFFICES ASSUME NEW n \in Namespaces, NEW m \in Links, kmaster'[n][m] # NoMaster
               PROVE  \E u \in Workers : /\ NsOf[u] = n /\ LinkOf[u] = m
                                         /\ cfg[u].vrf # NoVRF
                                         /\ kmaster'[n][m] = cfg[u].vrf.name
    BY <1>0 DEF MasterMine
  <2>4. CASE kmaster'[n][m] = kmaster[n][m]
    BY <1>0, <2>4 DEF MasterMine
  <2>5. CASE n = ns /\ m = l /\ kmaster'[n][m] = v.name
    BY <2>2, <2>5
  <2>6. QED
    BY <2>3, <2>4, <2>5
<1>2. CASE ~\E w \in Workers : VRFAttach(w)
  <2>1. kmaster' = kmaster
    BY <1>2 DEF Next, Start, Retry, VRFEnsure, RouteStep, RoutesDone, NeighStep,
                NeighborsDone, RuleStep, RulesDone, Finished, vars, kernelVars
  <2>2. QED
    BY <1>0, <2>1 DEF MasterMine
<1>3. QED
  BY <1>1, <1>2

LEMMA NextKernelInv == KernelInv /\ [Next]_vars => KernelInv'
<1> SUFFICES ASSUME KernelInv, [Next]_vars PROVE KernelInv'
  OBVIOUS
<1>1. SuccessInv'
  BY NextSuccessInv DEF KernelInv
<1>2. MasterMine'
  BY MasterStep
<1>3. QED
  BY <1>1, <1>2 DEF KernelInv

\* The initial kernel is the abstract initial kernel
LEMMA InitRefinesKernel == Init => AK!Init
BY DEF Init, AK!Init

\* A step that leaves the kernel alone is an abstract stutter
LEMMA KernelStutter ==
  ASSUME UNCHANGED kernelVars
  PROVE  UNCHANGED AK!kvars
BY DEF kernelVars, AK!kvars

(***************************************************************************)
(* Each step of the engine is a step of AbstractKernel or a stutter: the   *)
(* netlink and sysctl calls of a device map to AK!Apply of its namespace.  *)
(***************************************************************************)
LEMMA StepRefinesKernel ==
  ASSUME KernelInv, [Next]_vars
  PROVE  [AK!Next]_AK!kvars
<1>0. TypeOK /\ PendingOK /\ MasterMine /\ SuccessInv
  BY DEF KernelInv, SuccessInv, TypeInv
<1>1. ASSUME NEW w \in Workers, VRFEnsure(w) PROVE AK!Apply(NsOf[w])
  <2> DEFINE ns == NsOf[w]
             v == cfg[w].vrf
  <2>1. ns \in Namespaces /\ v.name \in VRFNames
    BY <1>0, <1>1, CfgFacts, NsAssumption DEF VRFEnsure, PendingOK
  <2>2. UNCHANGED <<kroutes, kneighs, krules, kup, kmaster, ksysctl>>
    BY <1>1 DEF VRFEnsure
  <2>3. kvrf' = kvrf \/ (kvrf[ns][v.name] = 0 /\ kvrf' = [kvrf EXCEPT ![ns][v.name] = v.table])
    BY <1>1 DEF VRFEnsure
  <2>4. \A n \in Namespaces, x \in VRFNames :
          kvrf'[n][x] = kvrf[n][x] \/ (n = ns /\ x = v.name /\ kvrf[n][x] = 0)
    BY <1>0, <2>1, <2>3 DEF TypeOK
  <2>5. \A n \in Namespaces \ {ns} : kvrf'[n] = kvrf[n]
    BY <1>0, <2>1, <2>3 DEF TypeOK
  <2>6. QED
    BY <2>1, <2>2, <2>4, <2>5 DEF AK!Apply, AK!Extend, AK!Elsewhere
<1>2. ASSUME NEW w \in Workers, VRFAttach(w) PROVE AK!Apply(NsOf[w])
  <2> DEFINE ns == NsOf[w]
             l == LinkOf[w]
             v == cfg[w].vrf
  <2>1. /\ v # NoVRF /\ v.name \in VRFNames /\ ns \in Namespaces /\ l \in Links
        /\ \E kk \in 0..4 :
             /\ kup' = IF kk >= 1 THEN [kup EXCEPT ![ns] = @ \cup {v.name}] ELSE kup
             /\ kmaster' = IF kk >= 2 THEN [kmaster EXCEPT ![ns][l] = v.name] ELSE kmaster
             /\ ksysctl' = [ksysctl EXCEPT ![ns] =
                              @ \cup (IF kk >= 3 THEN {"tcp"} ELSE {})
                                \cup (IF kk >= 4 THEN {"udp"} ELSE {})]
        /\ UNCHANGED <<kneighs, krules, kvrf>>
    BY <1>0, <1>2, AttachFacts
  <2>2. \A n \in Namespaces : kroutes[n] \subseteq kroutes'[n]
    BY <1>0, <1>2, RoutesGrow DEF Next
  <2>3. \A n \in Namespaces \ {ns} : kroutes'[n] = kroutes[n]
    <3>1. PICK kk \in IF KernelFaults THEN 0..4 ELSE {4} :
            kroutes' = IF kk >= 2 /\ MasterChanged(ns, l, v.name)
                         THEN [kroutes EXCEPT ![ns] = {r \in @ : r.link # l}]
                         ELSE kroutes
      BY <1>2 DEF VRFAttach
    <3>2. QED
      BY <1>0, <2>1, <3>1 DEF TypeOK
  \* the link keeps its master: it is the device's own link
  <2>4. kmaster[ns][l] # NoMaster => kmaster[ns][l] = v.name
    <3>1. SUFFICES ASSUME kmaster[ns][l] # NoMaster PROVE kmaster[ns][l] = v.name
      OBVIOUS
    <3>2. PICK u \in Workers : /\ NsOf[u] = ns /\ LinkOf[u] = l
                               /\ kmaster[ns][l] = cfg[u].vrf.name
      BY <1>0, <2>1, <3>1 DEF MasterMine
    <3>3. u = w
      BY <3>2, LinkAssumption
    <3>4. QED
      BY <3>2, <3>3
  <2>5. /\ kup[ns] \subseteq kup'[ns] /\ ksysctl[ns] \subseteq ksysctl'[ns]
        /\ \A m \in Links : kmaster[ns][m] # NoMaster => kmaster'[ns][m] = kmaster[ns][m]
        /\ \A n \in Namespaces \ {ns} : /\ kup'[n] = kup[n] /\ kmaster'[n] = kmaster[n]
                                        /\ ksysctl'[n] = ksysctl[n]
    BY <1>0, <2>1, <2>4 DEF TypeOK
  <2>6. QED
    BY <2>1, <2>2, <2>3, <2>5 DEF AK!Apply, AK!Extend, AK!Elsewhere
<1>3. ASSUME NEW w \in Workers, RouteStep(w) PROVE AK!Apply(NsOf[w])
  <2>1. NsOf[w] \in Namespaces
    BY NsAssumption
  <2>2. PICK i \in pending[w] :
          kroutes' = IF RouteResult(w, KRouteOf(w, cfg[w].routes[i])) = "ok"
                       THEN [kroutes EXCEPT ![NsOf[w]] = @ \cup {KRouteOf(w, cfg[w].routes[i])}]
                       ELSE kroutes
    BY <1>3 DEF RouteStep
  <2>3. UNCHANGED <<kneighs, krules, kvrf, kup, kmaster, ksysctl>>
    BY <1>3 DEF RouteStep
  <2>4. /\ kroutes[NsOf[w]] \subseteq kroutes'[NsOf[w]]
        /\ \A n \in Namespaces \ {NsOf[w]} : kroutes'[n] = kroutes[n]
    BY <1>0, <2>1, <2>2 DEF TypeOK
  <2>5. QED
    BY <2>3, <2>4 DEF AK!Apply, AK!Extend, AK!Elsewhere
<1>4. ASSUME NEW w \in Workers, NeighStep(w) PROVE AK!Apply(NsOf[w])
  <2>1. NsOf[w] \in Namespaces
    BY NsAssumption
  <2>2. PICK i \in pending[w] :
          kneighs' = IF NeighExists(NsOf[w], LinkOf[w], cfg[w].neighbors[i].ip)
                       THEN kneighs
                       ELSE [kneighs EXCEPT ![NsOf[w]] =
                               @ \cup {[link |-> LinkOf[w], ip |-> cfg[w].neighbors[i].ip,
                                        mac |-> cfg[w].neighbors[i].mac]}]
    BY <1>4 DEF NeighStep
  <2>3. UNCHANGED <<kroutes, krules, kvrf, kup, kmaster, ksysctl>>
    BY <1>4 DEF NeighStep
  <2>4. /\ kneighs[NsOf[w]] \subseteq kneighs'[NsOf[w]]
        /\ \A n \in Namespaces \ {NsOf[w]} : kneighs'[n] = kneighs[n]
    BY <1>0, <2>1, <2>2 DEF TypeOK
  <2>5. QED
    BY <2>3, <2>4 DEF AK!Apply, AK!Extend, AK!Elsewhere
<1>5. ASSUME NEW w \in Workers, RuleStep(w) PROVE AK!Apply(NsOf[w])
  <2>1. NsOf[w] \in Namespaces
    BY NsAssumption
  <2>2. PICK i \in pending[w] :
          krules' = [krules EXCEPT ![NsOf[w]] = @ \cup {cfg[w].rules[i]}]
    BY <1>5 DEF RuleStep
  <2>3. UNCHANGED <<kroutes, kneighs, kvrf, kup, kmaster, ksysctl>>
    BY <1>5 DEF RuleStep
  <2>4. /\ krules[NsOf[w]] \subseteq krules'[NsOf[w]]
        /\ \A n \in Namespaces \ {NsOf[w]} : krules'[n] = krules[n]
    BY <1>0, <2>1, <2>2 DEF TypeOK
  <2>5. QED
    BY <2>3, <2>4 DEF AK!Apply, AK!Extend, AK!Elsewhere
<1>6. ASSUME NEW w \in Workers, NsOf[w] \in Namespaces, AK!Apply(NsOf[w])
      PROVE  [AK!Next]_AK!kvars
  BY <1>6 DEF AK!Next
<1>7. ASSUME NEW w \in Workers,
             \/ Start(w) \/ Retry(w) \/ RoutesDone(w) \/ NeighborsDone(w)
             \/ RulesDone(w)
      PROVE  UNCHANGED AK!kvars
  <2>1. UNCHANGED kernelVars
    BY <1>7 DEF Start, Retry, RoutesDone, NeighborsDone, RulesDone
  <2>2. QED
    BY <2>1, KernelStutter
<1>8. CASE Finished \/ UNCHANGED vars
  <2>1. UNCHANGED kernelVars
    BY <1>8 DEF Finished, vars
  <2>2. QED
    BY <2>1, KernelStutter
<1>9. QED
  <2>1. \A w \in Workers : NsOf[w] \in Namespaces
    BY NsAssumption
  <2>2. QED
    BY <1>1, <1>2, <1>3, <1>4, <1>5, <1>6, <1>7, <1>8, <2>1 DEF Next

(***************************************************************************)
(* For every value of the constants, the engine implements AbstractKernel *)
(* (KernelRefinement, checked by run netconfig_kernel_kept): however the   *)
(* devices interleave, fail on the VRF path and are re-invoked, no step    *)
(* removes a route, neighbour, rule, up flag or sysctl, changes the table  *)
(* of an existing VRF device (applyVRFConfig reuses it by name), moves an  *)
(* enslaved link to another VRF, or touches another namespace.  The flush  *)
(* of LinkSetMaster never finds a route (SuccessInv), and a link is only   *)
(* ever enslaved by its own device, to the VRF of its config (MasterMine). *)
(***************************************************************************)
THEOREM KernelRefines == Spec => KernelRefinement
<1>1. Init => KernelInv
  BY InitKernelInv
<1>2. KernelInv /\ [Next]_vars => KernelInv'
  BY NextKernelInv
<1>3. Init => AK!Init
  BY InitRefinesKernel
<1>4. KernelInv /\ [Next]_vars => [AK!Next]_AK!kvars
  BY StepRefinesKernel
<1>5. QED
  BY <1>1, <1>2, <1>3, <1>4, PTL DEF Spec, KernelRefinement, AK!Spec

=============================================================================
