----------------------- MODULE NetConfigSuccessProofs -----------------------
(***************************************************************************)
(* Proof that an allocation the engine reports as successful has every    *)
(* kernel object it asked for (SuccessImpliesConfigured), for every value *)
(* of the constants that satisfies the assumptions of NetConfig, without  *)
(* DerivedTablesOnly: explicit VRF tables do not matter here.             *)
(*                                                                         *)
(* The argument.  Within one attempt with no error so far, each entry a   *)
(* loop has handled is in the kernel: RouteStep either adds the route or  *)
(* meets EEXIST for a route with the same (prefix, table) key, and any     *)
(* other outcome records an error.  The route loop writes to the table    *)
(* EffTable names, because applyVRFConfig returned the config's table.    *)
(* Kernel objects are never removed, save for the flush of a link whose   *)
(* master changes; but a route through a VRF device's link exists only    *)
(* once the link is enslaved to that VRF, and only that device's worker    *)
(* moves its link, always to the same VRF, so the flush finds nothing.    *)
(***************************************************************************)
EXTENDS NetConfigProofs

\* The phases after applyVRFConfig has returned
AfterVRF == {"routes", "neighbors", "rules", "done"}

\* The route loop writes to the table applyVRFConfig returned, 0 without a VRF
RouteTableOf(w) ==
  pc[w] = "routes" =>
    vrfTable[w] = IF cfg[w].vrf # NoVRF THEN cfg[w].vrf.table ELSE 0

\* A VRF device whose attempt got past applyVRFConfig has its link enslaved
AttachedOf(w) ==
  pc[w] \in AfterVRF /\ cfg[w].vrf # NoVRF =>
    kmaster[NsOf[w]][LinkOf[w]] = cfg[w].vrf.name

\* Every route goes through the link of a device of its namespace, and is
\* there only while that link is enslaved to the device's VRF, if it has one
RouteLinkOwner ==
  \A ns \in Namespaces : \A k \in kroutes[ns] :
    \E v \in Workers :
      /\ NsOf[v] = ns
      /\ LinkOf[v] = k.link
      /\ cfg[v].vrf # NoVRF => kmaster[ns][k.link] = cfg[v].vrf.name

\* The objects an allocation asks for, one entry at a time
RouteIn(w, i) ==
  \E k \in kroutes[NsOf[w]] : /\ k.dst = ParseCIDR(cfg[w].routes[i].dst)
                              /\ k.table = EffTable(w, cfg[w].routes[i])
NeighIn(w, i) ==
  \E e \in kneighs[NsOf[w]] : e.link = LinkOf[w] /\ e.ip = cfg[w].neighbors[i].ip
RuleIn(w, i) == cfg[w].rules[i] \in krules[NsOf[w]]
VRFIn(w) ==
  cfg[w].vrf # NoVRF =>
    /\ kmaster[NsOf[w]][LinkOf[w]] = cfg[w].vrf.name
    /\ cfg[w].vrf.name \in kup[NsOf[w]]
    /\ ksysctl[NsOf[w]] = {"tcp", "udp"}

\* What an attempt of w with no error so far has put in the kernel
ProgressOf(w) ==
  pc[w] \in AfterVRF /\ errs[w] = {} =>
    /\ VRFIn(w)
    /\ \A i \in DOMAIN cfg[w].routes :
         (pc[w] # "routes" \/ i \notin pending[w]) => RouteIn(w, i)
    /\ \A i \in DOMAIN cfg[w].neighbors :
         (pc[w] \in {"rules", "done"} \/ (pc[w] = "neighbors" /\ i \notin pending[w]))
           => NeighIn(w, i)
    /\ \A i \in DOMAIN cfg[w].rules :
         (pc[w] = "done" \/ (pc[w] = "rules" /\ i \notin pending[w])) => RuleIn(w, i)

WorkerInv(w) == RouteTableOf(w) /\ AttachedOf(w) /\ ProgressOf(w)

SuccessInv ==
  /\ TypeInv
  /\ RouteLinkOwner
  /\ \A w \in Workers : WorkerInv(w)

-----------------------------------------------------------------------------
LEMMA InitSuccessInv == Init => SuccessInv
<1> SUFFICES ASSUME Init PROVE SuccessInv
  OBVIOUS
<1>1. TypeInv
  BY InitTypeInv
<1>2. RouteLinkOwner
  BY DEF Init, RouteLinkOwner
<1>3. \A w \in Workers : WorkerInv(w)
  BY DEF Init, WorkerInv, RouteTableOf, AttachedOf, ProgressOf, AfterVRF
<1>4. QED
  BY <1>1, <1>2, <1>3 DEF SuccessInv

(***************************************************************************)
(* A step that leaves worker u's state alone, keeps the master of its link *)
(* and only adds kernel objects in its namespace keeps WorkerInv(u).       *)
(***************************************************************************)
LEMMA WorkerFrame ==
  ASSUME NEW u \in Workers, WorkerInv(u), cfg' = cfg,
         pc'[u] = pc[u], pending'[u] = pending[u], errs'[u] = errs[u],
         vrfTable'[u] = vrfTable[u],
         kmaster'[NsOf[u]][LinkOf[u]] = kmaster[NsOf[u]][LinkOf[u]],
         kroutes[NsOf[u]] \subseteq kroutes'[NsOf[u]],
         kneighs[NsOf[u]] \subseteq kneighs'[NsOf[u]],
         krules[NsOf[u]] \subseteq krules'[NsOf[u]],
         kup[NsOf[u]] \subseteq kup'[NsOf[u]],
         ksysctl[NsOf[u]] \subseteq ksysctl'[NsOf[u]],
         ksysctl'[NsOf[u]] \subseteq {"tcp", "udp"}
  PROVE  WorkerInv(u)'
<1>1. RouteTableOf(u)'
  BY DEF WorkerInv, RouteTableOf
<1>2. AttachedOf(u)'
  BY DEF WorkerInv, AttachedOf
<1>3. VRFIn(u) => VRFIn(u)'
  BY DEF VRFIn
<1>4. \A i \in DOMAIN cfg[u].routes : RouteIn(u, i) => RouteIn(u, i)'
  BY DEF RouteIn, EffTable
<1>5. \A i \in DOMAIN cfg[u].neighbors : NeighIn(u, i) => NeighIn(u, i)'
  BY DEF NeighIn
<1>6. \A i \in DOMAIN cfg[u].rules : RuleIn(u, i) => RuleIn(u, i)'
  BY DEF RuleIn
<1>7. ProgressOf(u)'
  BY <1>3, <1>4, <1>5, <1>6 DEF WorkerInv, ProgressOf
<1>8. QED
  BY <1>1, <1>2, <1>7 DEF WorkerInv

(***************************************************************************)
(* Start and Retry begin a new attempt: no error, no table, and, without a *)
(* VRF, every route still pending; nothing in the kernel changes.          *)
(***************************************************************************)
LEMMA BeginStep ==
  ASSUME SuccessInv, NEW w \in Workers, Start(w) \/ Retry(w)
  PROVE  RouteLinkOwner' /\ \A u \in Workers : WorkerInv(u)'
<1>0. TypeOK /\ RouteLinkOwner /\ \A u \in Workers : WorkerInv(u)
  BY DEF SuccessInv, TypeInv
<1>1. /\ Begin(w) /\ cfg' = cfg
      /\ UNCHANGED <<kroutes, kneighs, krules, kvrf, kup, kmaster, ksysctl>>
  BY DEF Start, Retry, kernelVars
<1>2. RouteLinkOwner'
  BY <1>0, <1>1 DEF RouteLinkOwner
<1>3. WorkerInv(w)'
  <2>1. CASE cfg[w].vrf # NoVRF
    <3>1. pc'[w] = "vrf"
      BY <1>0, <1>1, <2>1 DEF Begin, TypeOK
    <3>2. QED
      BY <3>1, <1>1 DEF WorkerInv, RouteTableOf, AttachedOf, ProgressOf, AfterVRF
  <2>2. CASE cfg[w].vrf = NoVRF
    <3>1. /\ pc'[w] = "routes" /\ pending'[w] = DOMAIN cfg[w].routes
          /\ vrfTable'[w] = 0
      BY <1>0, <1>1, <2>2 DEF Begin, TypeOK
    <3>2. RouteTableOf(w)' /\ AttachedOf(w)'
      BY <1>1, <2>2, <3>1 DEF RouteTableOf, AttachedOf
    <3>3. ProgressOf(w)'
      BY <1>1, <2>2, <3>1 DEF ProgressOf, VRFIn
    <3>4. QED
      BY <3>2, <3>3 DEF WorkerInv
  <2>3. QED
    BY <2>1, <2>2
<1>4. ASSUME NEW u \in Workers, u # w PROVE WorkerInv(u)'
  <2>1. /\ pc'[u] = pc[u] /\ pending'[u] = pending[u] /\ errs'[u] = errs[u]
        /\ vrfTable'[u] = vrfTable[u]
    BY <1>0, <1>1, <1>4 DEF Begin, TypeOK
  <2>2. ksysctl'[NsOf[u]] \subseteq {"tcp", "udp"}
    BY <1>0, <1>1, NsAssumption DEF TypeOK
  <2>3. QED
    BY <1>0, <1>1, <2>1, <2>2, WorkerFrame
<1>5. QED
  BY <1>2, <1>3, <1>4

(***************************************************************************)
(* The loop ends: the next loop starts with all its entries pending, and   *)
(* every entry of the finished loop has been handled.                      *)
(***************************************************************************)
LEMMA DoneStep ==
  ASSUME SuccessInv, NEW w \in Workers,
         RoutesDone(w) \/ NeighborsDone(w) \/ RulesDone(w)
  PROVE  RouteLinkOwner' /\ \A u \in Workers : WorkerInv(u)'
<1>0. TypeOK /\ RouteLinkOwner /\ \A u \in Workers : WorkerInv(u)
  BY DEF SuccessInv, TypeInv
<1>1. /\ cfg' = cfg /\ errs' = errs /\ vrfTable' = vrfTable
      /\ UNCHANGED <<kroutes, kneighs, krules, kvrf, kup, kmaster, ksysctl>>
      /\ pending[w] = {}
  BY DEF RoutesDone, NeighborsDone, RulesDone, kernelVars
<1>2. RouteLinkOwner'
  BY <1>0, <1>1 DEF RouteLinkOwner
<1>3. WorkerInv(w)'
  <2>1. WorkerInv(w)
    BY <1>0
  <2>2. CASE RoutesDone(w)
    <3>1. pc[w] = "routes" /\ pc'[w] = "neighbors"
          /\ pending'[w] = DOMAIN cfg[w].neighbors
      BY <1>0, <2>2 DEF RoutesDone, TypeOK
    <3>2. RouteTableOf(w)' /\ AttachedOf(w)'
      BY <1>1, <2>1, <3>1 DEF WorkerInv, RouteTableOf, AttachedOf, AfterVRF
    <3>3. ProgressOf(w)'
      BY <1>1, <2>1, <3>1 DEF WorkerInv, ProgressOf, AfterVRF, VRFIn, RouteIn, EffTable
    <3>4. QED
      BY <3>2, <3>3 DEF WorkerInv
  <2>3. CASE NeighborsDone(w)
    <3>1. pc[w] = "neighbors" /\ pc'[w] = "rules"
          /\ pending'[w] = DOMAIN cfg[w].rules
      BY <1>0, <2>3 DEF NeighborsDone, TypeOK
    <3>2. RouteTableOf(w)' /\ AttachedOf(w)'
      BY <1>1, <2>1, <3>1 DEF WorkerInv, RouteTableOf, AttachedOf, AfterVRF
    <3>3. ProgressOf(w)'
      BY <1>1, <2>1, <3>1 DEF WorkerInv, ProgressOf, AfterVRF, VRFIn, RouteIn, NeighIn, EffTable
    <3>4. QED
      BY <3>2, <3>3 DEF WorkerInv
  <2>4. CASE RulesDone(w)
    <3>1. pc[w] = "rules" /\ pc'[w] = "done" /\ pending' = pending
      BY <1>0, <2>4 DEF RulesDone, TypeOK
    <3>2. RouteTableOf(w)' /\ AttachedOf(w)'
      BY <1>1, <2>1, <3>1 DEF WorkerInv, RouteTableOf, AttachedOf, AfterVRF
    <3>3. ProgressOf(w)'
      BY <1>1, <2>1, <3>1 DEF WorkerInv, ProgressOf, AfterVRF, VRFIn, RouteIn, NeighIn, RuleIn, EffTable
    <3>4. QED
      BY <3>2, <3>3 DEF WorkerInv
  <2>5. QED
    BY <2>2, <2>3, <2>4
<1>4. ASSUME NEW u \in Workers, u # w PROVE WorkerInv(u)'
  <2>1. /\ pc'[u] = pc[u] /\ pending'[u] = pending[u]
    BY <1>0, <1>4 DEF RoutesDone, NeighborsDone, RulesDone, TypeOK
  <2>2. ksysctl'[NsOf[u]] \subseteq {"tcp", "udp"}
    BY <1>0, <1>1, NsAssumption DEF TypeOK
  <2>3. QED
    BY <1>0, <1>1, <2>1, <2>2, WorkerFrame
<1>5. QED
  BY <1>2, <1>3, <1>4

(***************************************************************************)
(* VRFEnsure only creates a VRF device; its worker stays before the route  *)
(* loop.                                                                   *)
(***************************************************************************)
LEMMA EnsureStep ==
  ASSUME SuccessInv, NEW w \in Workers, VRFEnsure(w)
  PROVE  RouteLinkOwner' /\ \A u \in Workers : WorkerInv(u)'
<1>0. TypeOK /\ RouteLinkOwner /\ \A u \in Workers : WorkerInv(u)
  BY DEF SuccessInv, TypeInv
<1>1. /\ cfg' = cfg /\ pending' = pending /\ vrfTable' = vrfTable
      /\ UNCHANGED <<kroutes, kneighs, krules, kup, kmaster, ksysctl>>
  BY DEF VRFEnsure
<1>2. pc' = [pc EXCEPT ![w] = "vrf_attach"] \/ pc' = [pc EXCEPT ![w] = "failed"]
  BY DEF VRFEnsure, Fail
<1>3. \A u \in Workers \ {w} : errs'[u] = errs[u]
  BY <1>0 DEF VRFEnsure, Fail, TypeOK
<1>4. RouteLinkOwner'
  BY <1>0, <1>1 DEF RouteLinkOwner
<1>5. WorkerInv(w)'
  <2>1. pc'[w] \notin AfterVRF \cup {"routes"}
    BY <1>0, <1>2 DEF TypeOK, AfterVRF
  <2>2. QED
    BY <2>1 DEF WorkerInv, RouteTableOf, AttachedOf, ProgressOf
<1>6. ASSUME NEW u \in Workers, u # w PROVE WorkerInv(u)'
  <2>1. pc'[u] = pc[u] /\ errs'[u] = errs[u]
    BY <1>0, <1>2, <1>3, <1>6 DEF TypeOK
  <2>2. ksysctl'[NsOf[u]] \subseteq {"tcp", "udp"}
    BY <1>0, <1>1, NsAssumption DEF TypeOK
  <2>3. QED
    BY <1>0, <1>1, <2>1, <2>2, WorkerFrame
<1>7. QED
  BY <1>4, <1>5, <1>6

(***************************************************************************)
(* A step of the neighbour loop adds the entry for its link, or finds one  *)
(* for the same link and IP (EEXIST).                                      *)
(***************************************************************************)
LEMMA NeighStepInv ==
  ASSUME SuccessInv, NEW w \in Workers, NeighStep(w)
  PROVE  RouteLinkOwner' /\ \A u \in Workers : WorkerInv(u)'
<1>0. TypeOK /\ PendingOK /\ RouteLinkOwner /\ \A u \in Workers : WorkerInv(u)
  BY DEF SuccessInv, TypeInv
<1> DEFINE ns == NsOf[w]
<1>1. PICK i \in pending[w] :
        /\ InListOrder(w, i)
        /\ pending' = [pending EXCEPT ![w] = @ \ {i}]
        /\ kneighs' = IF NeighExists(ns, LinkOf[w], cfg[w].neighbors[i].ip)
                        THEN kneighs
                        ELSE [kneighs EXCEPT ![ns] =
                                @ \cup {[link |-> LinkOf[w], ip |-> cfg[w].neighbors[i].ip,
                                         mac |-> cfg[w].neighbors[i].mac]}]
  BY DEF NeighStep, Advance
<1>2. /\ pc[w] = "neighbors" /\ ns \in Namespaces
      /\ UNCHANGED <<cfg, pc, errs, vrfTable, kroutes, krules, kup, kmaster, ksysctl>>
  BY NsAssumption DEF NeighStep
<1>3. \A n \in Namespaces : kneighs[n] \subseteq kneighs'[n]
  BY <1>0, <1>1 DEF TypeOK
<1>4. NeighIn(w, i)'
  <2>1. CASE NeighExists(ns, LinkOf[w], cfg[w].neighbors[i].ip)
    <3>1. kneighs' = kneighs
      BY <1>1, <2>1
    <3>2. QED
      BY <1>2, <2>1, <3>1 DEF NeighIn, NeighExists
  <2>2. CASE ~NeighExists(ns, LinkOf[w], cfg[w].neighbors[i].ip)
    <3> DEFINE e == [link |-> LinkOf[w], ip |-> cfg[w].neighbors[i].ip,
                     mac |-> cfg[w].neighbors[i].mac]
    <3>1. kneighs'[ns] = kneighs[ns] \cup {e}
      BY <1>0, <1>1, <1>2, <2>2 DEF TypeOK
    <3>2. e \in kneighs'[ns] /\ e.link = LinkOf[w] /\ e.ip = cfg[w].neighbors[i].ip
      BY <3>1
    <3>3. QED
      BY <1>2, <3>2 DEF NeighIn
  <2>3. QED
    BY <2>1, <2>2
<1>5. RouteLinkOwner'
  BY <1>0, <1>2 DEF RouteLinkOwner
<1>6. WorkerInv(w)'
  <2>1. WorkerInv(w)
    BY <1>0
  <2>2. RouteTableOf(w)' /\ AttachedOf(w)'
    BY <1>2, <2>1 DEF WorkerInv, RouteTableOf, AttachedOf, AfterVRF
  <2>3. pending'[w] = pending[w] \ {i}
    BY <1>0, <1>1 DEF TypeOK
  <2>4. VRFIn(w) => VRFIn(w)'
    BY <1>2 DEF VRFIn
  <2>5. \A j \in DOMAIN cfg[w].routes : RouteIn(w, j) => RouteIn(w, j)'
    BY <1>2 DEF RouteIn, EffTable
  <2>6. \A j \in DOMAIN cfg[w].neighbors : NeighIn(w, j) => NeighIn(w, j)'
    BY <1>2, <1>3 DEF NeighIn
  <2>7. ProgressOf(w)'
    BY <1>2, <1>4, <2>1, <2>3, <2>4, <2>5, <2>6 DEF WorkerInv, ProgressOf, AfterVRF
  <2>8. QED
    BY <2>2, <2>7 DEF WorkerInv
<1>7. ASSUME NEW u \in Workers, u # w PROVE WorkerInv(u)'
  <2>1. pending'[u] = pending[u]
    BY <1>0, <1>1, <1>7 DEF TypeOK
  <2>2. ksysctl'[NsOf[u]] \subseteq {"tcp", "udp"} /\ NsOf[u] \in Namespaces
    BY <1>0, <1>2, NsAssumption DEF TypeOK
  <2>3. QED
    BY <1>0, <1>2, <1>3, <2>1, <2>2, WorkerFrame
<1>8. QED
  BY <1>5, <1>6, <1>7

(***************************************************************************)
(* A step of the rule loop adds its rule (an identical one is EEXIST).     *)
(***************************************************************************)
LEMMA RuleStepInv ==
  ASSUME SuccessInv, NEW w \in Workers, RuleStep(w)
  PROVE  RouteLinkOwner' /\ \A u \in Workers : WorkerInv(u)'
<1>0. TypeOK /\ PendingOK /\ RouteLinkOwner /\ \A u \in Workers : WorkerInv(u)
  BY DEF SuccessInv, TypeInv
<1> DEFINE ns == NsOf[w]
<1>1. PICK i \in pending[w] :
        /\ pending' = [pending EXCEPT ![w] = @ \ {i}]
        /\ krules' = [krules EXCEPT ![ns] = @ \cup {cfg[w].rules[i]}]
  BY DEF RuleStep, Advance
<1>2. /\ pc[w] = "rules" /\ ns \in Namespaces
      /\ UNCHANGED <<cfg, pc, errs, vrfTable, kroutes, kneighs, kup, kmaster, ksysctl>>
  BY NsAssumption DEF RuleStep
<1>3. \A n \in Namespaces : krules[n] \subseteq krules'[n]
  BY <1>0, <1>1 DEF TypeOK
<1>4. RuleIn(w, i)'
  BY <1>0, <1>1, <1>2 DEF RuleIn, TypeOK
<1>5. RouteLinkOwner'
  BY <1>0, <1>2 DEF RouteLinkOwner
<1>6. WorkerInv(w)'
  <2>1. WorkerInv(w)
    BY <1>0
  <2>2. RouteTableOf(w)' /\ AttachedOf(w)'
    BY <1>2, <2>1 DEF WorkerInv, RouteTableOf, AttachedOf, AfterVRF
  <2>3. pending'[w] = pending[w] \ {i}
    BY <1>0, <1>1 DEF TypeOK
  <2>4. VRFIn(w) => VRFIn(w)'
    BY <1>2 DEF VRFIn
  <2>5. \A j \in DOMAIN cfg[w].routes : RouteIn(w, j) => RouteIn(w, j)'
    BY <1>2 DEF RouteIn, EffTable
  <2>6. \A j \in DOMAIN cfg[w].neighbors : NeighIn(w, j) => NeighIn(w, j)'
    BY <1>2 DEF NeighIn
  <2>7. \A j \in DOMAIN cfg[w].rules : RuleIn(w, j) => RuleIn(w, j)'
    BY <1>2, <1>3 DEF RuleIn
  <2>8. ProgressOf(w)'
    BY <1>2, <1>4, <2>1, <2>3, <2>4, <2>5, <2>6, <2>7 DEF WorkerInv, ProgressOf, AfterVRF
  <2>9. QED
    BY <2>2, <2>8 DEF WorkerInv
<1>7. ASSUME NEW u \in Workers, u # w PROVE WorkerInv(u)'
  <2>1. pending'[u] = pending[u]
    BY <1>0, <1>1, <1>7 DEF TypeOK
  <2>2. ksysctl'[NsOf[u]] \subseteq {"tcp", "udp"} /\ NsOf[u] \in Namespaces
    BY <1>0, <1>2, NsAssumption DEF TypeOK
  <2>3. QED
    BY <1>0, <1>2, <1>3, <2>1, <2>2, WorkerFrame
<1>8. QED
  BY <1>5, <1>6, <1>7

(***************************************************************************)
(* The route RouteStep asks for has the key SuccessImpliesConfigured       *)
(* looks for: the table applyVRFConfig returned is the config's table, or  *)
(* none, so the override of RouteTable and EffTable agree.                 *)
(***************************************************************************)
LEMMA RouteKey ==
  ASSUME TypeOK, NEW w \in Workers, RouteTableOf(w), pc[w] = "routes",
         NEW r \in RouteConfig
  PROVE  /\ KRouteOf(w, r).dst = ParseCIDR(r.dst)
         /\ KRouteOf(w, r).table = EffTable(w, r)
         /\ KRouteOf(w, r).link = LinkOf[w]
<1>1. CASE cfg[w].vrf # NoVRF
  <2>1. vrfTable[w] = cfg[w].vrf.table /\ cfg[w].vrf.table \in Nat \ {0}
    BY <1>1 DEF RouteTableOf, TypeOK
  <2>2. RouteTable(w, r) = cfg[w].vrf.table
    BY <2>1 DEF RouteTable
  <2>3. QED
    BY <1>1, <2>2 DEF KRouteOf, EffTable
<1>2. CASE cfg[w].vrf = NoVRF
  <2>1. vrfTable[w] = 0
    BY <1>2 DEF RouteTableOf
  <2>2. RouteTable(w, r) = r.table
    BY <2>1 DEF RouteTable
  <2>3. QED
    BY <1>2, <2>2 DEF KRouteOf, EffTable
<1>3. QED
  BY <1>1, <1>2

\* What RouteAdd answers: EEXIST only when a route with the same key exists
LEMMA RouteResults ==
  ASSUME NEW w \in Workers, NEW k
  PROVE  /\ RouteResult(w, k) \in {"parse", "exists", "unreach", "ok"}
         /\ RouteResult(w, k) = "exists" =>
              \E e \in kroutes[NsOf[w]] : e.dst = k.dst /\ e.table = k.table
BY DEF RouteResult, RouteAddResult

(***************************************************************************)
(* A step of the route loop adds the route, or meets EEXIST for a route of *)
(* the same key, or records an error; the route it adds goes through the   *)
(* worker's link, which is already enslaved to the worker's VRF.          *)
(***************************************************************************)
LEMMA RouteStepInv ==
  ASSUME SuccessInv, NEW w \in Workers, RouteStep(w)
  PROVE  RouteLinkOwner' /\ \A u \in Workers : WorkerInv(u)'
<1>0. TypeOK /\ PendingOK /\ RouteLinkOwner /\ \A u \in Workers : WorkerInv(u)
  BY DEF SuccessInv, TypeInv
<1> DEFINE ns == NsOf[w]
<1>1. PICK i \in pending[w] :
        /\ pending' = [pending EXCEPT ![w] = @ \ {i}]
        /\ kroutes' = IF RouteResult(w, KRouteOf(w, cfg[w].routes[i])) = "ok"
                        THEN [kroutes EXCEPT ![ns] = @ \cup {KRouteOf(w, cfg[w].routes[i])}]
                        ELSE kroutes
        /\ errs' = IF RouteResult(w, KRouteOf(w, cfg[w].routes[i])) \in {"parse", "unreach"}
                     THEN [errs EXCEPT ![w] = @ \cup
                             {[cat |-> "route", idx |-> i,
                               why |-> RouteResult(w, KRouteOf(w, cfg[w].routes[i]))]}]
                     ELSE errs
  BY DEF RouteStep, Advance
<1> DEFINE r == cfg[w].routes[i]
           kr == KRouteOf(w, r)
           res == RouteResult(w, kr)
<1>2. /\ pc[w] = "routes" /\ ns \in Namespaces
      /\ UNCHANGED <<cfg, pc, vrfTable, kneighs, krules, kup, kmaster, ksysctl>>
  BY NsAssumption DEF RouteStep
<1>3. /\ i \in DOMAIN cfg[w].routes /\ r \in RouteConfig
      /\ WorkerInv(w)
  BY <1>0, <1>1, <1>2, CfgFacts DEF PendingOK
<1>4. kr.dst = ParseCIDR(r.dst) /\ kr.table = EffTable(w, r) /\ kr.link = LinkOf[w]
  BY <1>0, <1>2, <1>3, RouteKey DEF WorkerInv
<1>5. \A n \in Namespaces : kroutes[n] \subseteq kroutes'[n]
  BY <1>0, <1>1 DEF TypeOK
<1>6. res \in {"ok", "exists"} => RouteIn(w, i)'
  <2>1. CASE res = "ok"
    <3>1. kr \in kroutes'[ns]
      BY <1>0, <1>1, <1>2, <2>1 DEF TypeOK
    <3>2. QED
      BY <1>2, <1>4, <3>1 DEF RouteIn, EffTable
  <2>2. CASE res = "exists"
    <3>1. PICK e \in kroutes[ns] : e.dst = kr.dst /\ e.table = kr.table
      BY <2>2, RouteResults
    <3>2. e \in kroutes'[ns]
      BY <1>2, <1>5, <3>1
    <3>3. QED
      BY <1>2, <1>4, <3>1, <3>2 DEF RouteIn, EffTable
  <2>3. QED
    BY <2>1, <2>2
<1>7. RouteLinkOwner'
  <2> SUFFICES ASSUME NEW n \in Namespaces, NEW q \in kroutes'[n]
               PROVE  \E v \in Workers :
                        /\ NsOf[v] = n
                        /\ LinkOf[v] = q.link
                        /\ cfg'[v].vrf # NoVRF => kmaster'[n][q.link] = cfg'[v].vrf.name
    BY DEF RouteLinkOwner
  <2>1. CASE q \in kroutes[n]
    BY <1>0, <1>2, <2>1 DEF RouteLinkOwner
  <2>2. CASE q \notin kroutes[n]
    <3>1. q = kr /\ n = ns
      BY <1>0, <1>1, <2>2 DEF TypeOK
    <3>2. cfg[w].vrf # NoVRF => kmaster[ns][LinkOf[w]] = cfg[w].vrf.name
      BY <1>2, <1>3 DEF WorkerInv, AttachedOf, AfterVRF
    <3>3. QED
      BY <1>2, <1>4, <3>1, <3>2
  <2>3. QED
    BY <2>1, <2>2
<1>8. WorkerInv(w)'
  <2>1. RouteTableOf(w)' /\ AttachedOf(w)'
    BY <1>2, <1>3 DEF WorkerInv, RouteTableOf, AttachedOf
  <2>2. ProgressOf(w)'
    <3> SUFFICES ASSUME errs'[w] = {}
                 PROVE  /\ VRFIn(w)'
                        /\ \A j \in DOMAIN cfg'[w].routes :
                             (pc'[w] # "routes" \/ j \notin pending'[w]) => RouteIn(w, j)'
      BY <1>2 DEF ProgressOf
    <3>1. errs[w] = {} /\ res \in {"ok", "exists"}
      BY <1>0, <1>1, RouteResults DEF TypeOK
    <3>2. VRFIn(w) /\ \A j \in DOMAIN cfg[w].routes : j \notin pending[w] => RouteIn(w, j)
      BY <1>2, <1>3, <3>1 DEF WorkerInv, ProgressOf, AfterVRF
    <3>3. VRFIn(w)'
      BY <1>2, <3>2 DEF VRFIn
    <3>4. ASSUME NEW j \in DOMAIN cfg[w].routes, j \notin pending'[w] PROVE RouteIn(w, j)'
      <4>1. pending'[w] = pending[w] \ {i}
        BY <1>0, <1>1 DEF TypeOK
      <4>2. CASE j = i
        BY <1>6, <3>1, <4>2
      <4>3. CASE j # i
        <5>1. RouteIn(w, j)
          BY <3>2, <3>4, <4>1, <4>3
        <5>2. QED
          BY <1>2, <1>5, <5>1 DEF RouteIn, EffTable
      <4>4. QED
        BY <4>2, <4>3
    <3>5. QED
      BY <1>2, <3>3, <3>4
  <2>3. QED
    BY <2>1, <2>2 DEF WorkerInv
<1>9. ASSUME NEW u \in Workers, u # w PROVE WorkerInv(u)'
  <2>1. pending'[u] = pending[u] /\ errs'[u] = errs[u]
    BY <1>0, <1>1, <1>9 DEF TypeOK
  <2>2. ksysctl'[NsOf[u]] \subseteq {"tcp", "udp"} /\ NsOf[u] \in Namespaces
    BY <1>0, <1>2, NsAssumption DEF TypeOK
  <2>3. QED
    BY <1>0, <1>2, <1>5, <2>1, <2>2, WorkerFrame
<1>10. QED
  BY <1>7, <1>8, <1>9

(***************************************************************************)
(* The flush in VRFAttach finds nothing: a route through the link of a     *)
(* VRF device exists only while the link is enslaved to that VRF, and the  *)
(* flush happens only when the link is not.                                *)
(***************************************************************************)
LEMMA FlushFindsNothing ==
  ASSUME RouteLinkOwner, NEW w \in Workers, cfg[w].vrf # NoVRF,
         kmaster[NsOf[w]][LinkOf[w]] # cfg[w].vrf.name
  PROVE  {q \in kroutes[NsOf[w]] : q.link # LinkOf[w]} = kroutes[NsOf[w]]
<1> SUFFICES ASSUME NEW q \in kroutes[NsOf[w]] PROVE q.link # LinkOf[w]
  OBVIOUS
<1>1. PICK v \in Workers :
        /\ NsOf[v] = NsOf[w]
        /\ LinkOf[v] = q.link
        /\ cfg[v].vrf # NoVRF => kmaster[NsOf[w]][q.link] = cfg[v].vrf.name
  BY NsAssumption DEF RouteLinkOwner
<1>2. CASE v = w
  BY <1>1, <1>2
<1>3. CASE v # w
  BY <1>1, <1>3, LinkAssumption
<1>4. QED
  BY <1>2, <1>3

(***************************************************************************)
(* VRFAttach: the first k of LinkSetUp, LinkSetMaster and the two sysctl   *)
(* writes succeed.  It only enslaves the worker's own link, to the         *)
(* worker's VRF, and on success the route loop starts with the config's    *)
(* table and everything the VRF needs in place.                            *)
(***************************************************************************)
LEMMA AttachStep ==
  ASSUME SuccessInv, NEW w \in Workers, VRFAttach(w)
  PROVE  RouteLinkOwner' /\ \A u \in Workers : WorkerInv(u)'
<1>0. TypeOK /\ PendingOK /\ RouteLinkOwner /\ \A u \in Workers : WorkerInv(u)
  BY DEF SuccessInv, TypeInv
<1> DEFINE ns == NsOf[w]
           l == LinkOf[w]
           v == cfg[w].vrf
           moved == MasterChanged(ns, l, v.name)
<1>1. /\ pc[w] = "vrf_attach" /\ v # NoVRF
      /\ ns \in Namespaces /\ l \in Links /\ v.name \in VRFNames
      /\ UNCHANGED <<cfg, kneighs, krules>>
  BY <1>0, NsAssumption, LinkAssumption, CfgFacts DEF VRFAttach, PendingOK
<1>2. PICK kk \in IF KernelFaults THEN 0..4 ELSE {4} :
        /\ kup' = IF kk >= 1 THEN [kup EXCEPT ![ns] = @ \cup {v.name}] ELSE kup
        /\ kmaster' = IF kk >= 2 THEN [kmaster EXCEPT ![ns][l] = v.name] ELSE kmaster
        /\ kroutes' = IF kk >= 2 /\ moved
                        THEN [kroutes EXCEPT ![ns] = {q \in @ : q.link # l}]
                        ELSE kroutes
        /\ ksysctl' = [ksysctl EXCEPT ![ns] =
                         @ \cup (IF kk >= 3 THEN {"tcp"} ELSE {})
                           \cup (IF kk >= 4 THEN {"udp"} ELSE {})]
        /\ IF kk = 4
             THEN /\ vrfTable' = [vrfTable EXCEPT ![w] = v.table]
                  /\ pc' = [pc EXCEPT ![w] = "routes"]
                  /\ pending' = [pending EXCEPT ![w] = DOMAIN cfg[w].routes]
                  /\ UNCHANGED errs
             ELSE /\ Fail(w)
                  /\ UNCHANGED <<vrfTable, pending>>
  BY DEF VRFAttach
<1>k. kk \in 0..4
  BY <1>2
<1>3. kroutes' = kroutes
  <2>1. CASE kk >= 2 /\ moved
    <3>1. {q \in kroutes[ns] : q.link # l} = kroutes[ns]
      BY <1>0, <1>1, <2>1, FlushFindsNothing DEF MasterChanged
    <3>2. QED
      BY <1>0, <1>2, <2>1, <3>1 DEF TypeOK
  <2>2. CASE ~(kk >= 2 /\ moved)
    BY <1>2, <2>2
  <2>3. QED
    BY <2>1, <2>2
\* The master of the worker's link becomes its VRF or stays; no other changes
<1>4. /\ kmaster'[ns][l] \in {kmaster[ns][l], v.name}
      /\ kk >= 2 => kmaster'[ns][l] = v.name
      /\ \A n \in Namespaces, m \in Links :
           <<n, m>> # <<ns, l>> => kmaster'[n][m] = kmaster[n][m]
  BY <1>0, <1>1, <1>2, <1>k DEF TypeOK
\* Any other worker's link is another (namespace, link) pair
<1>5. \A u \in Workers \ {w} : <<NsOf[u], LinkOf[u]>> # <<ns, l>>
  BY LinkAssumption
<1>6. /\ \A n \in Namespaces : kup[n] \subseteq kup'[n] /\ ksysctl[n] \subseteq ksysctl'[n]
      /\ kk >= 1 => v.name \in kup'[ns]
      /\ kk = 4 => {"tcp", "udp"} \subseteq ksysctl'[ns]
  BY <1>0, <1>1, <1>2, <1>k DEF TypeOK
<1>7. RouteLinkOwner'
  <2> SUFFICES ASSUME NEW n \in Namespaces, NEW q \in kroutes'[n]
               PROVE  \E o \in Workers :
                        /\ NsOf[o] = n
                        /\ LinkOf[o] = q.link
                        /\ cfg'[o].vrf # NoVRF => kmaster'[n][q.link] = cfg'[o].vrf.name
    BY DEF RouteLinkOwner
  <2>1. PICK o \in Workers :
          /\ NsOf[o] = n
          /\ LinkOf[o] = q.link
          /\ cfg[o].vrf # NoVRF => kmaster[n][q.link] = cfg[o].vrf.name
    BY <1>0, <1>3 DEF RouteLinkOwner
  <2>2. q.link \in Links
    BY <2>1, LinkAssumption
  <2>3. CASE o = w
    <3>1. kmaster[ns][l] = v.name
      BY <1>1, <2>1, <2>3
    <3>2. kmaster'[ns][l] = v.name
      BY <1>4, <3>1
    <3>3. QED
      BY <1>1, <2>1, <2>3, <3>2
  <2>4. CASE o # w
    <3>1. <<n, q.link>> # <<ns, l>>
      BY <1>5, <2>1, <2>4
    <3>2. kmaster'[n][q.link] = kmaster[n][q.link]
      BY <1>4, <2>2, <3>1
    <3>3. QED
      BY <1>1, <2>1, <3>2
  <2>5. QED
    BY <2>3, <2>4
<1>8. WorkerInv(w)'
  <2>1. CASE kk = 4
    <3>1. /\ vrfTable'[w] = v.table /\ pc'[w] = "routes"
          /\ pending'[w] = DOMAIN cfg[w].routes /\ errs' = errs
      BY <1>0, <1>2, <1>k, <2>1 DEF TypeOK
    <3>2. RouteTableOf(w)'
      BY <1>1, <3>1 DEF RouteTableOf
    <3>3. kmaster'[ns][l] = v.name
      BY <1>4, <2>1
    <3>4. AttachedOf(w)'
      BY <1>1, <3>3 DEF AttachedOf
    <3>5. VRFIn(w)'
      <4>1. v.name \in kup'[ns] /\ {"tcp", "udp"} \subseteq ksysctl'[ns]
        BY <1>6, <2>1
      <4>2. ksysctl'[ns] \subseteq {"tcp", "udp"}
        BY <1>0, <1>1, <1>2, <1>k DEF TypeOK
      <4>3. QED
        BY <1>1, <3>3, <4>1, <4>2 DEF VRFIn
    <3>6. ProgressOf(w)'
      BY <1>1, <3>1, <3>5 DEF ProgressOf
    <3>7. QED
      BY <3>2, <3>4, <3>6 DEF WorkerInv
  <2>2. CASE kk # 4
    <3>1. pc'[w] = "failed"
      BY <1>0, <1>2, <1>k, <2>2 DEF Fail, TypeOK
    <3>2. QED
      BY <3>1 DEF WorkerInv, RouteTableOf, AttachedOf, ProgressOf, AfterVRF
  <2>3. QED
    BY <2>1, <2>2
<1>9. ASSUME NEW u \in Workers, u # w PROVE WorkerInv(u)'
  <2>1. /\ pc'[u] = pc[u] /\ pending'[u] = pending[u] /\ errs'[u] = errs[u]
        /\ vrfTable'[u] = vrfTable[u]
    BY <1>0, <1>2, <1>9 DEF Fail, TypeOK
  <2>2. NsOf[u] \in Namespaces /\ LinkOf[u] \in Links
    BY NsAssumption, LinkAssumption
  <2>3. kmaster'[NsOf[u]][LinkOf[u]] = kmaster[NsOf[u]][LinkOf[u]]
    BY <1>4, <1>5, <1>9, <2>2
  <2>4. ksysctl'[NsOf[u]] \subseteq {"tcp", "udp"}
    BY <1>0, <1>1, <1>2, <2>2 DEF TypeOK
  <2>5. QED
    BY <1>0, <1>1, <1>3, <1>6, <2>1, <2>2, <2>3, <2>4, WorkerFrame
<1>10. QED
  BY <1>7, <1>8, <1>9

LEMMA NextSuccessInv == SuccessInv /\ [Next]_vars => SuccessInv'
<1> SUFFICES ASSUME SuccessInv, [Next]_vars PROVE SuccessInv'
  OBVIOUS
<1>1. TypeInv'
  BY NextTypeInv DEF SuccessInv
<1>2. RouteLinkOwner' /\ \A u \in Workers : WorkerInv(u)'
  <2>1. CASE \E w \in Workers : Start(w) \/ Retry(w)
    BY <2>1, BeginStep
  <2>2. CASE \E w \in Workers : VRFEnsure(w)
    BY <2>2, EnsureStep
  <2>3. CASE \E w \in Workers : VRFAttach(w)
    BY <2>3, AttachStep
  <2>4. CASE \E w \in Workers : RouteStep(w)
    BY <2>4, RouteStepInv
  <2>5. CASE \E w \in Workers : NeighStep(w)
    BY <2>5, NeighStepInv
  <2>6. CASE \E w \in Workers : RuleStep(w)
    BY <2>6, RuleStepInv
  <2>7. CASE \E w \in Workers : RoutesDone(w) \/ NeighborsDone(w) \/ RulesDone(w)
    BY <2>7, DoneStep
  <2>8. CASE Finished \/ UNCHANGED vars
    <3>1. UNCHANGED vars
      BY <2>8 DEF Finished
    <3>2. QED
      BY <3>1 DEF SuccessInv, vars, workerVars, kernelVars, RouteLinkOwner,
                  WorkerInv, RouteTableOf, AttachedOf, ProgressOf, VRFIn,
                  RouteIn, NeighIn, RuleIn, EffTable
  <2>9. QED
    BY <2>1, <2>2, <2>3, <2>4, <2>5, <2>6, <2>7, <2>8 DEF Next
<1>3. QED
  BY <1>1, <1>2 DEF SuccessInv

(***************************************************************************)
(* Whatever configurations the claims carry (explicit VRF tables          *)
(* included), however the devices of a pod interleave, fail on the VRF    *)
(* path and are re-invoked, an allocation the engine reports as           *)
(* successful has every route (keyed by prefix and effective table),      *)
(* neighbour entry, rule, VRF master, VRF up flag and sysctl it asked for *)
(* (SuccessImpliesConfigured, checked by run netconfig_safety): EEXIST is *)
(* only ignored for an entry with the same key, and the flush of a link   *)
(* that joins a VRF never removes a route.                                *)
(***************************************************************************)
THEOREM SuccessConfigured == Spec => []SuccessImpliesConfigured
<1>1. Init => SuccessInv
  BY InitSuccessInv
<1>2. SuccessInv /\ [Next]_vars => SuccessInv'
  BY NextSuccessInv
<1>3. SuccessInv => SuccessImpliesConfigured
  <2> SUFFICES ASSUME SuccessInv, NEW w \in Workers, Succeeded(w)
               PROVE  LET ns == NsOf[w] IN
                      /\ \A i \in DOMAIN cfg[w].routes :
                           \E k \in kroutes[ns] : /\ k.dst = ParseCIDR(cfg[w].routes[i].dst)
                                                 /\ k.table = EffTable(w, cfg[w].routes[i])
                      /\ \A i \in DOMAIN cfg[w].neighbors :
                           \E e \in kneighs[ns] : e.link = LinkOf[w] /\ e.ip = cfg[w].neighbors[i].ip
                      /\ \A i \in DOMAIN cfg[w].rules : cfg[w].rules[i] \in krules[ns]
                      /\ cfg[w].vrf # NoVRF =>
                           /\ kmaster[ns][LinkOf[w]] = cfg[w].vrf.name
                           /\ cfg[w].vrf.name \in kup[ns]
                           /\ ksysctl[ns] = {"tcp", "udp"}
    BY DEF SuccessImpliesConfigured
  <2>1. ProgressOf(w) /\ pc[w] = "done" /\ errs[w] = {}
    BY DEF SuccessInv, WorkerInv, Succeeded
  <2>2. QED
    BY <2>1 DEF ProgressOf, AfterVRF, VRFIn, RouteIn, NeighIn, RuleIn
<1>4. QED
  BY <1>1, <1>2, <1>3, PTL DEF Spec

-----------------------------------------------------------------------------
\* Every step keeps every route: only RouteStep and VRFAttach touch kroutes
LEMMA RoutesGrow ==
  ASSUME SuccessInv, [Next]_vars
  PROVE  \A ns \in Namespaces : kroutes[ns] \subseteq kroutes'[ns]
<1>0. TypeOK /\ PendingOK /\ RouteLinkOwner
  BY DEF SuccessInv, TypeInv
<1>1. CASE \E w \in Workers : VRFAttach(w)
  <2>1. PICK w \in Workers : VRFAttach(w)
    BY <1>1
  <2> DEFINE ns == NsOf[w]
             l == LinkOf[w]
             v == cfg[w].vrf
             moved == MasterChanged(ns, l, v.name)
  <2>2. v # NoVRF /\ ns \in Namespaces
    BY <1>0, <2>1, NsAssumption DEF VRFAttach, PendingOK
  <2>3. PICK kk \in IF KernelFaults THEN 0..4 ELSE {4} :
          kroutes' = IF kk >= 2 /\ moved
                       THEN [kroutes EXCEPT ![ns] = {q \in @ : q.link # l}]
                       ELSE kroutes
    BY <2>1 DEF VRFAttach
  <2>4. CASE kk >= 2 /\ moved
    <3>1. {q \in kroutes[ns] : q.link # l} = kroutes[ns]
      BY <1>0, <2>2, <2>4, FlushFindsNothing DEF MasterChanged
    <3>2. QED
      BY <1>0, <2>3, <2>4, <3>1 DEF TypeOK
  <2>5. CASE ~(kk >= 2 /\ moved)
    BY <2>3, <2>5
  <2>6. QED
    BY <2>4, <2>5
<1>2. CASE \E w \in Workers : RouteStep(w)
  <2>0. PICK w \in Workers : RouteStep(w)
    BY <1>2
  <2>1. PICK i \in pending[w] :
          kroutes' = IF RouteResult(w, KRouteOf(w, cfg[w].routes[i])) = "ok"
                       THEN [kroutes EXCEPT ![NsOf[w]] = @ \cup {KRouteOf(w, cfg[w].routes[i])}]
                       ELSE kroutes
    BY <2>0 DEF RouteStep
  <2>2. QED
    BY <1>0, <2>1 DEF TypeOK
<1>3. CASE \E w \in Workers : \/ Start(w) \/ Retry(w) \/ VRFEnsure(w)
                              \/ RoutesDone(w) \/ NeighStep(w) \/ NeighborsDone(w)
                              \/ RuleStep(w) \/ RulesDone(w)
  <2>1. kroutes' = kroutes
    BY <1>3 DEF Start, Retry, VRFEnsure, RoutesDone, NeighStep, NeighborsDone,
                RuleStep, RulesDone, kernelVars
  <2>2. QED
    BY <2>1
<1>4. CASE Finished \/ UNCHANGED vars
  BY <1>4 DEF Finished, vars, kernelVars
<1>5. QED
  BY <1>1, <1>2, <1>3, <1>4 DEF Next

-----------------------------------------------------------------------------
(***************************************************************************)
(* The sort of applyRoutingConfig (LinkRoutesFirst).  An entry j is a link *)
(* entry when it is a parsable link-scope route without gateway to a key   *)
(* that no other device of the pod routes.  A route with the key of a link *)
(* entry is a link-scope route out of the device's own link: no other     *)
(* device adds a route with that key, and the device itself reaches its    *)
(* universe routes only after its link routes, when the key already        *)
(* exists and RouteAdd answers EEXIST, if it does not reject the gateway.  *)
(***************************************************************************)
LinkEntry(w, j) ==
  LET r == cfg[w].routes[j] IN
  /\ r.scope = RT_SCOPE_LINK
  /\ r.gw = NoIP
  /\ ParseCIDR(r.dst) # NoPrefix
  /\ ~ForeignClash(w, j)

KeyLinkOnly ==
  \A w \in Workers : \A j \in DOMAIN cfg[w].routes : LinkEntry(w, j) =>
    \A k \in kroutes[NsOf[w]] :
      k.dst = ParseCIDR(cfg[w].routes[j].dst) /\ k.table = EffTable(w, cfg[w].routes[j])
        => k.scope = RT_SCOPE_LINK /\ k.link = LinkOf[w]

\* In the route loop, a handled link-scope entry without gateway has its key
LinkDone ==
  \A w \in Workers : pc[w] = "routes" =>
    \A j \in DOMAIN cfg[w].routes :
      /\ cfg[w].routes[j].scope = RT_SCOPE_LINK
      /\ cfg[w].routes[j].gw = NoIP
      /\ ParseCIDR(cfg[w].routes[j].dst) # NoPrefix
      /\ j \notin pending[w]
      => RouteIn(w, j)

LinkFirstInv == SuccessInv /\ KeyLinkOnly /\ LinkDone /\ LinkRoutesFirst

\* What RouteAdd answers when a route with the key exists, and when it
\* reports an unreachable gateway
LEMMA RouteAnswers ==
  ASSUME NEW w \in Workers, NEW kr
  PROVE  /\ (\E e \in kroutes[NsOf[w]] : e.dst = kr.dst /\ e.table = kr.table)
              => RouteResult(w, kr) # "ok"
         /\ RouteResult(w, kr) = "unreach" =>
              /\ kr.gw # NoIP
              /\ kr.scope = RT_SCOPE_LINK \/ ~Reachable(NsOf[w], kr.table, kr.gw, kr.link)
         /\ RouteResult(w, kr) \in {"parse", "exists", "unreach", "ok"}
         /\ kr.dst # NoPrefix => RouteResult(w, kr) # "parse"
<1>1. (\E e \in kroutes[NsOf[w]] : e.dst = kr.dst /\ e.table = kr.table)
        => RouteResult(w, kr) # "ok"
  BY DEF RouteResult, RouteAddResult
<1>2. RouteResult(w, kr) = "unreach" =>
        /\ kr.gw # NoIP
        /\ kr.scope = RT_SCOPE_LINK \/ ~Reachable(NsOf[w], kr.table, kr.gw, kr.link)
  <2>1. RouteAddResult(NsOf[w], kr) = "unreach" =>
          /\ kr.gw # NoIP
          /\ kr.scope = RT_SCOPE_LINK \/ ~Reachable(NsOf[w], kr.table, kr.gw, kr.link)
    BY DEF RouteAddResult
  <2>2. QED
    BY <2>1 DEF RouteResult
<1>3. RouteResult(w, kr) \in {"parse", "exists", "unreach", "ok"}
  BY DEF RouteResult, RouteAddResult
<1>4. kr.dst # NoPrefix => RouteResult(w, kr) # "parse"
  BY DEF RouteResult, RouteAddResult
<1>5. QED
  BY <1>1, <1>2, <1>3, <1>4

\* VRFAttach leaves the routes as they are: its flush finds nothing
LEMMA AttachKeepsRoutes ==
  ASSUME SuccessInv, NEW w \in Workers, VRFAttach(w)
  PROVE  kroutes' = kroutes
<1>0. TypeOK /\ PendingOK /\ RouteLinkOwner
  BY DEF SuccessInv, TypeInv
<1> DEFINE ns == NsOf[w]
           l == LinkOf[w]
           v == cfg[w].vrf
           moved == MasterChanged(ns, l, v.name)
<1>1. v # NoVRF /\ ns \in Namespaces
  BY <1>0, NsAssumption DEF VRFAttach, PendingOK
<1>2. PICK kk \in IF KernelFaults THEN 0..4 ELSE {4} :
        kroutes' = IF kk >= 2 /\ moved
                     THEN [kroutes EXCEPT ![ns] = {q \in @ : q.link # l}]
                     ELSE kroutes
  BY DEF VRFAttach
<1>3. CASE kk >= 2 /\ moved
  <2>1. {q \in kroutes[ns] : q.link # l} = kroutes[ns]
    BY <1>0, <1>1, <1>3, FlushFindsNothing DEF MasterChanged
  <2>2. QED
    BY <1>0, <1>2, <1>3, <2>1 DEF TypeOK
<1>4. CASE ~(kk >= 2 /\ moved)
  BY <1>2, <1>4
<1>5. QED
  BY <1>3, <1>4

(***************************************************************************)
(* A step that adds no route, and in which only worker w may start a route *)
(* loop (with every entry pending) or collect an error (of the VRF path),  *)
(* keeps the three conjuncts about the sort.                               *)
(***************************************************************************)
\* A step that keeps every config keeps the effective tables, the clashes
\* between devices, the link entries and the link routes a route relies on.
LEMMA CfgStable ==
  ASSUME cfg' = cfg
  PROVE  /\ \A u \in Workers : \A r : EffTable(u, r)' = EffTable(u, r)
         /\ \A u \in Workers : \A x : ForeignClash(u, x)' <=> ForeignClash(u, x)
         /\ \A u \in Workers : \A x : LinkEntry(u, x)' <=> LinkEntry(u, x)
         /\ \A u \in Workers : \A x : LinkRouteFor(u, x)' <=> LinkRouteFor(u, x)
<1>1. \A u \in Workers : \A r : EffTable(u, r)' = EffTable(u, r)
  BY DEF EffTable
<1>2. \A u \in Workers : \A x : ForeignClash(u, x)' <=> ForeignClash(u, x)
  BY <1>1 DEF ForeignClash
<1>3. \A u \in Workers : \A x : LinkEntry(u, x)' <=> LinkEntry(u, x)
  BY <1>2 DEF LinkEntry
<1>4. \A u \in Workers : \A x : LinkRouteFor(u, x)' <=> LinkRouteFor(u, x)
  BY <1>1, <1>2 DEF LinkRouteFor, OwnLinkRoute
<1>5. QED
  BY <1>1, <1>3, <1>2, <1>4

LEMMA LinkFrame ==
  ASSUME KeyLinkOnly, LinkDone, LinkRoutesFirst, NEW w \in Workers,
         cfg' = cfg, kroutes' = kroutes,
         \A u \in Workers \ {w} : pc'[u] = pc[u] /\ pending'[u] = pending[u]
                                  /\ errs'[u] = errs[u],
         pc'[w] = "routes" => pending'[w] = DOMAIN cfg[w].routes,
         \A e \in errs'[w] : e \in errs[w] \/ e.cat = "vrf"
  PROVE  KeyLinkOnly' /\ LinkDone' /\ LinkRoutesFirst'
<1>0. /\ \A u \in Workers : \A r : EffTable(u, r)' = EffTable(u, r)
      /\ \A u \in Workers : \A x : LinkEntry(u, x)' <=> LinkEntry(u, x)
      /\ \A u \in Workers : \A x : LinkRouteFor(u, x)' <=> LinkRouteFor(u, x)
  BY CfgStable
<1>1. KeyLinkOnly'
  BY <1>0 DEF KeyLinkOnly
<1>2. LinkDone'
  <2> SUFFICES ASSUME NEW u \in Workers, pc'[u] = "routes",
                      NEW j \in DOMAIN cfg[u].routes, j \notin pending'[u],
                      cfg[u].routes[j].scope = RT_SCOPE_LINK,
                      cfg[u].routes[j].gw = NoIP,
                      ParseCIDR(cfg[u].routes[j].dst) # NoPrefix
               PROVE  RouteIn(u, j)'
    BY DEF LinkDone
  <2>1. u # w
    OBVIOUS
  <2>2. RouteIn(u, j)
    BY <2>1 DEF LinkDone
  <2>3. QED
    BY <1>0, <2>2 DEF RouteIn
<1>3. LinkRoutesFirst'
  <2> SUFFICES ASSUME NEW u \in Workers, NEW e \in errs'[u],
                      e.cat = "route", e.why = "unreach"
               PROVE  cfg[u].routes[e.idx].scope = RT_SCOPE_LINK
                      \/ ~LinkRouteFor(u, e.idx)
    BY <1>0 DEF LinkRoutesFirst
  <2>1. e \in errs[u]
    OBVIOUS
  <2>2. QED
    BY <2>1 DEF LinkRoutesFirst
<1>4. QED
  BY <1>1, <1>2, <1>3

(***************************************************************************)
(* A step of the route loop.  It takes an entry of the highest scope left, *)
(* so a universe entry comes after every link entry, whose key is then in  *)
(* the kernel as a link-scope route: the gateway of a universe route that  *)
(* lies in such a route is reachable, and a universe route with the key of *)
(* a link entry of its own device meets EEXIST.                            *)
(***************************************************************************)
LEMMA RouteStepSorted ==
  ASSUME SuccessInv, KeyLinkOnly, LinkDone, LinkRoutesFirst,
         NEW w \in Workers, RouteStep(w)
  PROVE  KeyLinkOnly' /\ LinkDone' /\ LinkRoutesFirst'
<1>0. TypeOK /\ PendingOK /\ \A u \in Workers : WorkerInv(u)
  BY DEF SuccessInv, TypeInv
<1> DEFINE ns == NsOf[w]
<1>1. PICK i \in pending[w] :
        /\ SortedNext(w, i)
        /\ pending' = [pending EXCEPT ![w] = @ \ {i}]
        /\ kroutes' = IF RouteResult(w, KRouteOf(w, cfg[w].routes[i])) = "ok"
                        THEN [kroutes EXCEPT ![ns] = @ \cup {KRouteOf(w, cfg[w].routes[i])}]
                        ELSE kroutes
        /\ errs' = IF RouteResult(w, KRouteOf(w, cfg[w].routes[i])) \in {"parse", "unreach"}
                     THEN [errs EXCEPT ![w] = @ \cup
                             {[cat |-> "route", idx |-> i,
                               why |-> RouteResult(w, KRouteOf(w, cfg[w].routes[i]))]}]
                     ELSE errs
  BY DEF RouteStep, Advance
<1> DEFINE r == cfg[w].routes[i]
           kr == KRouteOf(w, r)
           res == RouteResult(w, kr)
<1>2. /\ pc[w] = "routes" /\ ns \in Namespaces
      /\ UNCHANGED <<cfg, pc, vrfTable>>
  BY NsAssumption DEF RouteStep
<1>3. /\ i \in DOMAIN cfg[w].routes /\ r \in RouteConfig
      /\ RouteTableOf(w)
  BY <1>0, <1>1, <1>2, CfgFacts DEF PendingOK, WorkerInv
<1>4. /\ kr.dst = ParseCIDR(r.dst) /\ kr.table = EffTable(w, r)
      /\ kr.gw = r.gw /\ kr.scope = r.scope /\ kr.link = LinkOf[w]
  BY <1>0, <1>2, <1>3, RouteKey DEF KRouteOf
<1>5. \A n \in Namespaces : kroutes[n] \subseteq kroutes'[n]
  BY <1>0, <1>1 DEF TypeOK
<1>6. \A q \in kroutes'[ns] : q \in kroutes[ns] \/ (q = kr /\ res = "ok")
  BY <1>0, <1>1, <1>2 DEF TypeOK
<1>7. \A n \in Namespaces \ {ns} : kroutes'[n] = kroutes[n]
  BY <1>0, <1>1 DEF TypeOK
\* With a universe entry next, every link-scope entry has been handled
<1>8. ASSUME r.scope # RT_SCOPE_LINK, NEW j \in DOMAIN cfg[w].routes,
             cfg[w].routes[j].scope = RT_SCOPE_LINK,
             cfg[w].routes[j].gw = NoIP,
             ParseCIDR(cfg[w].routes[j].dst) # NoPrefix
      PROVE  RouteIn(w, j)
  <2>1. r.scope = RT_SCOPE_UNIVERSE
    BY <1>3, <1>8 DEF RouteConfig
  <2>2. j \notin pending[w]
    BY <1>1, <1>8, <2>1 DEF SortedNext, RT_SCOPE_LINK, RT_SCOPE_UNIVERSE
  <2>3. QED
    BY <1>2, <1>8, <2>2 DEF LinkDone
<1>9. KeyLinkOnly'
  <2> SUFFICES ASSUME NEW u \in Workers, NEW j \in DOMAIN cfg[u].routes,
                      LinkEntry(u, j), NEW q \in kroutes'[NsOf[u]],
                      q.dst = ParseCIDR(cfg[u].routes[j].dst),
                      q.table = EffTable(u, cfg[u].routes[j])
               PROVE  q.scope = RT_SCOPE_LINK /\ q.link = LinkOf[u]
    <3>1. /\ \A u \in Workers : \A x : EffTable(u, x)' = EffTable(u, x)
          /\ \A u \in Workers : \A x : LinkEntry(u, x)' <=> LinkEntry(u, x)
      BY <1>2, CfgStable
    <3>2. QED
      BY <1>2, <3>1 DEF KeyLinkOnly
  <2>1. NsOf[u] \in Namespaces
    BY NsAssumption
  <2>2. CASE q \in kroutes[NsOf[u]]
    BY <2>2 DEF KeyLinkOnly
  <2>3. CASE q \notin kroutes[NsOf[u]]
    <3>1. NsOf[u] = ns /\ q = kr /\ res = "ok"
      BY <1>6, <1>7, <2>1, <2>3
    <3>2. u = w
      <4>1. SUFFICES ASSUME u # w PROVE FALSE
        OBVIOUS
      <4>2. ForeignClash(u, j)
        BY <1>3, <1>4, <3>1, <4>1 DEF ForeignClash
      <4>3. QED
        BY <4>2 DEF LinkEntry
    <3>3. CASE r.scope = RT_SCOPE_LINK
      BY <1>4, <3>1, <3>2, <3>3
    <3>4. CASE r.scope # RT_SCOPE_LINK
      <4>1. RouteIn(w, j)
        BY <1>8, <3>2, <3>4 DEF LinkEntry
      <4>2. \E e \in kroutes[ns] : e.dst = kr.dst /\ e.table = kr.table
        BY <1>4, <3>1, <3>2, <4>1 DEF RouteIn
      <4>3. QED
        BY <3>1, <4>2, RouteAnswers
    <3>5. QED
      BY <3>3, <3>4
  <2>4. QED
    BY <2>2, <2>3
<1>10. LinkDone'
  <2> SUFFICES ASSUME NEW u \in Workers, pc'[u] = "routes",
                      NEW j \in DOMAIN cfg[u].routes, j \notin pending'[u],
                      cfg[u].routes[j].scope = RT_SCOPE_LINK,
                      cfg[u].routes[j].gw = NoIP,
                      ParseCIDR(cfg[u].routes[j].dst) # NoPrefix
               PROVE  RouteIn(u, j)'
    BY <1>2 DEF LinkDone
  <2>1. \A x \in Workers : RouteIn(x, j) => RouteIn(x, j)'
    BY <1>2, <1>5, NsAssumption DEF RouteIn, EffTable
  <2>2. CASE u = w /\ j = i
    <3>1. res # "parse" /\ res # "unreach"
      BY <1>4, <2>2, RouteAnswers
    <3>2. res \in {"ok", "exists"}
      BY <3>1, RouteAnswers
    <3>3. CASE res = "ok"
      <4>1. kr \in kroutes'[ns]
        BY <1>0, <1>1, <1>2, <3>3 DEF TypeOK
      <4>2. QED
        BY <1>2, <1>4, <2>2, <4>1 DEF RouteIn, EffTable
    <3>4. CASE res = "exists"
      <4>1. PICK e \in kroutes[ns] : e.dst = kr.dst /\ e.table = kr.table
        BY <3>4, RouteResults
      <4>2. e \in kroutes'[ns]
        BY <1>2, <1>5, <4>1
      <4>3. QED
        BY <1>2, <1>4, <2>2, <4>1, <4>2 DEF RouteIn, EffTable
    <3>5. QED
      BY <3>2, <3>3, <3>4
  <2>3. CASE ~(u = w /\ j = i)
    <3>1. pc[u] = "routes" /\ j \notin pending[u]
      BY <1>0, <1>1, <1>2, <2>3 DEF TypeOK
    <3>2. RouteIn(u, j)
      BY <3>1 DEF LinkDone
    <3>3. QED
      BY <2>1, <3>2
  <2>4. QED
    BY <2>2, <2>3
<1>11. LinkRoutesFirst'
  <2>0. /\ cfg' = cfg
        /\ \A u \in Workers : \A x : LinkRouteFor(u, x)' <=> LinkRouteFor(u, x)
    BY <1>2, CfgStable
  <2> SUFFICES ASSUME NEW u \in Workers, NEW e \in errs'[u],
                      e.cat = "route", e.why = "unreach",
                      cfg[u].routes[e.idx].scope # RT_SCOPE_LINK,
                      LinkRouteFor(u, e.idx)
               PROVE  FALSE
    BY <2>0 DEF LinkRoutesFirst
  <2>1. CASE e \in errs[u]
    BY <2>1 DEF LinkRoutesFirst
  <2>2. CASE e \notin errs[u]
    <3>0. errs'[u] = IF u = w /\ res \in {"parse", "unreach"}
                     THEN errs[u] \cup {[cat |-> "route", idx |-> i, why |-> res]}
                     ELSE errs[u]
      BY <1>0, <1>1 DEF TypeOK
    <3>1. u = w /\ e = [cat |-> "route", idx |-> i, why |-> res] /\ res = "unreach"
      BY <2>2, <3>0
    <3>2. PICK j \in DOMAIN cfg[w].routes :
            /\ cfg[w].routes[j].scope = RT_SCOPE_LINK
            /\ cfg[w].routes[j].gw = NoIP
            /\ ParseCIDR(cfg[w].routes[j].dst) # NoPrefix
            /\ <<r.gw, ParseCIDR(cfg[w].routes[j].dst)>> \in CoveredBy
            /\ EffTable(w, cfg[w].routes[j]) = EffTable(w, r)
            /\ ~ForeignClash(w, j)
      BY <3>1 DEF LinkRouteFor, OwnLinkRoute
    <3>3. RouteIn(w, j)
      BY <1>8, <3>1, <3>2
    <3>4. PICK k \in kroutes[ns] : /\ k.dst = ParseCIDR(cfg[w].routes[j].dst)
                                  /\ k.table = EffTable(w, cfg[w].routes[j])
      BY <3>3 DEF RouteIn
    <3>5. k.scope = RT_SCOPE_LINK /\ k.link = LinkOf[w]
      BY <3>2, <3>4 DEF KeyLinkOnly, LinkEntry
    <3>6. Reachable(ns, kr.table, kr.gw, kr.link)
      BY <1>4, <3>2, <3>4, <3>5 DEF Reachable
    <3>7. kr.scope # RT_SCOPE_LINK
      BY <1>4, <3>1
    <3>8. QED
      BY <3>1, <3>6, <3>7, RouteAnswers
  <2>3. QED
    BY <2>1, <2>2
<1>12. QED
  BY <1>9, <1>10, <1>11

\* Every step keeps LinkFirstInv: the route loop by RouteStepSorted, the VRF
\* steps (which keep every route) and the other loops by LinkFrame.
LEMMA NextLinkFirstInv == LinkFirstInv /\ [Next]_vars => LinkFirstInv'
<1> SUFFICES ASSUME LinkFirstInv, [Next]_vars PROVE LinkFirstInv'
  OBVIOUS
<1>0. SuccessInv /\ TypeOK /\ KeyLinkOnly /\ LinkDone /\ LinkRoutesFirst
  BY DEF LinkFirstInv, SuccessInv, TypeInv
<1>1. SuccessInv'
  BY <1>0, NextSuccessInv
<1>2. KeyLinkOnly' /\ LinkDone' /\ LinkRoutesFirst'
  <2>1. ASSUME NEW w \in Workers, Start(w) \/ Retry(w)
        PROVE  KeyLinkOnly' /\ LinkDone' /\ LinkRoutesFirst'
    <3>1. /\ cfg' = cfg /\ kroutes' = kroutes
          /\ \A u \in Workers \ {w} : pc'[u] = pc[u] /\ pending'[u] = pending[u]
                                      /\ errs'[u] = errs[u]
          /\ pc'[w] = "routes" => pending'[w] = DOMAIN cfg[w].routes
          /\ errs'[w] = {}
      BY <1>0, <2>1 DEF Start, Retry, Begin, kernelVars, TypeOK
    <3>2. QED
      BY <1>0, <3>1, LinkFrame
  <2>2. ASSUME NEW w \in Workers, VRFEnsure(w)
        PROVE  KeyLinkOnly' /\ LinkDone' /\ LinkRoutesFirst'
    <3>1. /\ cfg' = cfg /\ kroutes' = kroutes
          /\ \A u \in Workers \ {w} : pc'[u] = pc[u] /\ pending'[u] = pending[u]
                                      /\ errs'[u] = errs[u]
          /\ pc'[w] # "routes"
          /\ \A e \in errs'[w] : e \in errs[w] \/ e.cat = "vrf"
      <4>1. UNCHANGED <<cfg, pending, kroutes>>
        BY <2>2 DEF VRFEnsure
      <4>2. \/ pc' = [pc EXCEPT ![w] = "vrf_attach"] /\ errs' = errs
            \/ pc' = [pc EXCEPT ![w] = "failed"] /\ errs' = [errs EXCEPT ![w] = @ \cup {[cat |-> "vrf", idx |-> 0, why |-> "kernel"]}]
        BY <2>2 DEF VRFEnsure, Fail
      <4>3. QED
        BY <1>0, <4>1, <4>2 DEF TypeOK
    <3>2. QED
      BY <1>0, <3>1, LinkFrame
  <2>3. ASSUME NEW w \in Workers, VRFAttach(w)
        PROVE  KeyLinkOnly' /\ LinkDone' /\ LinkRoutesFirst'
    <3>1. kroutes' = kroutes
      BY <1>0, <2>3, AttachKeepsRoutes
    <3>2. /\ cfg' = cfg
          /\ \A u \in Workers \ {w} : pc'[u] = pc[u] /\ pending'[u] = pending[u]
                                      /\ errs'[u] = errs[u]
          /\ pc'[w] = "routes" => pending'[w] = DOMAIN cfg[w].routes
          /\ \A e \in errs'[w] : e \in errs[w] \/ e.cat = "vrf"
      <4>1. cfg' = cfg
        BY <2>3 DEF VRFAttach
      <4>2. \/ /\ pc' = [pc EXCEPT ![w] = "routes"]
               /\ pending' = [pending EXCEPT ![w] = DOMAIN cfg[w].routes]
               /\ errs' = errs
            \/ /\ pc' = [pc EXCEPT ![w] = "failed"]
               /\ pending' = pending
               /\ errs' = [errs EXCEPT ![w] = @ \cup {[cat |-> "vrf", idx |-> 0, why |-> "kernel"]}]
        BY <2>3 DEF VRFAttach, Fail
      <4>3. QED
        BY <1>0, <4>1, <4>2 DEF TypeOK
    <3>3. QED
      BY <1>0, <3>1, <3>2, LinkFrame
  <2>4. ASSUME NEW w \in Workers, RouteStep(w)
        PROVE  KeyLinkOnly' /\ LinkDone' /\ LinkRoutesFirst'
    BY <1>0, <2>4, RouteStepSorted
  <2>5. ASSUME NEW w \in Workers,
               RoutesDone(w) \/ NeighStep(w) \/ NeighborsDone(w)
               \/ RuleStep(w) \/ RulesDone(w)
        PROVE  KeyLinkOnly' /\ LinkDone' /\ LinkRoutesFirst'
    <3>1. /\ cfg' = cfg /\ kroutes' = kroutes /\ errs' = errs
          /\ \A u \in Workers \ {w} : pc'[u] = pc[u] /\ pending'[u] = pending[u]
          /\ pc'[w] # "routes"
      BY <1>0, <2>5 DEF RoutesDone, NeighStep, NeighborsDone, RuleStep,
                        RulesDone, Advance, kernelVars, TypeOK
    <3>2. QED
      BY <1>0, <3>1, LinkFrame
  <2>6. CASE Finished \/ UNCHANGED vars
    <3>1. UNCHANGED vars
      BY <2>6 DEF Finished
    <3>2. /\ cfg' = cfg /\ kroutes' = kroutes /\ errs' = errs
          /\ pc' = pc /\ pending' = pending
      BY <3>1 DEF vars, workerVars, kernelVars
    <3>3. /\ \A u \in Workers : \A r : EffTable(u, r)' = EffTable(u, r)
          /\ \A u \in Workers : \A x : LinkEntry(u, x)' <=> LinkEntry(u, x)
          /\ \A u \in Workers : \A x : LinkRouteFor(u, x)' <=> LinkRouteFor(u, x)
      BY <3>2, CfgStable
    <3>4. KeyLinkOnly'
      BY <1>0, <3>2, <3>3 DEF KeyLinkOnly
    <3>5. LinkDone'
      BY <1>0, <3>2, <3>3 DEF LinkDone, RouteIn
    <3>6. LinkRoutesFirst'
      BY <1>0, <3>2, <3>3 DEF LinkRoutesFirst
    <3>7. QED
      BY <3>4, <3>5, <3>6
  <2>7. QED
    BY <2>1, <2>2, <2>3, <2>4, <2>5, <2>6 DEF Next
<1>3. QED
  BY <1>1, <1>2 DEF LinkFirstInv

(***************************************************************************)
(* For every value of the constants, a universe-scope route of a device    *)
(* is never reported unreachable when a link-scope route of the same       *)
(* device, to a prefix no other device of the pod routes in that table,   *)
(* covers its gateway (LinkRoutesFirst, checked by run netconfig_safety):  *)
(* applyRoutingConfig sorts the routes by descending scope, so the         *)
(* covering route is in the kernel, with link scope and out of the         *)
(* device's own link, before the universe route is added.                  *)
(***************************************************************************)
THEOREM SortedLinkRoutes == Spec => []LinkRoutesFirst
<1>1. Init => LinkFirstInv
  <2> SUFFICES ASSUME Init PROVE LinkFirstInv
    OBVIOUS
  <2>1. SuccessInv
    BY InitSuccessInv
  <2>2. KeyLinkOnly /\ LinkDone /\ LinkRoutesFirst
    BY NsAssumption DEF Init, KeyLinkOnly, LinkDone, LinkRoutesFirst
  <2>3. QED
    BY <2>1, <2>2 DEF LinkFirstInv
<1>2. LinkFirstInv /\ [Next]_vars => LinkFirstInv'
  BY NextLinkFirstInv
<1>3. LinkFirstInv => LinkRoutesFirst
  BY DEF LinkFirstInv
<1>4. QED
  BY <1>1, <1>2, <1>3, PTL DEF Spec

=============================================================================
