----------------------------- MODULE NetConfig -----------------------------
(***************************************************************************)
(* The network configuration engine of the driver (package driver):        *)
(* applyVRFConfig, applyRoutingConfig, applyNeighborConfig and             *)
(* applyRulesConfig program VRF membership, routes, permanent neighbour    *)
(* entries and policy rules into the network namespace of a pod, through a *)
(* netlink handle bound to that namespace.  The NetworkConfig they consume *)
(* has been defaulted and validated by package apis (Default,              *)
(* ValidateConfig).                                                        *)
(*                                                                         *)
(* A worker is one allocated device: the unit of work that configures one  *)
(* link LinkOf[w] inside the namespace NsOf[w].  The kernel state of every *)
(* namespace (routes, neighbours, rules, VRF devices, masters, sysctls) is *)
(* shared by the workers that target it.                                   *)
(***************************************************************************)
EXTENDS Integers, Sequences, FiniteSets

CONSTANTS
  Workers,        \* allocated devices being configured
  Namespaces,     \* pod network namespaces
  Links,          \* interface names inside the namespaces
  Prefixes,       \* IPv4 prefixes a CIDR string can denote
  IPs,            \* IPv4 addresses (gateways, neighbours, bare destinations)
  Macs,           \* hardware addresses
  VRFNames,       \* non-empty VRF names
  NsOf,           \* NsOf[w]: the namespace worker w configures
  LinkOf,         \* LinkOf[w]: the link worker w configures
  Candidates,     \* Candidates[w]: raw NetworkConfigs the claim may carry
  CoveredBy,      \* <<ip, prefix>> \in CoveredBy iff ip lies in prefix
  FNV32a,         \* FNV32a[n]: the 32-bit FNV-1a hash of the name n
  VRFTableOffset, \* apis.VRFTableOffset
  MaxRetries,     \* bound on re-invocations of one allocation
  KernelFaults,   \* may netlink/sysctl calls on the VRF path fail?
  NoIP, NoPrefix, NoVRF, NoTable, NoMaster  \* absent / unparsable values

ASSUME NsAssumption == NsOf \in [Workers -> Namespaces]
ASSUME LinkAssumption ==
  /\ LinkOf \in [Workers -> Links]
  \* a link lives in one namespace: two devices of a pod are distinct links
  /\ \A v, w \in Workers : v # w /\ NsOf[v] = NsOf[w] => LinkOf[v] # LinkOf[w]
ASSUME CoverAssumption == CoveredBy \subseteq IPs \X Prefixes
ASSUME HashAssumption == FNV32a \in [VRFNames -> Nat]
ASSUME OffsetAssumption == VRFTableOffset \in Nat
ASSUME RetryAssumption == MaxRetries \in Nat
ASSUME FaultAssumption == KernelFaults \in BOOLEAN
ASSUME SentinelAssumption ==
  /\ NoIP \notin IPs /\ NoPrefix \notin Prefixes /\ NoMaster \notin VRFNames
  /\ NoTable \notin Int
\* validateVRFConfig rejects an empty VRF name
ASSUME NameAssumption == "" \notin VRFNames

-----------------------------------------------------------------------------
(***************************************************************************)
(* Configuration data (pkg/apis).  A destination is the string of a        *)
(* RouteConfig: either a CIDR or a bare IP address, both accepted by       *)
(* validateRoutes.  Scopes are the kernel's numbers.                       *)
(***************************************************************************)
RT_SCOPE_UNIVERSE == 0
RT_SCOPE_LINK == 253
RT_TABLE_MAIN == 254

Dests == [kind : {"cidr"}, net : Prefixes] \cup [kind : {"ip"}, ip : IPs]

\* net.ParseCIDR and net.ParseIP applied to a destination string
ParseCIDR(d) == IF d.kind = "cidr" THEN d.net ELSE NoPrefix
ParseIP(d) == IF d.kind = "ip" THEN d.ip ELSE NoIP

RouteConfig ==
  [dst : Dests, gw : IPs \cup {NoIP}, scope : {RT_SCOPE_UNIVERSE, RT_SCOPE_LINK},
   table : Nat]
NeighborConfig == [ip : IPs, mac : Macs]
RuleConfig ==
  [prio : 0..32767, table : Nat, src : Prefixes \cup {NoPrefix},
   dst : Prefixes \cup {NoPrefix}]
VRFConfig == [name : VRFNames, table : Nat \cup {NoTable}]

NetworkConfig ==
  [routes : Seq(RouteConfig), neighbors : Seq(NeighborConfig),
   rules : Seq(RuleConfig), vrf : VRFConfig \cup {NoVRF}]

\* VRFConfig.Default: derive the table from the name when none is given
VRFDefaultTable(name) == (FNV32a[name] % 1000) + VRFTableOffset

Default(c) ==
  IF c.vrf # NoVRF /\ c.vrf.table = NoTable
    THEN [c EXCEPT !.vrf = [name |-> c.vrf.name,
                            table |-> VRFDefaultTable(c.vrf.name)]]
    ELSE c

\* validateRoutes, validateVRFConfig, validateRules: the checks that can fail
\* on values of the types above.
ValidRoute(r) ==
  /\ ParseCIDR(r.dst) # NoPrefix \/ ParseIP(r.dst) # NoIP
  /\ r.gw = NoIP => r.scope = RT_SCOPE_LINK

ValidVRF(v) == v.table # NoTable => v.table > 0 /\ v.table \notin {253, 254, 255}

ValidateConfig(c) ==
  /\ \A i \in DOMAIN c.routes : ValidRoute(c.routes[i])
  /\ c.vrf # NoVRF => ValidVRF(c.vrf)
  /\ c.rules # <<>> => c.vrf = NoVRF

\* The configurations that reach the engine for worker w
Accepted(w) == {Default(c) : c \in {d \in Candidates[w] : ValidateConfig(Default(d))}}

ASSUME CandidateAssumption == \A w \in Workers : Candidates[w] \subseteq NetworkConfig

-----------------------------------------------------------------------------
(***************************************************************************)
(* Kernel objects inside one namespace.  Table 0 in a netlink request      *)
(* means the main table.                                                   *)
(***************************************************************************)
KernelTable(t) == IF t = 0 THEN RT_TABLE_MAIN ELSE t

KRoute ==
  [dst : Prefixes, table : Nat, link : Links, gw : IPs \cup {NoIP},
   scope : {RT_SCOPE_UNIVERSE, RT_SCOPE_LINK}]
KNeigh == [link : Links, ip : IPs, mac : Macs]

Phases == {"idle", "vrf", "vrf_attach", "routes", "neighbors", "rules",
           "done", "failed"}
ErrorRec == [cat : {"vrf", "route"}, idx : Nat, why : {"parse", "unreach", "kernel"}]

VARIABLES
  cfg,       \* cfg[w]: the defaulted, validated NetworkConfig of worker w
  pc,        \* pc[w]: the step worker w is at
  pending,   \* pending[w]: entry indices the current loop has still to apply
  errs,      \* errs[w]: errors collected by the current attempt
  vrfTable,  \* vrfTable[w]: table returned by applyVRFConfig (0: no VRF)
  tries,     \* tries[w]: re-invocations so far
  kroutes,   \* kroutes[ns]: the IPv4 routes of ns
  kneighs,   \* kneighs[ns]: the neighbour entries of ns
  krules,    \* krules[ns]: the policy rules of ns
  kvrf,      \* kvrf[ns][n]: table of VRF device n in ns, 0 if absent
  kup,       \* kup[ns]: the VRF devices of ns that are up
  kmaster,   \* kmaster[ns][l]: the VRF link l is enslaved to
  ksysctl    \* ksysctl[ns]: the l3mdev_accept sysctls set to 1 in ns

workerVars == <<cfg, pc, pending, errs, vrfTable, tries>>
kernelVars == <<kroutes, kneighs, krules, kvrf, kup, kmaster, ksysctl>>
vars == <<workerVars, kernelVars>>

Init ==
  /\ cfg \in [Workers -> UNION {Accepted(w) : w \in Workers}]
  /\ \A w \in Workers : cfg[w] \in Accepted(w)
  /\ pc = [w \in Workers |-> "idle"]
  /\ pending = [w \in Workers |-> {}]
  /\ errs = [w \in Workers |-> {}]
  /\ vrfTable = [w \in Workers |-> 0]
  /\ tries = [w \in Workers |-> 0]
  /\ kroutes = [n \in Namespaces |-> {}]
  /\ kneighs = [n \in Namespaces |-> {}]
  /\ krules = [n \in Namespaces |-> {}]
  /\ kvrf = [n \in Namespaces |-> [v \in VRFNames |-> 0]]
  /\ kup = [n \in Namespaces |-> {}]
  /\ kmaster = [n \in Namespaces |-> [l \in Links |-> NoMaster]]
  /\ ksysctl = [n \in Namespaces |-> {}]

-----------------------------------------------------------------------------
(***************************************************************************)
(* Faulty variants of the helpers below, each one a plausible slip in the  *)
(* code.  Spec never uses them; they show that the properties can fail.   *)
(***************************************************************************)
RetryAllowedOffByOne(w) == tries[w] <= MaxRetries
AdvanceNone(w, i) == pending' = pending
SortedNextAny(w, i) == TRUE
RouteTableIgnoringVRF(w, r) == r.table
NeighExistsAnyLink(ns, l, ip) == \E e \in kneighs[ns] : e.ip = ip

-----------------------------------------------------------------------------
(***************************************************************************)
(* The caller (not part of the sources): the devices of one pod are        *)
(* configured one after the other, VRF first because its table is an      *)
(* argument of applyRoutingConfig, then routes, neighbours and rules.  A   *)
(* failed or partly failed allocation may be re-invoked.                   *)
(***************************************************************************)
Active(w) == pc[w] \notin {"idle", "done", "failed"}

NsFree(w) == \A v \in Workers \ {w} : NsOf[v] = NsOf[w] => ~Active(v)

Begin(w) ==
  /\ pc' = [pc EXCEPT ![w] = IF cfg[w].vrf # NoVRF THEN "vrf" ELSE "routes"]
  /\ pending' = [pending EXCEPT ![w] =
                   IF cfg[w].vrf # NoVRF THEN {} ELSE DOMAIN cfg[w].routes]
  /\ errs' = [errs EXCEPT ![w] = {}]
  /\ vrfTable' = [vrfTable EXCEPT ![w] = 0]

Start(w) ==
  /\ pc[w] = "idle"
  /\ NsFree(w)
  /\ Begin(w)
  /\ UNCHANGED <<cfg, tries, kernelVars>>

RetryAllowed(w) == tries[w] < MaxRetries

Retry(w) ==
  /\ pc[w] = "failed" \/ (pc[w] = "done" /\ errs[w] # {})
  /\ RetryAllowed(w)
  /\ NsFree(w)
  /\ tries' = [tries EXCEPT ![w] = @ + 1]
  /\ Begin(w)
  /\ UNCHANGED <<cfg, kernelVars>>

\* Outcomes of a netlink or sysctl call that can fail for reasons outside
\* the model (missing vrf module, ENOMEM, EPERM)
Outcomes == IF KernelFaults THEN BOOLEAN ELSE {TRUE}

Fail(w) ==
  /\ pc' = [pc EXCEPT ![w] = "failed"]
  /\ errs' = [errs EXCEPT ![w] = @ \cup {[cat |-> "vrf", idx |-> 0, why |-> "kernel"]}]

-----------------------------------------------------------------------------
(***************************************************************************)
(* applyVRFConfig, up to and including the creation of the VRF device:     *)
(* look the VRF up by name and reuse it, or add it with the configured     *)
(* table.  The nil-config, empty-name and nil-table early returns cannot   *)
(* fire: the caller only passes a VRF config, and Validate/Default leave   *)
(* a non-empty name and a table.                                           *)
(***************************************************************************)
VRFEnsure(w) ==
  LET ns == NsOf[w]
      v == cfg[w].vrf
  IN /\ pc[w] = "vrf"
     /\ IF kvrf[ns][v.name] # 0
          THEN /\ pc' = [pc EXCEPT ![w] = "vrf_attach"]
               /\ UNCHANGED <<errs, kvrf>>
          ELSE \E ok \in Outcomes :
                 IF ok THEN /\ kvrf' = [kvrf EXCEPT ![ns][v.name] = v.table]
                            /\ pc' = [pc EXCEPT ![w] = "vrf_attach"]
                            /\ UNCHANGED errs
                       ELSE /\ Fail(w)
                            /\ UNCHANGED kvrf
     /\ UNCHANGED <<cfg, pending, vrfTable, tries, kroutes, kneighs, krules,
                    kup, kmaster, ksysctl>>

\* Mutant: the link is detached and re-enslaved even when its master is
\* already the VRF, so the kernel cycles it on every invocation.
MasterChangedAlways(ns, l, name) == TRUE

\* LinkSetMaster changes the master of l: the kernel cycles the link
MasterChanged(ns, l, name) == kmaster[ns][l] # name

(***************************************************************************)
(* The rest of applyVRFConfig: LinkSetUp of the VRF, LinkSetMaster of the  *)
(* device, then enableVRFSysctls (tcp_l3mdev_accept, udp_l3mdev_accept).   *)
(* The first k of these four calls succeed; the next one fails.  Changing  *)
(* the master of a link cycles it, which flushes the routes through it.    *)
(* On success the table of the CONFIG is returned.                         *)
(***************************************************************************)
VRFAttach(w) ==
  LET ns == NsOf[w]
      l == LinkOf[w]
      v == cfg[w].vrf
      moved == MasterChanged(ns, l, v.name)
  IN /\ pc[w] = "vrf_attach"
     /\ \E k \in IF KernelFaults THEN 0..4 ELSE {4} :
          /\ kup' = IF k >= 1 THEN [kup EXCEPT ![ns] = @ \cup {v.name}] ELSE kup
          /\ kmaster' = IF k >= 2 THEN [kmaster EXCEPT ![ns][l] = v.name] ELSE kmaster
          /\ kroutes' = IF k >= 2 /\ moved
                          THEN [kroutes EXCEPT ![ns] = {r \in @ : r.link # l}]
                          ELSE kroutes
          /\ ksysctl' = [ksysctl EXCEPT ![ns] =
                           @ \cup (IF k >= 3 THEN {"tcp"} ELSE {})
                             \cup (IF k >= 4 THEN {"udp"} ELSE {})]
          /\ IF k = 4
               THEN /\ vrfTable' = [vrfTable EXCEPT ![w] = v.table]
                    /\ pc' = [pc EXCEPT ![w] = "routes"]
                    /\ pending' = [pending EXCEPT ![w] = DOMAIN cfg[w].routes]
                    /\ UNCHANGED errs
               ELSE /\ Fail(w)
                    /\ UNCHANGED <<vrfTable, pending>>
     /\ UNCHANGED <<cfg, tries, kneighs, krules, kvrf>>

-----------------------------------------------------------------------------
(***************************************************************************)
(* applyRoutingConfig.  The routes are sorted by descending scope (link    *)
(* before universe); SortFunc is not stable, so any entry of the highest   *)
(* remaining scope may be next.  With a VRF the table is forced to the VRF *)
(* table.  A destination that ParseCIDR rejects is an error and skipped.   *)
(* RouteAdd (fib_table_insert) first validates the nexthop: a gateway must *)
(* be reachable through a link-scope route out of the route's own link, in *)
(* its table or in the main table the kernel falls back to, and a          *)
(* link-scope route may not have a gateway.  Only then does it look for a  *)
(* route to the same prefix in the table, whatever its link or gateway,    *)
(* and fail with EEXIST, an error that is ignored.                         *)
(***************************************************************************)
\* One iteration of a range loop over the entries: entry i is done
Advance(w, i) == pending' = [pending EXCEPT ![w] = @ \ {i}]

\* slices.SortFunc by descending scope: entry i may come next
SortedNext(w, i) == \A j \in pending[w] : cfg[w].routes[j].scope <= cfg[w].routes[i].scope

RouteTable(w, r) == IF vrfTable[w] > 0 THEN vrfTable[w] ELSE r.table

\* fib_check_nh: a link-scope route out of link l covers the gateway
Reachable(ns, t, gw, l) ==
  \E k \in kroutes[ns] :
    /\ k.link = l
    /\ k.table \in {t, RT_TABLE_MAIN}
    /\ k.scope = RT_SCOPE_LINK
    /\ <<gw, k.dst>> \in CoveredBy

RouteAddResult(ns, k) ==
  LET unreach == k.gw # NoIP /\ (k.scope = RT_SCOPE_LINK \/ ~Reachable(ns, k.table, k.gw, k.link))
      exists == \E e \in kroutes[ns] : e.dst = k.dst /\ e.table = k.table
  IN CASE unreach -> "unreach"
       [] ~unreach /\ exists -> "exists"
       [] OTHER -> "ok"

\* The route RouteAdd is asked for, and what it answers
KRouteOf(w, r) ==
  [dst |-> ParseCIDR(r.dst), table |-> KernelTable(RouteTable(w, r)),
   link |-> LinkOf[w], gw |-> r.gw, scope |-> r.scope]

RouteResult(w, k) == IF k.dst = NoPrefix THEN "parse" ELSE RouteAddResult(NsOf[w], k)

RouteStep(w) ==
  LET ns == NsOf[w] IN
  /\ pc[w] = "routes"
  /\ \E i \in pending[w] :
       LET k == KRouteOf(w, cfg[w].routes[i])
           res == RouteResult(w, k)
       IN /\ SortedNext(w, i)
          /\ Advance(w, i)
          /\ kroutes' = IF res = "ok" THEN [kroutes EXCEPT ![ns] = @ \cup {k}]
                                      ELSE kroutes
          /\ errs' = IF res \in {"parse", "unreach"}
                       THEN [errs EXCEPT ![w] = @ \cup {[cat |-> "route", idx |-> i, why |-> res]}]
                       ELSE errs
  /\ UNCHANGED <<cfg, pc, vrfTable, tries, kneighs, krules, kvrf, kup, kmaster, ksysctl>>

RoutesDone(w) ==
  /\ pc[w] = "routes"
  /\ pending[w] = {}
  /\ pc' = [pc EXCEPT ![w] = "neighbors"]
  /\ pending' = [pending EXCEPT ![w] = DOMAIN cfg[w].neighbors]
  /\ UNCHANGED <<cfg, errs, vrfTable, tries, kernelVars>>

-----------------------------------------------------------------------------
(***************************************************************************)
(* applyNeighborConfig: in list order, add a permanent entry for the link; *)
(* EEXIST (an entry for this link and IP exists) is ignored.  The IP and   *)
(* MAC parse checks repeat validateNeighborConfig and cannot fail here.    *)
(***************************************************************************)
NeighExists(ns, l, ip) == \E e \in kneighs[ns] : e.link = l /\ e.ip = ip

\* A range loop over a list: entry i is the first one not yet applied
InListOrder(w, i) == \A m \in pending[w] : i <= m

NeighStep(w) ==
  LET ns == NsOf[w] IN
  /\ pc[w] = "neighbors"
  /\ \E i \in pending[w] :
       LET n == cfg[w].neighbors[i] IN
       /\ InListOrder(w, i)
       /\ Advance(w, i)
       /\ kneighs' = IF NeighExists(ns, LinkOf[w], n.ip)
                       THEN kneighs
                       ELSE [kneighs EXCEPT ![ns] =
                               @ \cup {[link |-> LinkOf[w], ip |-> n.ip, mac |-> n.mac]}]
  /\ UNCHANGED <<cfg, pc, errs, vrfTable, tries, kroutes, krules, kvrf, kup,
                    kmaster, ksysctl>>

NeighborsDone(w) ==
  /\ pc[w] = "neighbors"
  /\ pending[w] = {}
  /\ pc' = [pc EXCEPT ![w] = "rules"]
  /\ pending' = [pending EXCEPT ![w] = DOMAIN cfg[w].rules]
  /\ UNCHANGED <<cfg, errs, vrfTable, tries, kernelVars>>

(***************************************************************************)
(* applyRulesConfig: in list order, add the rule to the namespace; EEXIST  *)
(* (an identical rule exists) is ignored.                                  *)
(***************************************************************************)
RuleStep(w) ==
  LET ns == NsOf[w] IN
  /\ pc[w] = "rules"
  /\ \E i \in pending[w] :
       /\ InListOrder(w, i)
       /\ Advance(w, i)
       /\ krules' = [krules EXCEPT ![ns] = @ \cup {cfg[w].rules[i]}]
  /\ UNCHANGED <<cfg, pc, errs, vrfTable, tries, kroutes, kneighs, kvrf, kup,
                    kmaster, ksysctl>>

RulesDone(w) ==
  /\ pc[w] = "rules"
  /\ pending[w] = {}
  /\ pc' = [pc EXCEPT ![w] = "done"]
  /\ UNCHANGED <<cfg, pending, errs, vrfTable, tries, kernelVars>>

-----------------------------------------------------------------------------
\* Every allocation has been handled: the driver waits for the next one.
Finished ==
  /\ \A w \in Workers : pc[w] \in {"done", "failed"}
  /\ UNCHANGED vars

Next ==
  \/ \E w \in Workers :
       \/ Start(w) \/ Retry(w)
       \/ VRFEnsure(w) \/ VRFAttach(w)
       \/ RouteStep(w) \/ RoutesDone(w)
       \/ NeighStep(w) \/ NeighborsDone(w)
       \/ RuleStep(w) \/ RulesDone(w)
  \/ Finished

(***************************************************************************)
(* Each allocation is a goroutine that runs to completion: every step is a *)
(* local netlink call that returns, so weak fairness per worker.           *)
(***************************************************************************)
Fairness ==
  \A w \in Workers :
    WF_vars(Start(w) \/ VRFEnsure(w) \/ VRFAttach(w) \/ RouteStep(w)
            \/ RoutesDone(w) \/ NeighStep(w) \/ NeighborsDone(w)
            \/ RuleStep(w) \/ RulesDone(w))

Spec == Init /\ [][Next]_vars /\ Fairness

-----------------------------------------------------------------------------
(***************************************************************************)
(* Properties                                                              *)
(***************************************************************************)
TypeOK ==
  /\ cfg \in [Workers -> NetworkConfig]
  /\ \A w \in Workers : cfg[w].vrf # NoVRF => cfg[w].vrf.table \in Nat \ {0}
  /\ pc \in [Workers -> Phases]
  /\ pending \in [Workers -> SUBSET Nat]
  /\ errs \in [Workers -> SUBSET ErrorRec]
  /\ vrfTable \in [Workers -> Nat]
  /\ tries \in [Workers -> 0..MaxRetries]
  /\ kroutes \in [Namespaces -> SUBSET KRoute]
  /\ kneighs \in [Namespaces -> SUBSET KNeigh]
  /\ krules \in [Namespaces -> SUBSET RuleConfig]
  /\ kvrf \in [Namespaces -> [VRFNames -> Nat]]
  /\ kup \in [Namespaces -> SUBSET VRFNames]
  /\ kmaster \in [Namespaces -> [Links -> VRFNames \cup {NoMaster}]]
  /\ ksysctl \in [Namespaces -> SUBSET {"tcp", "udp"}]

Succeeded(w) == pc[w] = "done" /\ errs[w] = {}

\* The kernel table routes of worker w go to, and the key of its route i
EffTable(w, r) ==
  KernelTable(IF cfg[w].vrf # NoVRF THEN cfg[w].vrf.table ELSE r.table)

(***************************************************************************)
(* An allocation the engine reports as successful has everything it asked  *)
(* for in its namespace: a route to every destination in the right table,  *)
(* a neighbour entry for every neighbour on its link, every rule, and,     *)
(* with a VRF, the link enslaved to the VRF and both l3mdev sysctls set.   *)
(* Errors ignored as EEXIST, the sort, the VRF table override and the      *)
(* route flush on enslavement all bear on it.                              *)
(***************************************************************************)
SuccessImpliesConfigured ==
  \A w \in Workers : Succeeded(w) =>
    LET ns == NsOf[w] IN
    /\ \A i \in DOMAIN cfg[w].routes :
         \E k \in kroutes[ns] : /\ k.dst = ParseCIDR(cfg[w].routes[i].dst)
                               /\ k.table = EffTable(w, cfg[w].routes[i])
    /\ \A i \in DOMAIN cfg[w].neighbors :
         \E e \in kneighs[ns] : e.link = LinkOf[w] /\ e.ip = cfg[w].neighbors[i].ip
    /\ \A i \in DOMAIN cfg[w].rules : cfg[w].rules[i] \in krules[ns]
    /\ cfg[w].vrf # NoVRF =>
         /\ kmaster[ns][LinkOf[w]] = cfg[w].vrf.name
         /\ cfg[w].vrf.name \in kup[ns]
         /\ ksysctl[ns] = {"tcp", "udp"}

(***************************************************************************)
(* Every route through a link enslaved to a VRF is in that VRF's table     *)
(* (the comment of applyRoutingConfig: "all routes for this interface must *)
(* go into the VRF table").  applyVRFConfig returns the table of the       *)
(* config even when it reuses a VRF device created with another table.     *)
(***************************************************************************)
RoutesFollowVRFTable ==
  \A ns \in Namespaces : \A k \in kroutes[ns] :
    kmaster[ns][k.link] # NoMaster => k.table = kvrf[ns][kmaster[ns][k.link]]

(***************************************************************************)
(* The sort of applyRoutingConfig: a universe route whose gateway lies in  *)
(* a link-scope route of the same config and table is never rejected as   *)
(* unreachable, whatever the order of the list -- unless another device   *)
(* of the pod has a route to that prefix in that table, which may be       *)
(* there first and turn the link route into an ignored EEXIST.             *)
(***************************************************************************)
ForeignClash(w, j) ==
  \E v \in Workers \ {w} :
    /\ NsOf[v] = NsOf[w]
    /\ \E m \in DOMAIN cfg[v].routes :
         /\ ParseCIDR(cfg[v].routes[m].dst) = ParseCIDR(cfg[w].routes[j].dst)
         /\ EffTable(v, cfg[v].routes[m]) = EffTable(w, cfg[w].routes[j])

\* Entry j of w is a link route, in the table of entry i, covering its gateway
OwnLinkRoute(w, i, j) ==
  LET r == cfg[w].routes[j] IN
  /\ r.scope = RT_SCOPE_LINK
  /\ r.gw = NoIP
  /\ ParseCIDR(r.dst) # NoPrefix
  /\ <<cfg[w].routes[i].gw, ParseCIDR(r.dst)>> \in CoveredBy
  /\ EffTable(w, r) = EffTable(w, cfg[w].routes[i])

LinkRouteFor(w, i) ==
  \E j \in DOMAIN cfg[w].routes : OwnLinkRoute(w, i, j) /\ ~ForeignClash(w, j)

LinkRoutesFirst ==
  \A w \in Workers : \A e \in errs[w] :
    e.cat = "route" /\ e.why = "unreach" =>
      cfg[w].routes[e.idx].scope = RT_SCOPE_LINK \/ ~LinkRouteFor(w, e.idx)

(***************************************************************************)
(* Spec 59 and 94 together: link routes are programmed before universe     *)
(* routes so that a universe gateway is reachable, and an "already exists" *)
(* answer counts as success.  So a universe route whose gateway lies in a  *)
(* link route of its own config is never rejected as unreachable, even    *)
(* when another device of the pod routes the same prefix in that table.    *)
(***************************************************************************)
OwnLinkRouteSuffices ==
  \A w \in Workers : \A e \in errs[w] :
    e.cat = "route" /\ e.why = "unreach" =>
      \/ cfg[w].routes[e.idx].scope = RT_SCOPE_LINK
      \/ \A j \in DOMAIN cfg[w].routes : ~OwnLinkRoute(w, e.idx, j)

(***************************************************************************)
(* A route list accepted by validateRoutes is applied without parse        *)
(* errors.                                                                 *)
(***************************************************************************)
ValidatedRoutesParse ==
  \A w \in Workers : \A e \in errs[w] : e.why # "parse"

(***************************************************************************)
(* Treating EEXIST as success is idempotent re-application: a successful   *)
(* allocation has each of its routes installed through its own link with   *)
(* its own gateway.                                                        *)
(***************************************************************************)
SuccessImpliesOwnRoutes ==
  \A w \in Workers : Succeeded(w) =>
    \A i \in DOMAIN cfg[w].routes :
      LET r == cfg[w].routes[i] IN
      [dst |-> ParseCIDR(r.dst), table |-> EffTable(w, r), link |-> LinkOf[w],
       gw |-> r.gw, scope |-> r.scope] \in kroutes[NsOf[w]]

AK == INSTANCE AbstractKernel

(***************************************************************************)
(* The engine never undoes or corrupts kernel state it applied (spec 6, 8: *)
(* no rollback, re-invocation is the recovery path): every step only adds  *)
(* routes, neighbours, rules, up flags and sysctls to the namespace of one *)
(* device, keeps the table of an existing VRF device (applyVRFConfig      *)
(* reuses it by name) and keeps the master of an enslaved link.  The       *)
(* LinkSetMaster flush of a link whose master changes would break it, and  *)
(* so would re-enslaving a link to another VRF on re-invocation.           *)
(***************************************************************************)
KernelRefinement == AK!Spec

(***************************************************************************)
(* Every allocation is eventually handled for good: each worker ends done  *)
(* or failed and stays so (re-invocations are bounded).                    *)
(***************************************************************************)
Termination == <>[](\A w \in Workers : pc[w] \in {"done", "failed"})

=============================================================================
