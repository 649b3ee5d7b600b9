---------------------------- MODULE MC_NetConfig ----------------------------
(***************************************************************************)
(* Model-checking instance of NetConfig: one pod namespace n1 holding two  *)
(* allocated devices l1 and l2.  p1 is the on-link subnet of the devices   *)
(* (10.0.5.0/24), g1 its gateway (10.0.5.1), p2 a remote prefix reached    *)
(* through g1.  The candidate configurations cover VRF and plain devices,  *)
(* universe routes listed before the link route they depend on, a bare-IP *)
(* destination, and two devices asking for the same destination.          *)
(***************************************************************************)
EXTENDS NetConfig, TLC

CONSTANTS w1, w2, w3, n1, n2, l1, l2, p1, p2, g1, m1

MCWorkers == {w1, w2}
MCNsOf == [w \in MCWorkers |-> n1]
MCLinkOf == (w1 :> l1) @@ (w2 :> l2)
\* A third device in a second namespace n2, on a link named like w1's
MCWorkers3 == {w1, w2, w3}
MCNsOf3 == (w1 :> n1) @@ (w2 :> n1) @@ (w3 :> n2)
MCLinkOf3 == (w1 :> l1) @@ (w2 :> l2) @@ (w3 :> l1)
MCCoveredBy == {<<g1, p1>>}
\* fnv32a("red") and fnv32a("green")
MCFNV32a == ("red" :> 1089765596) @@ ("green" :> 18738364)

\* RouteConfig entries
UniverseP2 == [dst |-> [kind |-> "cidr", net |-> p2], gw |-> g1,
               scope |-> RT_SCOPE_UNIVERSE, table |-> 0]
LinkP1 == [dst |-> [kind |-> "cidr", net |-> p1], gw |-> NoIP,
           scope |-> RT_SCOPE_LINK, table |-> 0]
LinkGwIP == [dst |-> [kind |-> "ip", ip |-> g1], gw |-> NoIP,
             scope |-> RT_SCOPE_LINK, table |-> 0]
Neigh1 == [ip |-> g1, mac |-> m1]
Rule1 == [prio |-> 100, table |-> 100, src |-> NoPrefix, dst |-> p2]

Cfg(rs, ns, us, v) == [routes |-> rs, neighbors |-> ns, rules |-> us, vrf |-> v]
Red == [name |-> "red", table |-> NoTable]

\* Configurations whose VRFs only take derived tables
CandidatesDerived ==
  (w1 :> { Cfg(<<UniverseP2, LinkP1>>, <<Neigh1>>, <<>>, Red),
           Cfg(<<UniverseP2, LinkP1>>, <<>>, <<Rule1>>, NoVRF),
           Cfg(<<LinkP1>>, <<>>, <<Rule1>>, Red) })   \* rejected: rules with VRF
  @@
  (w2 :> { Cfg(<<LinkP1>>, <<Neigh1>>, <<Rule1>>, NoVRF),
           Cfg(<<LinkGwIP, UniverseP2>>, <<>>, <<>>, Red) })

\* The derived candidates, and a VRF device in n2 with routes and a
\* neighbour, or with a link route next to an entry ParseCIDR rejects (so
\* the allocation fails and is re-invoked over an installed route)
CandidatesTwoNs ==
  CandidatesDerived
  @@ (w3 :> { Cfg(<<UniverseP2, LinkP1>>, <<Neigh1>>, <<>>, Red),
              Cfg(<<LinkGwIP, LinkP1>>, <<>>, <<>>, Red) })

\* The second device names the same VRF with an explicit table
CandidatesExplicit ==
  (w1 :> { Cfg(<<LinkP1>>, <<>>, <<>>, Red) })
  @@
  (w2 :> { Cfg(<<UniverseP2>>, <<>>, <<>>, [name |-> "red", table |-> 1500]) })

\* Both devices route to p1 in the main table
CandidatesSameDst ==
  (w1 :> { Cfg(<<LinkP1>>, <<>>, <<>>, NoVRF) })
  @@
  (w2 :> { Cfg(<<LinkP1>>, <<>>, <<>>, NoVRF) })

\* The first device reaches p2 through its own on-link p1; the second
\* device, on another link, also routes p1 in the main table
CandidatesShadowed ==
  (w1 :> { Cfg(<<UniverseP2, LinkP1>>, <<>>, <<>>, NoVRF) })
  @@
  (w2 :> { Cfg(<<LinkP1>>, <<>>, <<>>, NoVRF) })

\* A link route to the gateway written as a bare IP
CandidatesBareIP ==
  (w1 :> { Cfg(<<LinkGwIP, UniverseP2>>, <<>>, <<>>, NoVRF) })
  @@
  (w2 :> { Cfg(<<>>, <<>>, <<>>, NoVRF) })

=============================================================================
