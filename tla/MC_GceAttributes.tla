--------------------------- MODULE MC_GceAttributes ---------------------------
(***************************************************************************)
(* Checks GetDeviceAttributes over bounded inputs.  The state is a query:  *)
(* a snapshot g and the MAC of the device asking; a step asks the same     *)
(* snapshot for another device, as the resolver does once per device.      *)
(* Snapshots vary the topology over every string of "a" and "/" up to      *)
(* length 4, the network path of one interface over every token string up  *)
(* to length 4, and pairs of interfaces that share MACs.                   *)
(***************************************************************************)
EXTENDS GceAttributes

VARIABLES g, mac
vars == <<g, mac>>

Strings(A, n) == UNION {[1..k -> A] : k \in 0..n}

Topologies == Strings({"a", "/"}, 4)
Valid == <<PROJ, "1", "2", NETS, "n">>
NetPaths == Strings({PROJ, NETS, SP, "-", "1", BIG, "n"}, 4)
            \cup {Valid, <<PROJ, SP, "1", NETS, "n">>, <<PROJ, "1", NETS, "n", "/", "n">>,
                  <<PROJ, "1", NETS, "n", SP, "n">>, <<PROJ, "+", "2", NETS, "n">>}
Aliases == {<<>>, <<"a1">>, <<"a1", "a2">>}
Iface(m, n, a) == [mac |-> m, network |-> n, aliases |-> a]
Snap(t, ifs) == [type |-> "a3-ultragpu-8g", topology |-> t, interfaces |-> ifs]

Snapshots ==
  {Snap(t, <<>>) : t \in Topologies}
  \cup {Snap(<<"a", "/", "a", "/", "a">>, <<Iface("m1", n, <<"a1">>)>>) : n \in NetPaths}
  \cup {Snap(<<>>, <<Iface(m1, n1, a1), Iface(m2, n2, a2)>>) :
          m1 \in {"m1", "m2"}, m2 \in {"m1", "m2"},
          n1 \in {Valid, <<"n">>}, n2 \in {Valid, <<PROJ, "2", NETS, "/">>}, 
          a1 \in Aliases, a2 \in {<<>>}}
Macs == {NoMAC, "m1", "m2"}

Init == g \in Snapshots /\ mac \in Macs
\* The same snapshot asked for another device.
Query == \E m \in Macs : mac' = m /\ UNCHANGED g
Spec == Init /\ [][Query]_vars

Attrs == GetDeviceAttributes(g, mac)

\* On every snapshot inside the spec's domain, GetDeviceAttributes returns
\* exactly what spec 4.2 prescribes: the first matching interface, the
\* whole set discarded on a malformed network path, topology only for three
\* segments.
AgreesWithSpec == InSpecDomain(g) => Attrs = SpecAttributes(g, mac)

\* Spec 4.2 step 2: the block, sub-block and host attributes are published
\* only for a topology with exactly three '/'-separated segments.
TopologyExactlyThree ==
  "block" \in DOMAIN Attrs => Len(SplitAll(TrimSlash(g.topology))) = 3

\* Spec 4.2 step 6: a network name and project number are published only
\* for a path of the strict form projects/<digits>/networks/<name>.
NetworkPathStrict ==
  "networkName" \in DOMAIN Attrs =>
     StrictSplits(g.interfaces[FirstMatch(g.interfaces, mac)].network) # {}
=============================================================================
