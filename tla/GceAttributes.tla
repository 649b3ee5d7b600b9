---------------------------- MODULE GceAttributes ----------------------------
(***************************************************************************)
(* GCEInstance.GetDeviceAttributes (src/pkg/cloudprovider/gce/gce.go) as  *)
(* a pure operator, and a reference definition of the same function       *)
(* written from spec 4.2.                                                  *)
(*                                                                         *)
(* Strings whose parsing a property is about are sequences of symbols:     *)
(*  - a topology is a sequence over {"a", "b", "/"};                       *)
(*  - a network path is a sequence of tokens, each one a run of characters *)
(*    that fmt.Sscanf treats alike: the literals "projects/" and           *)
(*    "/networks/", a space, a sign, the digits "1" and "2", a digit run   *)
(*    too long for int64, and the name characters "n" and "/".             *)
(* An attribute set is a function from attribute names to values; the nil *)
(* map the code returns on a parse error is the empty function.           *)
(***************************************************************************)
EXTENDS Integers, Sequences, SequencesExt, FiniteSets, TLC

\* Tokens of a network path.
PROJ == "projects/"
NETS == "/networks/"
SP == " "
Signs == {"+", "-"}
DigitVal == [d \in {"1", "2"} |-> IF d = "1" THEN 1 ELSE 2]
Digits == DOMAIN DigitVal
\* A run of digits whose value does not fit an int64 (strconv.ParseInt fails).
BIG == "99999999999999999999"
NameChars == {"n", "/"}
NetTokens == {PROJ, NETS, SP, BIG} \cup Signs \cup Digits \cup NameChars

NoMAC == ""
NoAttributes == [k \in {} |-> 0]

\* The positions of '/' in s.
Slashes(s) == {i \in DOMAIN s : s[i] = "/"}

\* strings.TrimPrefix(s, "/")
TrimSlash(s) == IF s # <<>> /\ Head(s) = "/" THEN Tail(s) ELSE s

\* strings.SplitN(s, "/", 3): at most two cuts, the last part keeps the rest.
SplitN3(s) ==
  LET P == Slashes(s)
      i == Min(P)
      j == Min(P \ {i})
  IN CASE P = {}             -> <<s>>
       [] Cardinality(P) = 1 -> <<SubSeq(s, 1, i - 1), SubSeq(s, i + 1, Len(s))>>
       [] OTHER              -> <<SubSeq(s, 1, i - 1), SubSeq(s, i + 1, j - 1),
                                  SubSeq(s, j + 1, Len(s))>>

\* strings.Join(aliases, ",")
Join(seq) == FoldLeft(LAMBDA acc, a : IF acc = <<>> THEN <<a>> ELSE acc \o <<",", a>>,
                      <<>>, seq)

NumberValue(ds) == FoldLeft(LAMBDA acc, d : 10 * acc + DigitVal[d], 0, ds)

\* The first index at or after i whose token satisfies Test, or Len(s) + 1.
FirstFrom(s, i, Test(_)) ==
  LET I == {k \in i..Len(s) : Test(s[k])} IN IF I = {} THEN Len(s) + 1 ELSE Min(I)

ScanError == [err |-> TRUE]

(***************************************************************************)
(* fmt.Sscanf(network, "projects/%d/networks/%s", &projectNumber, &name).  *)
(* The literal must match; %d skips spaces, takes one optional sign and at *)
(* least one digit, and fails when strconv.ParseInt overflows; the literal *)
(* "/networks/" must follow; %s skips spaces, needs a character and reads  *)
(* up to the next space.  Input after the name is not examined.            *)
(***************************************************************************)
ScanNetwork(s) ==
  LET j   == FirstFrom(s, 2, LAMBDA t : t # SP)
      k   == IF j <= Len(s) /\ s[j] \in Signs THEN j + 1 ELSE j
      e   == FirstFrom(s, k, LAMBDA t : t \notin Digits \cup {BIG})
      ds  == SubSeq(s, k, e - 1)
      m   == FirstFrom(s, e + 1, LAMBDA t : t # SP)
      q   == FirstFrom(s, m, LAMBDA t : t = SP)
      neg == j <= Len(s) /\ s[j] = "-"
  IN IF /\ s # <<>> /\ Head(s) = PROJ
        /\ e > k /\ BIG \notin Range(ds)
        /\ e <= Len(s) /\ s[e] = NETS
        /\ m <= Len(s)
     THEN [err |-> FALSE, num |-> IF neg THEN -NumberValue(ds) ELSE NumberValue(ds),
           name |-> SubSeq(s, m, q - 1)]
     ELSE ScanError

TopologyAttributes(t) ==
  LET p == SplitN3(TrimSlash(t))
  IN IF t # <<>> /\ Len(p) = 3
     THEN ("block" :> p[1]) @@ ("subBlock" :> p[2]) @@ ("host" :> p[3])
     ELSE NoAttributes

\* Mutant: the interface loop without its break, so the last match wins.
FirstMatchNoBreak(ifs, mac) == SelectLastInSeq(ifs, LAMBDA ifc : ifc.mac = mac)

\* The loop over g.Interfaces that breaks at the first MAC match (0: none).
FirstMatch(ifs, mac) == SelectInSeq(ifs, LAMBDA ifc : ifc.mac = mac)

AliasAttributes(aliases) ==
  IF aliases # <<>> THEN "ipAliases" :> Join(aliases) ELSE NoAttributes

\* GCEInstance.GetDeviceAttributes(id) with id.MAC = mac.
GetDeviceAttributes(g, mac) ==
  LET node == ("machineType" :> g.type) @@ TopologyAttributes(g.topology)
      i    == FirstMatch(g.interfaces, mac)
      ifc  == g.interfaces[i]
      net  == ScanNetwork(ifc.network)
  IN CASE mac = NoMAC \/ i = 0 -> node
       [] net.err              -> NoAttributes
       [] OTHER -> node @@ AliasAttributes(ifc.aliases)
                        @@ ("networkName" :> net.name)
                        @@ ("networkProjectNumber" :> net.num)

-----------------------------------------------------------------------------
(***************************************************************************)
(* Reference definition, from spec 4.2.  The topology is split at every    *)
(* '/' and must have exactly three segments; the interface is the one      *)
(* with a matching MAC and none before it; the network path must be        *)
(* exactly projects/<digits>/networks/<name>, the digits fitting the int64 *)
(* attribute and the name a non-empty run without spaces.                  *)
(***************************************************************************)
SplitAll(s) ==
  LET b == <<0>> \o SetToSortSeq(Slashes(s), <) \o <<Len(s) + 1>>
  IN [k \in 1..Len(b) - 1 |-> SubSeq(s, b[k] + 1, b[k + 1] - 1)]

RefTopology(t) ==
  LET p == SplitAll(TrimSlash(t))
  IN IF t # <<>> /\ Len(p) = 3
     THEN [k \in {"block", "subBlock", "host"} |->
             p[CASE k = "block" -> 1 [] k = "subBlock" -> 2 [] OTHER -> 3]]
     ELSE NoAttributes

\* The digits end at d; the name is everything after the "/networks/" at d + 1.
StrictSplits(s) ==
  {d \in 2..Len(s) - 2 : /\ s[1] = PROJ
                         /\ \A i \in 2..d : s[i] \in Digits
                         /\ s[d + 1] = NETS
                         /\ \A i \in d + 2..Len(s) : s[i] # SP}

RefMatches(ifs, mac) ==
  {i \in DOMAIN ifs : ifs[i].mac = mac /\ \A j \in 1..i - 1 : ifs[j].mac # mac}

SpecAttributes(g, mac) ==
  LET node == ("machineType" :> g.type) @@ RefTopology(g.topology)
  IN IF mac = NoMAC \/ RefMatches(g.interfaces, mac) = {} THEN node
     ELSE LET ifc == g.interfaces[CHOOSE i \in RefMatches(g.interfaces, mac) : TRUE]
              s   == ifc.network
          IN IF StrictSplits(s) = {} THEN NoAttributes
             ELSE LET d == CHOOSE d \in StrictSplits(s) : TRUE
                  IN node @@ (IF ifc.aliases = <<>> THEN NoAttributes
                              ELSE "ipAliases" :> Join(ifc.aliases))
                          @@ ("networkName" :> SubSeq(s, d + 2, Len(s)))
                          @@ ("networkProjectNumber" :> NumberValue(SubSeq(s, 2, d)))

\* The inputs on which spec and code are meant to coincide: at most two
\* '/' in the trimmed topology, and no space or sign in a network path.
InSpecDomain(g) ==
  /\ Cardinality(Slashes(TrimSlash(g.topology))) <= 2
  /\ \A i \in DOMAIN g.interfaces :
       Range(g.interfaces[i].network) \cap ({SP} \cup Signs) = {}
=============================================================================
