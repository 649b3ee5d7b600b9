-------------------------- MODULE MetadataPollProofs --------------------------
(***************************************************************************)
(* Proofs about gce.GetInstance (module MetadataPoll), for every timeout,  *)
(* every set of servers and with or without transient faults: the         *)
(* condition runs at most Timeout times, and every step of GetInstance is  *)
(* a step or a stutter of the abstract fetcher AbstractFetch.              *)
(***************************************************************************)
EXTENDS MetadataPoll, TLAPS

\* The instance a cycle holds when it reaches the physical_host call.
HostInstance(s) ==
  [set |-> TRUE, name |-> s.name, type |-> PathBase(s.typePath),
   protocol |-> Protocol(PathBase(s.typePath)),
   interfaces |-> s.ifaces.list, topology |-> <<>>]

Running == {"name", "type", "ifaces", "host", "wait"}

\* Every cycle but the first consumed a tick, and ticks come one per
\* interval; the tick of the deadline is never consumed.
ClockInv ==
  /\ cycles + (IF tick THEN 1 ELSE 0) <= now + 1
  /\ now = Timeout => tick

\* What the current cycle has collected is the server's, and the result
\* matches where GetInstance is.
ResultInv ==
  /\ pc \in Running => ret = Pending
  /\ pc = "err" => ret = Failed /\ now >= Timeout
  /\ pc = "ok" => ret \in GoodSnapshots(srv)
  /\ pc \in {"type", "ifaces", "host"} => name = srv.name
  /\ pc \in {"ifaces", "host"} => mtype = PathBase(srv.typePath)
  /\ pc = "host" => srv.ifaces.valid /\ instance = HostInstance(srv)

Inv == TypeOK /\ ClockInv /\ ResultInv

\* Init establishes the invariant.
LEMMA InitInv == Init => Inv
<1> SUFFICES ASSUME Init PROVE Inv
  OBVIOUS
<1>1. TypeOK
  <2>1. now \in 0..Timeout /\ cycles \in Nat \ {0}
    BY TimeoutAssumption DEF Init
  <2>2. pc \in PCs /\ tick \in BOOLEAN /\ srv \in Servers
    BY DEF Init, PCs
  <2>3. ret.st \in {"pending", "error", "ok"}
    BY DEF Init, Pending
  <2>4. QED
    BY <2>1, <2>2, <2>3 DEF TypeOK
<1>2. ClockInv
  BY TimeoutAssumption DEF Init, ClockInv
<1>3. ResultInv
  BY DEF Init, ResultInv, Running
<1>4. QED
  BY <1>1, <1>2, <1>3 DEF Inv

\* Every step of GetInstance and of the clock keeps the invariant.
LEMMA NextInv == Inv /\ [Next]_vars => Inv'
<1> SUFFICES ASSUME Inv, [Next]_vars PROVE Inv'
  OBVIOUS
<1> USE TimeoutAssumption, FaultAssumption DEF Inv, TypeOK, ClockInv, ResultInv, PCs, Running
<1>1. CASE GetName
  BY <1>1 DEF GetName, EndCycle, CallOutcomes
<1>2. CASE GetType
  BY <1>2 DEF GetType, EndCycle, CallOutcomes
<1>3. CASE GetInterfaces
  <2>1. PICK ok \in CallOutcomes :
          IF ok
          THEN /\ instance' = [set |-> TRUE, name |-> name, type |-> mtype,
                               protocol |-> Protocol(mtype),
                               interfaces |-> IF srv.ifaces.valid THEN srv.ifaces.list ELSE <<>>,
                               topology |-> <<>>]
               /\ pc' = IF srv.ifaces.valid THEN "host" ELSE "wait"
          ELSE EndCycle /\ UNCHANGED instance
    BY <1>3 DEF GetInterfaces
  <2>2. UNCHANGED <<srv, now, tick, name, mtype, cycles, ret>> /\ pc = "ifaces"
    BY <1>3 DEF GetInterfaces
  <2>3. CASE ok /\ srv.ifaces.valid
    <3>1. pc' = "host" /\ instance' = HostInstance(srv)
      BY <2>1, <2>2, <2>3 DEF HostInstance
    <3>2. QED
      BY <2>2, <2>3, <3>1
  <2>4. CASE ~(ok /\ srv.ifaces.valid)
    <3>1. pc' = "wait"
      BY <2>1, <2>4 DEF EndCycle
    <3>2. QED
      BY <2>2, <3>1
  <2>5. QED
    BY <2>3, <2>4
<1>4. CASE GetPhysicalHost
  <2>1. PICK ok \in CallOutcomes :
          LET top == IF ok /\ srv.host.avail THEN srv.host.val ELSE instance.topology
          IN /\ instance' = [instance EXCEPT !.topology = top]
             /\ ret' = Returned(instance')
    BY <1>4 DEF GetPhysicalHost
  <2>2. pc = "host" /\ pc' = "ok" /\ UNCHANGED <<srv, now, tick, name, mtype, cycles>>
    BY <1>4 DEF GetPhysicalHost
  <2>3. srv.ifaces.valid /\ instance = HostInstance(srv)
    BY <2>2
  <2>4. ret' \in GoodSnapshots(srv)
    <3> DEFINE t == IF ok /\ srv.host.avail THEN srv.host.val ELSE <<>>
    <3>1. instance' = [HostInstance(srv) EXCEPT !.topology = t]
      BY <2>1, <2>3 DEF HostInstance
    <3>2. t \in {<<>>} \cup (IF srv.host.avail THEN {srv.host.val} ELSE {})
      OBVIOUS
    <3>3. ret' = Returned([set |-> TRUE, name |-> srv.name, type |-> PathBase(srv.typePath),
                          protocol |-> Protocol(PathBase(srv.typePath)),
                          interfaces |-> srv.ifaces.list, topology |-> t])
      BY <2>1, <3>1 DEF HostInstance
    <3>4. QED
      BY <2>3, <3>2, <3>3 DEF GoodSnapshots
  <2>5. ret'.st = "ok"
    BY <2>1 DEF Returned
  <2>6. QED
    BY <2>2, <2>4, <2>5
<1>5. CASE PollWait
  <2>1. pc = "wait" /\ UNCHANGED <<srv, now, name, mtype, instance>>
    BY <1>5 DEF PollWait
  <2>2. CASE now >= Timeout
    <3>1. ret' = Failed /\ pc' = "err" /\ UNCHANGED <<tick, cycles>>
      BY <1>5, <2>2 DEF PollWait
    <3>2. ret'.st = "error"
      BY <3>1 DEF Failed
    <3>3. QED
      BY <2>1, <2>2, <3>1, <3>2
  <2>3. CASE now < Timeout
    <3>1. tick /\ tick' = FALSE /\ pc' = "name" /\ cycles' = cycles + 1 /\ UNCHANGED ret
      BY <1>5, <2>3 DEF PollWait
    <3>2. TypeOK'
      <4>1. cycles' \in Nat \ {0}
        BY <3>1
      <4>2. QED
        BY <2>1, <3>1, <4>1, Zenon
    <3>3. ClockInv'
      <4>1. cycles + 1 <= now + 1
        BY <3>1
      <4>2. QED
        BY <2>1, <2>3, <3>1, <4>1
    <3>4. ResultInv'
      BY <2>1, <3>1, Zenon
    <3>5. QED
      BY <3>2, <3>3, <3>4
  <2>4. QED
    BY <2>2, <2>3
<1>6. CASE Tick
  BY <1>6 DEF Tick
<1>7. CASE UNCHANGED vars
  BY <1>7 DEF vars
<1>8. QED
  BY <1>1, <1>2, <1>3, <1>4, <1>5, <1>6, <1>7 DEF Next, Poller

\* The strengthened invariant holds in every reachable state.
LEMMA AlwaysInv == Spec => []Inv
<1>1. Init => Inv
  BY InitInv
<1>2. Inv /\ [Next]_vars => Inv'
  BY NextInv
<1>3. QED
  BY <1>1, <1>2, PTL DEF Spec

-----------------------------------------------------------------------------
(***************************************************************************)
(* Refinement.  Under the mapping of MetadataPoll (expired is now >=       *)
(* Timeout, allowed is GoodSnapshots(srv)), the calls of a cycle, a tick   *)
(* before the deadline and a tick of the ticker that starts a cycle are    *)
(* stutters; the tick that reaches the deadline is Expire; the physical_   *)
(* host call, which ends a successful cycle, is Return; and PollWait after *)
(* the deadline is GiveUp.                                                 *)
(***************************************************************************)
FetchSafety == AF!Init /\ [][AF!Next]_AF!avars

LEMMA InitRefines == Init => AF!Init
BY TimeoutAssumption DEF Init, AF!Init, Pending, AF!Pending

LEMMA StepRefines == Inv /\ Inv' /\ [Next]_vars => [AF!Next]_AF!avars
<1> SUFFICES ASSUME Inv, Inv', [Next]_vars PROVE [AF!Next]_AF!avars
  OBVIOUS
<1>1. CASE GetName \/ GetType \/ GetInterfaces
  <2>1. UNCHANGED <<srv, now, ret>>
    BY <1>1 DEF GetName, GetType, GetInterfaces
  <2>2. QED
    BY <2>1 DEF AF!avars
<1>2. CASE GetPhysicalHost
  <2>1. pc = "host" /\ pc' = "ok" /\ UNCHANGED <<srv, now>>
    BY <1>2 DEF GetPhysicalHost
  <2>2. ret = Pending /\ ret' \in GoodSnapshots(srv)
    BY <2>1 DEF Inv, ResultInv, Running
  <2>3. AF!Return
    BY <2>1, <2>2 DEF AF!Return, AF!Pending, Pending
  <2>4. QED
    BY <2>3 DEF AF!Next
<1>3. CASE PollWait
  <2>1. pc = "wait" /\ UNCHANGED <<srv, now>>
    BY <1>3 DEF PollWait
  <2>2. CASE now >= Timeout
    <3>1. ret' = Failed
      BY <1>3, <2>2 DEF PollWait
    <3>2. ret = Pending
      BY <2>1 DEF Inv, ResultInv, Running
    <3>3. AF!GiveUp
      BY <2>1, <2>2, <3>1, <3>2 DEF AF!GiveUp, AF!Pending, Pending, AF!Failed, Failed
    <3>4. QED
      BY <3>3 DEF AF!Next
  <2>3. CASE ~(now >= Timeout)
    <3>1. UNCHANGED ret
      BY <1>3, <2>3 DEF PollWait
    <3>2. QED
      BY <2>1, <3>1 DEF AF!avars
  <2>4. QED
    BY <2>2, <2>3
<1>4. CASE Tick
  <2>1. now < Timeout /\ now' = now + 1 /\ UNCHANGED <<srv, ret>>
    BY <1>4 DEF Tick
  <2>2. now \in Nat
    BY DEF Inv, TypeOK
  <2>3. CASE now + 1 >= Timeout
    <3>1. ~(now >= Timeout) /\ (now' >= Timeout) = TRUE
      BY <2>1, <2>2, <2>3, TimeoutAssumption
    <3>2. AF!Expire
      BY <2>1, <3>1 DEF AF!Expire
    <3>3. QED
      BY <3>2 DEF AF!Next
  <2>4. CASE ~(now + 1 >= Timeout)
    <3>1. (now' >= Timeout) = (now >= Timeout)
      BY <2>1, <2>2, <2>4, TimeoutAssumption
    <3>2. QED
      BY <2>1, <3>1 DEF AF!avars
  <2>5. QED
    BY <2>3, <2>4
<1>5. CASE UNCHANGED vars
  BY <1>5 DEF vars, AF!avars
<1>6. QED
  BY <1>1, <1>2, <1>3, <1>4, <1>5 DEF Next, Poller

(***************************************************************************)
(* GetInstance implements the safety part of the abstract fetcher for      *)
(* every timeout, server and fault setting: it returns at most once, only  *)
(* a snapshot the server justifies (never the instance a failed decode     *)
(* left behind), and an error only after the deadline.  The liveness part  *)
(* (it does return) is checked by TLC in run metadata_poll.                *)
(***************************************************************************)
THEOREM FetchRefinesSafety == Spec => FetchSafety
<1>1. Init => AF!Init
  BY InitRefines
<1>2. Inv /\ Inv' /\ [Next]_vars => [AF!Next]_AF!avars
  BY StepRefines
<1>3. QED
  BY <1>1, <1>2, AlwaysInv, PTL DEF Spec, FetchSafety
=============================================================================
