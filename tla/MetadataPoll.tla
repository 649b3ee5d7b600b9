----------------------------- MODULE MetadataPoll -----------------------------
(***************************************************************************)
(* gce.GetInstance (src/pkg/cloudprovider/gce/gce.go): the bounded poll of *)
(* the metadata server that builds the node's GCEInstance snapshot.        *)
(*                                                                         *)
(* Time is counted in ticker intervals (1 s).  wait.PollUntilContextTimeout *)
(* runs the condition at once, then on each tick of a ticker whose channel *)
(* buffers one tick, until the condition returns true or the context that  *)
(* expires after Timeout intervals is done.  Every metadata call is made   *)
(* with that context, so a call made at or after the deadline fails.       *)
(* The condition makes three required calls and one optional call; an     *)
(* error of a required call, or an unparsable interface list, ends the     *)
(* cycle with (false, nil).                                                *)
(*                                                                         *)
(* The server is fixed for a run: its instance name, its machine-type path *)
(* as a sequence of segments, its interface list as the JSON decoder sees *)
(* it (valid and the decoded list, or not), and its physical_host          *)
(* attribute, which not every VM has.                                      *)
(***************************************************************************)
EXTENDS Naturals, Sequences

CONSTANTS
  Timeout,   \* the overall timeout over the interval: 15 s / 1 s
  Faults,    \* whether a metadata call may fail transiently
  Servers    \* the metadata servers a node may find

ASSUME TimeoutAssumption == Timeout \in Nat \ {0}
ASSUME FaultAssumption == Faults \in BOOLEAN

VARIABLES
  srv,       \* the metadata server
  now,       \* intervals since the poll started
  tick,      \* the ticker's channel holds a tick
  pc,        \* where GetInstance is
  name,      \* instanceName of the current cycle
  mtype,     \* instanceType of the current cycle
  instance,  \* the *GCEInstance variable
  cycles,    \* condition invocations so far
  ret        \* what GetInstance returned

vars == <<srv, now, tick, pc, name, mtype, instance, cycles, ret>>

Pending == [st |-> "pending"]
Failed == [st |-> "error"]
Returned(i) == [st |-> "ok", inst |-> i]
NoInstance == [set |-> FALSE]

\* NetworkProtocolMap: machine type to GPUDirect support.
TCPXTypes == {"a3-highgpu-1g", "a3-highgpu-2g", "a3-highgpu-4g", "a3-highgpu-8g",
              "a3-edgegpu-8g"}
RDMATypes == {"a3-ultragpu-8g", "a4-highgpu-8g"}
NetworkProtocolMap ==
  [t \in TCPXTypes \cup RDMATypes \cup {"a3-megagpu-8g"} |->
     CASE t \in TCPXTypes -> "GPUDirect-TCPX"
       [] t \in RDMATypes -> "GPUDirect-RDMA"
       [] OTHER           -> "GPUDirect-TCPXO"]

\* string(NetworkProtocolMap[t]): the zero value "" for a type not in the map.
Protocol(t) == IF t \in DOMAIN NetworkProtocolMap THEN NetworkProtocolMap[t] ELSE ""

\* path.Base over a path given as its '/'-separated segments: the last
\* non-empty segment; "/" for a path of slashes only; "." for "".
PathBase(p) ==
  LET ne == {i \in DOMAIN p : p[i] # ""}
  IN CASE p = <<>> -> "."
       [] ne = {}  -> "/"
       [] OTHER    -> p[CHOOSE i \in ne : \A j \in ne : j <= i]

\* The outcomes a metadata call can have now.
CallOutcomes == IF now >= Timeout THEN {FALSE} ELSE IF Faults THEN BOOLEAN ELSE {TRUE}

\* instanceName and instanceType, empty until a cycle assigns them.
EmptyLocals == name = "" /\ mtype = ""

Init ==
  /\ srv \in Servers
  /\ now = 0
  /\ tick = FALSE
  /\ pc = "name"
  /\ EmptyLocals
  /\ instance = NoInstance
  /\ cycles = 1
  /\ ret = Pending

\* The condition returns (false, nil); the loop waits for the next tick.
EndCycle == pc' = "wait"

\* metadata.InstanceNameWithContext
GetName ==
  /\ pc = "name"
  /\ \E ok \in CallOutcomes :
       IF ok THEN name' = srv.name /\ pc' = "type"
             ELSE EndCycle /\ UNCHANGED name
  /\ UNCHANGED <<srv, now, tick, mtype, instance, cycles, ret>>

\* metadata.GetWithContext("instance/machine-type"), then path.Base.
GetType ==
  /\ pc = "type"
  /\ \E ok \in CallOutcomes :
       IF ok THEN mtype' = PathBase(srv.typePath) /\ pc' = "ifaces"
             ELSE EndCycle /\ UNCHANGED mtype
  /\ UNCHANGED <<srv, now, tick, name, instance, cycles, ret>>

\* Mutant: the json.Unmarshal error ignored.
GetInterfacesNoDecodeCheck ==
  /\ pc = "ifaces"
  /\ \E ok \in CallOutcomes :
       IF ok
       THEN /\ instance' = [set |-> TRUE, name |-> name, type |-> mtype,
                            protocol |-> Protocol(mtype),
                            interfaces |-> IF srv.ifaces.valid THEN srv.ifaces.list ELSE <<>>,
                            topology |-> <<>>]
            /\ pc' = "host"
       ELSE EndCycle /\ UNCHANGED instance
  /\ UNCHANGED <<srv, now, tick, name, mtype, cycles, ret>>

\* The network-interfaces call; on success a new GCEInstance is assigned to
\* instance before json.Unmarshal fills its Interfaces, and a decoding error
\* ends the cycle with that instance left in the variable.
GetInterfaces ==
  /\ pc = "ifaces"
  /\ \E ok \in CallOutcomes :
       IF ok
       THEN /\ instance' = [set |-> TRUE, name |-> name, type |-> mtype,
                            protocol |-> Protocol(mtype),
                            interfaces |-> IF srv.ifaces.valid THEN srv.ifaces.list ELSE <<>>,
                            topology |-> <<>>]
            /\ pc' = IF srv.ifaces.valid THEN "host" ELSE "wait"
       ELSE EndCycle /\ UNCHANGED instance
  /\ UNCHANGED <<srv, now, tick, name, mtype, cycles, ret>>

\* The optional physical_host call; its error leaves Topology empty.  The
\* condition returns true and GetInstance returns the instance.
GetPhysicalHost ==
  /\ pc = "host"
  /\ \E ok \in CallOutcomes :
       LET top == IF ok /\ srv.host.avail THEN srv.host.val ELSE instance.topology
       IN /\ instance' = [instance EXCEPT !.topology = top]
          /\ ret' = Returned(instance')
  /\ pc' = "ok"
  /\ UNCHANGED <<srv, now, tick, name, mtype, cycles>>

\* The loop between cycles: once the context is done it returns its error
\* (both when it wins the select and at the check after a tick); otherwise
\* a buffered tick starts the next cycle.
PollWait ==
  /\ pc = "wait"
  /\ IF now >= Timeout
     THEN ret' = Failed /\ pc' = "err" /\ UNCHANGED <<tick, cycles>>
     ELSE /\ tick
          /\ tick' = FALSE /\ pc' = "name" /\ cycles' = cycles + 1
          /\ UNCHANGED ret
  /\ UNCHANGED <<srv, now, name, mtype, instance>>

\* One interval passes; the ticker puts a tick in its channel if it is empty.
Tick == now < Timeout /\ now' = now + 1 /\ tick' = TRUE
        /\ UNCHANGED <<srv, pc, name, mtype, instance, cycles, ret>>

Poller == GetName \/ GetType \/ GetInterfaces \/ GetPhysicalHost \/ PollWait

Next == Poller \/ Tick

\* Time passes, and the goroutine running GetInstance is not starved.
Fairness == WF_vars(Tick) /\ WF_vars(Poller)

Spec == Init /\ [][Next]_vars /\ Fairness
-----------------------------------------------------------------------------
PCs == {"name", "type", "ifaces", "host", "wait", "ok", "err"}

TypeOK ==
  /\ srv \in Servers
  /\ now \in 0..Timeout
  /\ tick \in BOOLEAN
  /\ pc \in PCs
  /\ cycles \in Nat \ {0}
  /\ ret.st \in {"pending", "error", "ok"}

\* What a successful acquisition may return for server s: its name, the
\* last segment of its machine-type path with that type's protocol, its
\* decoded interface list, and its physical host or, when the optional
\* call failed, no topology.  Nothing when the list does not decode.
GoodSnapshots(s) ==
  IF ~s.ifaces.valid THEN {}
  ELSE {Returned([set |-> TRUE, name |-> s.name, type |-> PathBase(s.typePath),
                  protocol |-> Protocol(PathBase(s.typePath)),
                  interfaces |-> s.ifaces.list, topology |-> t])
          : t \in {<<>>} \cup (IF s.host.avail THEN {s.host.val} ELSE {})}

AF == INSTANCE AbstractFetch WITH expired <- now >= Timeout, allowed <- GoodSnapshots(srv)

\* GetInstance implements the fetcher of spec 4.1: it returns once, either
\* a snapshot whose name, type and interfaces are the server's answers to
\* successful calls (never the instance a failed decode left behind) and
\* whose topology is the server's or empty, or an error, and the error only
\* after the 15 s deadline; and it always returns.
FetchRefinement == AF!Spec

=============================================================================
