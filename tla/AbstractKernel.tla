---------------------------- MODULE AbstractKernel ----------------------------
(***************************************************************************)
(* What the network configuration engine promises of the kernel state it  *)
(* writes (spec 5, 6 and 8): there is no rollback and re-invocation is the *)
(* recovery path, so nothing an allocation applied is ever undone or       *)
(* corrupted.  Each call works on the namespace of one device and only     *)
(* adds to it: routes, neighbour entries, rules, VRF devices that are up   *)
(* and l3mdev sysctls only grow, a VRF device keeps the table it was       *)
(* created with, and an enslaved link stays with its VRF.                  *)
(*                                                                         *)
(* The objects themselves are left abstract: any step of this kind is      *)
(* allowed, whatever it adds.                                              *)
(***************************************************************************)
CONSTANTS Namespaces, Links, VRFNames, NoMaster

VARIABLES kroutes, kneighs, krules, kvrf, kup, kmaster, ksysctl
kvars == <<kroutes, kneighs, krules, kvrf, kup, kmaster, ksysctl>>

Init ==
  /\ kroutes = [n \in Namespaces |-> {}]
  /\ kneighs = [n \in Namespaces |-> {}]
  /\ krules = [n \in Namespaces |-> {}]
  /\ kvrf = [n \in Namespaces |-> [v \in VRFNames |-> 0]]
  /\ kup = [n \in Namespaces |-> {}]
  /\ kmaster = [n \in Namespaces |-> [l \in Links |-> NoMaster]]
  /\ ksysctl = [n \in Namespaces |-> {}]

\* What one call may do to namespace ns: add objects, never change one
Extend(ns) ==
  /\ kroutes[ns] \subseteq kroutes'[ns]
  /\ kneighs[ns] \subseteq kneighs'[ns]
  /\ krules[ns] \subseteq krules'[ns]
  /\ kup[ns] \subseteq kup'[ns]
  /\ ksysctl[ns] \subseteq ksysctl'[ns]
  /\ \A v \in VRFNames : kvrf[ns][v] # 0 => kvrf'[ns][v] = kvrf[ns][v]
  /\ \A l \in Links : kmaster[ns][l] # NoMaster => kmaster'[ns][l] = kmaster[ns][l]

\* ... and it leaves every other namespace alone
Elsewhere(ns) ==
  \A n \in Namespaces \ {ns} :
    /\ kroutes'[n] = kroutes[n] /\ kneighs'[n] = kneighs[n]
    /\ krules'[n] = krules[n] /\ kvrf'[n] = kvrf[n] /\ kup'[n] = kup[n]
    /\ kmaster'[n] = kmaster[n] /\ ksysctl'[n] = ksysctl[n]

Apply(ns) == Extend(ns) /\ Elsewhere(ns)

Next == \E ns \in Namespaces : Apply(ns)

Spec == Init /\ [][Next]_kvars
=============================================================================
