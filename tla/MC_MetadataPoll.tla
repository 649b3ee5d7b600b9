--------------------------- MODULE MC_MetadataPoll ---------------------------
(***************************************************************************)
(* Model-checking instance of MetadataPoll: the real 15 s timeout at 1 s,  *)
(* transient call failures, and three servers: a complete one, one whose   *)
(* VM has no physical_host attribute, and one whose interface list does    *)
(* not decode.                                                             *)
(***************************************************************************)
EXTENDS MetadataPoll

TypePath == <<"projects", "628944397724", "machineTypes", "a3-megagpu-8g">>
Iface == [mac |-> "m1", network |-> "n1", aliases |-> <<>>]

MCServers ==
  {[name |-> "vm-1", typePath |-> TypePath,
    ifaces |-> [valid |-> v, list |-> IF v THEN <<Iface>> ELSE <<>>],
    host |-> [avail |-> h, val |-> <<"b", "/", "s", "/", "h">>]]
     : v \in BOOLEAN, h \in BOOLEAN} \ {[name |-> "vm-1", typePath |-> TypePath,
    ifaces |-> [valid |-> FALSE, list |-> <<>>],
    host |-> [avail |-> FALSE, val |-> <<"b", "/", "s", "/", "h">>]]}
=============================================================================
