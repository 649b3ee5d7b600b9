---------------------------- MODULE AbstractFetch ----------------------------
(***************************************************************************)
(* What the cloud metadata fetcher promises (spec 4.1), with no cycles,    *)
(* calls or ticker: acquisition returns exactly once, either one of the    *)
(* snapshots the metadata server justifies or, only once the overall       *)
(* timeout has expired, an error; and it does return.                      *)
(*                                                                         *)
(*   ret      the result: pending, an error, or a returned snapshot        *)
(*   expired  whether the overall timeout has passed                       *)
(*   allowed  the results the server's data justifies (it never changes)   *)
(***************************************************************************)
VARIABLES ret, expired, allowed
avars == <<ret, expired, allowed>>

Pending == [st |-> "pending"]
Failed == [st |-> "error"]

Init == ret = Pending /\ expired = FALSE

\* Time reaches the deadline.
Expire == ~expired /\ expired' = TRUE /\ UNCHANGED <<ret, allowed>>

\* Acquisition returns a snapshot the server justifies.
Return == ret = Pending /\ ret' \in allowed /\ UNCHANGED <<expired, allowed>>

\* Acquisition gives up, which it may only do after the deadline.
GiveUp == ret = Pending /\ expired /\ ret' = Failed /\ UNCHANGED <<expired, allowed>>

Next == Expire \/ Return \/ GiveUp

Spec == Init /\ [][Next]_avars /\ WF_avars(Expire) /\ WF_avars(Return \/ GiveUp)
=============================================================================
