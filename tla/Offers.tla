------------------------------- MODULE Offers -------------------------------
(***************************************************************************)
(* What discovery promises, without announcements, sessions and indexes:   *)
(* now and then a host is given a list, in one step and by one host, which *)
(* it trusts and which trusts it. The list names files that host has had,  *)
(* and the first host to name a file stays its source as long as the       *)
(* process lives. Receiver and Swarm take lists to be such steps.          *)
(***************************************************************************)
CONSTANTS Hosts, Files, Trusts, Absent

VARIABLES
    shared,  \* <<h, f>> where h has had f
    offers   \* offers[p][f]: the host p would ask for f, or Absent

Init ==
    /\ shared \subseteq Hosts \X Files
    /\ offers = [p \in Hosts |-> [f \in Files |-> Absent]]

Share(h, f) ==
    /\ shared' = shared \cup {<<h, f>>}
    /\ UNCHANGED offers

List(h, p, files) ==
    /\ {<<h, p>>, <<p, h>>} \subseteq Trusts
    /\ {h} \X files \subseteq shared
    /\ offers' = [offers EXCEPT ![p] =
           [f \in Files |-> IF @[f] = Absent /\ f \in files THEN h ELSE @[f]]]
    /\ UNCHANGED shared

Restart(p) ==
    /\ offers' = [offers EXCEPT ![p] = [f \in Files |-> Absent]]
    /\ UNCHANGED shared

Next ==
    \/ \E h \in Hosts, f \in Files : Share(h, f)
    \/ \E h, p \in Hosts, files \in SUBSET Files : List(h, p, files)
    \/ \E p \in Hosts : Restart(p)

Spec == Init /\ [][Next]_<<shared, offers>>

=============================================================================
