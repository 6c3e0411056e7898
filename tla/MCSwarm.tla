------------------------------ MODULE MCSwarm ------------------------------
(* Two users share different files of one name; two hosts have none.        *)
EXTENDS Swarm, TLC

CONSTANTS h1, h2, h3, h4, a

TwoVersions ==
    h1 :> (a :> 2) @@ h2 :> (a :> 3) @@ h3 :> (a :> Absent) @@ h4 :> (a :> Absent)

OneEmptyHost == h1 :> (a :> 2) @@ h2 :> (a :> 3) @@ h3 :> (a :> Absent)
=============================================================================
