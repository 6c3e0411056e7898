----------------------------- MODULE MCReceiver -----------------------------
(* Instances of Receiver. h1 is heard first or second with its list: the    *)
(* lists overlap in one name, announced with two sizes.                     *)
EXTENDS Receiver, TLC

CONSTANTS h1, h2, a, b

\* h1 shares both files, h2 a longer version of one of them.
OverlappingCatalog == h1 :> (a :> 1 @@ b :> 2) @@ h2 :> (a :> 2 @@ b :> Absent)

\* Two peers with one file each.
DisjointCatalog == h1 :> (a :> 2 @@ b :> Absent) @@ h2 :> (a :> Absent @@ b :> 1)

Symmetry == Permutations(Sessions)

\* The program starts on an empty directory.
EmptyInit == Init /\ disk = [n \in Names |-> Absent]

EmptySpec == EmptyInit /\ [][Next]_vars /\ Fairness

ExactPrefixes == {<<n, n>> : n \in UNION Invocations}
=============================================================================
