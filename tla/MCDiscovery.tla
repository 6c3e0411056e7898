---------------------------- MODULE MCDiscovery ----------------------------
(* A host that shares, one that synchronises and one that gets. With keys    *)
(* configured the first two trust each other; the third trusts the first,    *)
(* which does not trust it, and is trusted by the second, which it does not  *)
(* trust. The second also trusts itself, and hears itself.                   *)
EXTENDS Discovery, TLC

CONSTANTS sharer, syncer, getter

\* No keys are configured: everyone trusts everyone, and itself.
Everyone == Hosts \X Hosts

OneSided ==
    {<<sharer, syncer>>, <<syncer, sharer>>, <<getter, sharer>>, <<syncer, getter>>,
     <<syncer, syncer>>}

\* The sharing host starts with the file, the getting one with an empty directory,
\* the synchronising one in any state, or without a directory.
SomeInit == Init /\ disk[sharer] = Files /\ disk[getter] = {} /\ root[getter]

SomeSpec == SomeInit /\ [][Next]_vars /\ Fairness
=============================================================================
