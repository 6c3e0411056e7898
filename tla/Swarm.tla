------------------------------- MODULE Swarm -------------------------------
(***************************************************************************)
(* Several hosts that synchronise: each downloads what the others announce *)
(* and serves what it has. Discovery says how lists arrive, Receiver how   *)
(* downloads are scheduled, Transfer how chunks travel; here a list, a     *)
(* request and a chunk are one step each, and what matters is whose chunks *)
(* a file ends up with: two users may share different files of one name,   *)
(* hosts restart with partial files, leave, and pass on what they copied.  *)
(***************************************************************************)
EXTENDS Naturals, Sequences

CONSTANTS
    Hosts, Names, Absent,
    Shares,       \* Shares[h][n]: length of the file h's user has, or Absent
    Leaving,      \* hosts that may go away for good
    MaxFaults,    \* bound: connections that break although both hosts stay
    MaxRestarts   \* bound: processes that end and are started again

\* Chunk i of the file n that host h's user made, and that whole file.
chunk(h, i) == [made_by |-> h, at |-> i]

Own == [h \in Hosts |-> [n \in Names |->
          IF Shares[h][n] = Absent THEN Absent ELSE [i \in 1..Shares[h][n] |-> chunk(h, i)]]]

Files == Seq([made_by : Hosts, at : Nat])

ASSUME SwarmAssumption ==
    /\ Shares \in [Hosts -> [Names -> Nat \cup {Absent}]]
    /\ Absent \notin Nat /\ Absent \notin Files /\ Absent \notin [size : Nat, source : Hosts]
    /\ Leaving \subseteq Hosts
    /\ MaxFaults \in Nat /\ MaxRestarts \in Nat

VARIABLES
    files,            \* finished files, by host and name: chunks, or Absent
    partial,          \* what is in "<name>.mfsync"; <<>> also when there is none
    available_files,  \* the size and source a host keeps for a name, or Absent
    receiving,        \* is a session of the host receiving the file
    online,           \* hosts that are there
    faults, restarts,
    inherited         \* history: partial files that outlived their process

vars == <<files, partial, available_files, receiving, online, faults, restarts, inherited>>

has(h, n) == files[h][n] # Absent
source(h, n) == available_files[h][n].source
size(h, n) == available_files[h][n].size

-----------------------------------------------------------------------------

\* Downloads of a name its user adds meanwhile are FileHandler's business.
user_add(h, n) ==
    /\ ~has(h, n) /\ partial[h][n] = <<>> /\ ~receiving[h][n]
    /\ Own[h][n] # Absent
    /\ files' = [files EXCEPT ![h][n] = Own[h][n]]
    /\ UNCHANGED <<partial, available_files, receiving, online, faults, restarts, inherited>>

\* Sensitivity: the newest announcement of a name replaces the older one.
available_or_new_replacing(h, n, g) == [size |-> Len(files[g][n]), source |-> g]

\* Sensitivity: a name whose download has begun is not looked at again.
available_or_new_unstarted(h, n, g) ==
    IF available_files[h][n] # Absent \/ partial[h][n] # <<>> THEN available_files[h][n]
    ELSE [size |-> Len(files[g][n]), source |-> g]

\* std::set::insert: the entry a name has keeps its size and its source.
available_or_new(h, n, g) ==
    IF available_files[h][n] # Absent THEN available_files[h][n]
    ELSE [size |-> Len(files[g][n]), source |-> g]

\* h has heard of g, asked for its list and stored what it lacks.
add_available_files(h, g) ==
    /\ g # h /\ {g, h} \subseteq online
    /\ available_files' = [available_files EXCEPT ![h] =
           [n \in Names |-> IF has(g, n) /\ ~has(h, n) THEN available_or_new(h, n, g)
                            ELSE available_files[h][n]]]
    /\ UNCHANGED <<files, partial, receiving, online, faults, restarts, inherited>>

\* The source is there and confirms. With nothing left to read the session
\* ends as it began.
request_file(h, n) ==
    /\ h \in online /\ ~has(h, n) /\ ~receiving[h][n]
    /\ available_files[h][n] # Absent /\ source(h, n) \in online
    /\ Len(partial[h][n]) < size(h, n)
    /\ receiving' = [receiving EXCEPT ![h][n] = TRUE]
    /\ UNCHANGED <<files, partial, available_files, online, faults, restarts, inherited>>

\* Sensitivity: the source sends from the start whatever the offset is.
next_chunk_first(h, n) == files[source(h, n)][n][1]

\* The source reads on from where the partial file ends.
next_chunk(h, n) == files[source(h, n)][n][Len(partial[h][n]) + 1]

read_chunk(h, n) ==
    /\ receiving[h][n]
    /\ Len(partial[h][n]) < size(h, n)
    /\ partial' = [partial EXCEPT ![h][n] = Append(@, next_chunk(h, n))]
    /\ UNCHANGED <<files, available_files, receiving, online, faults, restarts, inherited>>

is_complete(h, n) == Len(partial[h][n]) >= size(h, n)

finalize_file(h, n) ==
    /\ receiving[h][n]
    /\ is_complete(h, n)
    /\ files' = [files EXCEPT ![h][n] = partial[h][n]]
    /\ partial' = [partial EXCEPT ![h][n] = <<>>]
    /\ receiving' = [receiving EXCEPT ![h][n] = FALSE]
    /\ UNCHANGED <<available_files, online, faults, restarts, inherited>>

\* What is received of the name stays; the download is asked for again.
connection_lost(h, n) ==
    /\ faults < MaxFaults
    /\ receiving[h][n]
    /\ receiving' = [receiving EXCEPT ![h][n] = FALSE]
    /\ faults' = faults + 1
    /\ UNCHANGED <<files, partial, available_files, online, restarts, inherited>>

\* Sensitivity: only the host's own sessions end with its process.
without_own(g) == [receiving EXCEPT ![g] = [n \in Names |-> FALSE]]

\* The sessions that end with the process of host g: its own and those of the
\* hosts it was sending to. A complete file is finalized without its source.
without(g) ==
    [h \in Hosts |-> [n \in Names |->
        receiving[h][n] /\ h # g /\ (source(h, n) # g \/ is_complete(h, n))]]

restart(h) ==
    /\ restarts < MaxRestarts
    /\ h \in online
    /\ available_files' = [available_files EXCEPT ![h] = [n \in Names |-> Absent]]
    /\ receiving' = without(h)
    /\ inherited' = [inherited EXCEPT ![h] = @ \cup {n \in Names : partial[h][n] # <<>>}]
    /\ restarts' = restarts + 1
    /\ UNCHANGED <<files, partial, online, faults>>

leave(h) ==
    /\ h \in Leaving \cap online
    /\ online' = online \ {h}
    /\ receiving' = without(h)
    /\ UNCHANGED <<files, partial, available_files, faults, restarts, inherited>>

-----------------------------------------------------------------------------

Init ==
    /\ files \in [Hosts -> [Names -> UNION {{Own[h][n] : h \in Hosts} : n \in Names} \cup {Absent}]]
    /\ \A h \in Hosts, n \in Names : files[h][n] \in {Own[h][n], Absent}
    /\ partial = [h \in Hosts |-> [n \in Names |-> <<>>]]
    /\ available_files = [h \in Hosts |-> [n \in Names |-> Absent]]
    /\ receiving = [h \in Hosts |-> [n \in Names |-> FALSE]]
    /\ online = Hosts
    /\ faults = 0 /\ restarts = 0
    /\ inherited = [h \in Hosts |-> {}]

session_step(h, n) == request_file(h, n) \/ read_chunk(h, n) \/ finalize_file(h, n)

Next ==
    \/ \E h \in Hosts, n \in Names : user_add(h, n)
    \/ \E h, g \in Hosts : add_available_files(h, g)
    \/ \E h \in Hosts, n \in Names : session_step(h, n)
    \/ \E h \in Hosts, n \in Names : connection_lost(h, n)
    \/ \E h \in Hosts : restart(h)
    \/ \E h \in Hosts : leave(h)

\* Hosts that are there go on announcing and asking (Discovery), a file that is
\* available is asked for until it is there (Receiver), a transfer goes on.
Fairness ==
    /\ \A h, g \in Hosts : WF_vars(add_available_files(h, g))
    /\ \A h \in Hosts, n \in Names : WF_vars(session_step(h, n))

Spec == Init /\ [][Next]_vars /\ Fairness

-----------------------------------------------------------------------------
(* Properties *)

\* Every variable has its type; what is being received has an entry, and a
\* source that is there unless nothing is left to come from it.
TypeOK ==
    /\ files \in [Hosts -> [Names -> Files \cup {Absent}]]
    /\ partial \in [Hosts -> [Names -> Files]]
    /\ available_files \in [Hosts -> [Names -> [size : Nat, source : Hosts] \cup {Absent}]]
    /\ receiving \in [Hosts -> [Names -> BOOLEAN]]
    /\ \A h \in Hosts, n \in Names : receiving[h][n] =>
          available_files[h][n] # Absent /\ (source(h, n) \in online \/ is_complete(h, n))
    /\ online \subseteq Hosts
    /\ faults \in 0..MaxFaults /\ restarts \in 0..MaxRestarts
    /\ inherited \in [Hosts -> SUBSET Names]

made_by_a_user(n, file) == \E h \in Hosts : file = Own[h][n]

\* Every file a host has is a file some user shared, from its first chunk to
\* its last, and not a mixture of two that have one name.
CopiesAreWhole ==
    \A h \in Hosts, n \in Names : has(h, n) => made_by_a_user(n, files[h][n])

\* The same as long as no partial file of that name was taken over by a new
\* process: within its life a process takes all of a file from one source,
\* whatever breaks, and that source's copy is whole in its turn.
CopiesAreWholeWithin ==
    \A n \in Names : (\A h \in Hosts : n \notin inherited[h]) =>
        \A h \in Hosts : has(h, n) => made_by_a_user(n, files[h][n])

\* Files appear by being added or by being put together of chunks others have
\* in the same place, and are never changed or lost, restarts included.
R == INSTANCE Replication
ImplementsReplication == R!Spec

\* So even a file that mixes two that have one name is made of chunks users
\* shared under it, each at its place, and as long as one of those files.
NothingInvented == R!FilesAreFromUsers

\* The two ways a host can be left without a file others have (Receiver's runs):
\* the source it keeps is gone, or its partial file is too long for that source.
stranded(h, n) ==
    /\ ~has(h, n) /\ available_files[h][n] # Absent
    /\ \/ source(h, n) \notin online
       \/ ~receiving[h][n] /\ is_complete(h, n)

\* What one host has shared reaches every host that stays, even if the host
\* that shared it has left, unless one of them is stranded.
Spreads ==
    \A n \in Names :
        (<>(\E h \in Hosts : [](has(h, n) /\ h \in online)) /\ <>[](\A h \in online : ~stranded(h, n)))
        => <>(\A h \in online : has(h, n))

=============================================================================
