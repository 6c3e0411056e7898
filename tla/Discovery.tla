----------------------------- MODULE Discovery -----------------------------
(***************************************************************************)
(* How hosts learn what others share: file_sender's announcements over     *)
(* multicast, file_fetcher that answers each with a TCP session of its     *)
(* own, the server that accepts it and sends the list of its stored files, *)
(* and the trust both sides decide about.                                  *)
(*                                                                         *)
(* Announcements are datagrams: one that was sent may arrive at any time,  *)
(* more than once, or never. Each chain of callbacks re-arms itself in its *)
(* own handler and ends with the first error that handler is given. A host *)
(* that shares and fetches hears its own announcements too.                *)
(***************************************************************************)
EXTENDS Naturals, FiniteSets

CONSTANTS
    Hosts, Files, Absent,
    Sharing,    \* hosts in mode share or sync: they announce and serve
    Fetching,   \* hosts in mode fetch, get or sync: they listen
    Trusts,     \* pairs <<h, p>>: is_allowed at h of p's key
    Slots,      \* bound: concurrent file list sessions in the whole network
    MaxErrors,  \* bound: failing send, receive and accept calls
    MaxFaults,  \* bound: those, and lost connections and restarts, together
    MaxEdits    \* bound: changes of the users' directories

ASSUME DiscoveryAssumption ==
    /\ Sharing \subseteq Hosts /\ Fetching \subseteq Hosts
    /\ Trusts \subseteq Hosts \X Hosts
    /\ Absent \notin Hosts
    /\ {MaxErrors, MaxFaults, MaxEdits} \subseteq Nat

VARIABLES
    root,             \* does each host's storage directory exist
    disk,             \* the files in it
    stored_files,     \* each host's index of them
    storage_initialized,
    storage_init_is_in_progress,
    available_files,  \* the host each file would be retrieved from, or Absent
    announcing,       \* is file_sender's chain of sends and timers alive
    receiving,        \* is file_fetcher's chain of receives alive
    accepting,        \* is the server's chain of accepts alive
    datagrams,        \* announcements sent: <<sender, receiver>>
    session,          \* client_encrypted_file_list and its server_session, or Absent
    shared,           \* history: <<h, f>> where h has had f in its directory
    removed,          \* history: <<h, f>> where f left it while h's process ran
    errors, faults, edits

disk_vars == <<root, disk, shared, removed, edits>>
flag_vars == <<storage_initialized, storage_init_is_in_progress>>
index_vars == <<stored_files, flag_vars, available_files>>
chain_vars == <<announcing, receiving, accepting, errors>>
net_vars == <<datagrams, session, faults>>
vars == <<disk_vars, index_vars, chain_vars, net_vars>>

-----------------------------------------------------------------------------
(* Announcements *)

\* Sensitivity: the timer is not armed again.
announce_once(h) ==
    /\ h \in Sharing /\ announcing[h]
    /\ datagrams' = datagrams \cup ({h} \X Fetching)
    /\ announcing' = [announcing EXCEPT ![h] = FALSE]
    /\ UNCHANGED <<disk_vars, index_vars, receiving, accepting, errors, session, faults>>

\* init and handle_timeout; handle_send_to arms the timer again.
announce(h) ==
    /\ h \in Sharing /\ announcing[h]
    /\ datagrams' = datagrams \cup ({h} \X Fetching)
    /\ UNCHANGED <<disk_vars, index_vars, chain_vars, session, faults>>

\* handle_send_to is given an error: it does not arm the timer.
send_fails(h) ==
    /\ h \in Sharing /\ announcing[h]
    /\ errors < MaxErrors /\ errors + faults < MaxFaults
    /\ errors' = errors + 1
    /\ announcing' = [announcing EXCEPT ![h] = FALSE]
    /\ UNCHANGED <<disk_vars, index_vars, receiving, accepting, net_vars>>

is_allowed(h, p) == <<h, p>> \in Trusts

\* handle_receive_from and start_request: every announcement of an allowed host
\* starts a session, also if the last one to that host still lives. The kernel
\* completes the connection, accepted or not.
handle_receive_from(h, p, i) ==
    /\ <<h, p>> \in datagrams /\ receiving[p]
    /\ session[i] = Absent
    /\ session' = IF is_allowed(p, h)
                  THEN [session EXCEPT ![i] = [client |-> p, server |-> h,
                                               step |-> "connected", list |-> {}]]
                  ELSE session
    /\ UNCHANGED <<disk_vars, index_vars, chain_vars, datagrams, faults>>

receive_fails(p) ==
    /\ p \in Fetching /\ receiving[p]
    /\ errors < MaxErrors /\ errors + faults < MaxFaults
    /\ errors' = errors + 1
    /\ receiving' = [receiving EXCEPT ![p] = FALSE]
    /\ UNCHANGED <<disk_vars, index_vars, announcing, accepting, net_vars>>

-----------------------------------------------------------------------------
(* A file list session *)

at_step(i, s) == session[i] # Absent /\ session[i].step = s

moves_to(i, s) == session' = [session EXCEPT ![i].step = s]

ends(i) == session' = [session EXCEPT ![i] = Absent]

handle_new_connection(i) ==
    /\ at_step(i, "connected")
    /\ accepting[session[i].server]
    /\ moves_to(i, "handshake")
    /\ UNCHANGED <<disk_vars, index_vars, chain_vars, datagrams, faults>>

\* handle_new_connection is given an error: it accepts no more.
accept_fails(h) ==
    /\ h \in Sharing /\ accepting[h]
    /\ errors < MaxErrors /\ errors + faults < MaxFaults
    /\ errors' = errors + 1
    /\ accepting' = [accepting EXCEPT ![h] = FALSE]
    /\ UNCHANGED <<disk_vars, index_vars, announcing, receiving, net_vars>>

\* Sensitivity: a session key is derived for every client.
trust_key_always(h, p) == TRUE

\* trust_key in derive: without it there is no key to seal the answer with.
trust_key(h, p) == <<h, p>> \in Trusts

\* The server's answer to the handshake: sealed "accepted", or "denied".
respond_encrypted(i) ==
    /\ at_step(i, "handshake")
    /\ IF trust_key(session[i].server, session[i].client) THEN moves_to(i, "accepted")
       ELSE ends(i)
    /\ UNCHANGED <<disk_vars, index_vars, chain_vars, datagrams, faults>>

\* The client has asked for the list. get_stored_files: the index as it is, not
\* refreshed.
send_list(i) ==
    /\ at_step(i, "accepted")
    /\ session' = [session EXCEPT ![i].step = "answered",
                                  ![i].list = stored_files[session[i].server]]
    /\ UNCHANGED <<disk_vars, index_vars, chain_vars, datagrams, faults>>

can_update(h) == storage_initialized[h] /\ ~storage_init_is_in_progress[h]

\* Sensitivity: the directory is read before the storage thread has read it.
refreshed_eagerly(h) == disk[h]

\* update_stored_files: one pass over the directory, if there is one.
refreshed(h) == IF can_update(h) /\ root[h] THEN disk[h] ELSE stored_files[h]

\* The early return for a missing directory leaves the flag set for good.
flag_after_update(h) == storage_init_is_in_progress[h] \/ (can_update(h) /\ ~root[h])

\* Sensitivity: a list is taken over whole.
missing_unchecked(s) == s.list

\* What of the list of session s is not stored, by the refreshed index.
missing(s) == s.list \ refreshed(s.client)

\* Sensitivity: local_endpoint for remote_endpoint.
source_swapped(s) == s.client

source(s) == s.server

\* The list arrives: add_available_files, and the session is over.
handle_read_encrypted_response(i) ==
    /\ at_step(i, "answered")
    /\ LET p == session[i].client
       IN  /\ stored_files' = [stored_files EXCEPT ![p] = refreshed(p)]
           /\ storage_init_is_in_progress' =
                  [storage_init_is_in_progress EXCEPT ![p] = flag_after_update(p)]
           /\ available_files' = [available_files EXCEPT ![p] =
                  [f \in Files |-> IF @[f] = Absent /\ f \in missing(session[i])
                                   THEN source(session[i]) ELSE @[f]]]
    /\ ends(i)
    /\ UNCHANGED <<disk_vars, storage_initialized, chain_vars, datagrams, faults>>

session_step(i) ==
    \/ handle_new_connection(i) \/ respond_encrypted(i)
    \/ send_list(i) \/ handle_read_encrypted_response(i)

connection_lost(i) ==
    /\ session[i] # Absent
    /\ errors + faults < MaxFaults
    /\ faults' = faults + 1
    /\ ends(i)
    /\ UNCHANGED <<disk_vars, index_vars, chain_vars, datagrams>>

-----------------------------------------------------------------------------
(* Hosts *)

\* The storage thread, whose races FileHandler models, in one step.
init_storage(h) ==
    /\ ~storage_initialized[h]
    /\ storage_initialized' = [storage_initialized EXCEPT ![h] = TRUE]
    /\ storage_init_is_in_progress' = [storage_init_is_in_progress EXCEPT ![h] = ~root[h]]
    /\ stored_files' = [stored_files EXCEPT ![h] = IF root[h] THEN disk[h] ELSE @]
    /\ UNCHANGED <<disk_vars, available_files, chain_vars, net_vars>>

\* A download is done: Receiver models how. Its entry joins the index, refreshed
\* or not.
finalize_file(h, f) ==
    /\ storage_initialized[h] /\ root[h]
    /\ available_files[h][f] # Absent
    /\ f \notin disk[h] \cup stored_files[h]
    /\ disk' = [disk EXCEPT ![h] = @ \cup {f}]
    /\ shared' = shared \cup {<<h, f>>}
    /\ stored_files' = [stored_files EXCEPT ![h] = refreshed(h) \cup {f}]
    /\ UNCHANGED <<root, removed, edits, flag_vars, available_files, chain_vars, net_vars>>

edited == edits < MaxEdits /\ edits' = edits + 1

\* The user puts a file into the directory, or takes one away.
edit(h, f) ==
    /\ edited
    /\ root[h]
    /\ IF f \in disk[h]
       THEN /\ disk' = [disk EXCEPT ![h] = @ \ {f}]
            /\ removed' = removed \cup {<<h, f>>}
            /\ UNCHANGED shared
       ELSE /\ disk' = [disk EXCEPT ![h] = @ \cup {f}]
            /\ shared' = shared \cup {<<h, f>>}
            /\ UNCHANGED removed
    /\ UNCHANGED <<root, index_vars, chain_vars, net_vars>>

\* The user removes the directory, with what is in it, or makes it.
edit_root(h) ==
    /\ edited
    /\ root' = [root EXCEPT ![h] = ~@]
    /\ disk' = [disk EXCEPT ![h] = {}]
    /\ removed' = removed \cup ({h} \X disk[h])
    /\ UNCHANGED <<shared, index_vars, chain_vars, net_vars>>

restart(h) ==
    /\ errors + faults < MaxFaults
    /\ faults' = faults + 1
    /\ stored_files' = [stored_files EXCEPT ![h] = {}]
    /\ storage_initialized' = [storage_initialized EXCEPT ![h] = FALSE]
    /\ storage_init_is_in_progress' = [storage_init_is_in_progress EXCEPT ![h] = FALSE]
    /\ available_files' = [available_files EXCEPT ![h] = [f \in Files |-> Absent]]
    /\ announcing' = [announcing EXCEPT ![h] = TRUE]
    /\ receiving' = [receiving EXCEPT ![h] = TRUE]
    /\ accepting' = [accepting EXCEPT ![h] = TRUE]
    /\ session' = [i \in Slots |-> IF session[i] # Absent /\ h \in {session[i].client,
                                                                   session[i].server}
                                   THEN Absent ELSE session[i]]
    /\ removed' = removed \ ({h} \X Files)
    /\ UNCHANGED <<root, disk, shared, edits, errors, datagrams>>

-----------------------------------------------------------------------------

Init ==
    /\ root \in [Hosts -> BOOLEAN]
    /\ disk \in [Hosts -> SUBSET Files]
    /\ \A h \in Hosts : ~root[h] => disk[h] = {}
    /\ removed = {}
    /\ shared = UNION {{h} \X disk[h] : h \in Hosts}
    /\ stored_files = [h \in Hosts |-> {}]
    /\ storage_initialized = [h \in Hosts |-> FALSE]
    /\ storage_init_is_in_progress = [h \in Hosts |-> FALSE]
    /\ available_files = [h \in Hosts |-> [f \in Files |-> Absent]]
    /\ announcing = [h \in Hosts |-> TRUE]
    /\ receiving = [h \in Hosts |-> TRUE]
    /\ accepting = [h \in Hosts |-> TRUE]
    /\ datagrams = {}
    /\ session = [i \in Slots |-> Absent]
    /\ errors = 0 /\ faults = 0 /\ edits = 0

receives(h, p) == \E i \in Slots : handle_receive_from(h, p, i)

Next ==
    \/ \E h \in Hosts : announce(h) \/ send_fails(h) \/ receive_fails(h) \/ accept_fails(h)
    \/ \E h, p \in Hosts : receives(h, p)
    \/ \E i \in Slots : session_step(i) \/ connection_lost(i)
    \/ \E h \in Hosts : init_storage(h) \/ edit_root(h) \/ restart(h)
    \/ \E h \in Hosts, f \in Files : finalize_file(h, f) \/ edit(h, f)

\* Timers fire, ready handlers run, and of the datagrams a host keeps sending
\* some arrive; of those it has stopped sending none has to.
Fairness ==
    /\ \A h \in Hosts : WF_vars(init_storage(h))
    /\ \A h \in Sharing : WF_vars(announce(h))
    /\ \A h \in Sharing, p \in Fetching : SF_vars(announcing[h] /\ receives(h, p))
    /\ \A i \in Slots : WF_vars(session_step(i))

Spec == Init /\ [][Next]_vars /\ Fairness

-----------------------------------------------------------------------------
(* Properties *)

steps == {"connected", "handshake", "accepted", "answered"}

\* Every variable has its type, nothing is indexed before the storage thread has
\* read the directory, and no file is in a directory that does not exist.
TypeOK ==
    /\ root \in [Hosts -> BOOLEAN]
    /\ disk \in [Hosts -> SUBSET Files] /\ stored_files \in [Hosts -> SUBSET Files]
    /\ \A h \in Hosts : ~root[h] => disk[h] = {}
    /\ storage_initialized \in [Hosts -> BOOLEAN]
    /\ storage_init_is_in_progress \in [Hosts -> BOOLEAN]
    /\ \A h \in Hosts : ~storage_initialized[h] => stored_files[h] = {}
    /\ available_files \in [Hosts -> [Files -> Sharing \cup {Absent}]]
    /\ announcing \in [Hosts -> BOOLEAN] /\ receiving \in [Hosts -> BOOLEAN]
    /\ accepting \in [Hosts -> BOOLEAN]
    /\ datagrams \subseteq Sharing \X Fetching
    /\ session \in [Slots -> [client : Fetching, server : Sharing, step : steps,
                              list : SUBSET Files] \cup {Absent}]
    /\ shared \subseteq Hosts \X Files /\ removed \subseteq Hosts \X Files
    /\ errors \in 0..MaxErrors /\ faults \in 0..MaxFaults
    /\ edits \in 0..MaxEdits

mutual(h, p) == {<<h, p>>, <<p, h>>} \subseteq Trusts

\* A host is offered files only by hosts that trust it and that it trusts: each
\* side decides alone, at another moment of the session.
OnlyTrusted ==
    \A p \in Hosts, f \in Files : available_files[p][f] # Absent => mutual(available_files[p][f], p)

\* The host a file would be asked of has had it in its own directory.
OffersWereShared ==
    \A p \in Hosts, f \in Files :
        available_files[p][f] # Absent => <<available_files[p][f], f>> \in shared

\* A host that hears its own announcements asks itself for a file only if that
\* file left its directory while the process ran: lists age on their way and the
\* index may have stopped following the directory, but a file that has always
\* been there is never queued to be fetched from the host itself.
OwnSourceWasRemoved ==
    \A p \in Hosts, f \in Files : available_files[p][f] = p => <<p, f>> \in removed

\* Announcements, four steps at two hosts, sessions that overtake each other and
\* indexes that age come to one thing: a whole list of one trusted host, taken
\* over at once, in which the first source of a file stays.
O == INSTANCE Offers WITH offers <- available_files
ImplementsOffers == O!Spec

offered_for_good(h, p, f) == mutual(h, p) /\ [](f \in disk[h])

\* A file a host has and keeps becomes and stays available to the hosts it
\* trusts and that trust it, whatever datagrams are lost, as long as no chain
\* has met an error.
Announced ==
    \A h \in Sharing, f \in Files : \A p \in Fetching \ {h} :
        offered_for_good(h, p, f) /\ [](f \notin disk[p] /\ errors = 0)
            => <>[](available_files[p][f] # Absent)

\* The same with errors: a network that comes back is used again.
AnnouncedAgain ==
    \A h \in Sharing, f \in Files : \A p \in Fetching \ {h} :
        offered_for_good(h, p, f) /\ [](f \notin disk[p])
            => <>[](available_files[p][f] # Absent)

=============================================================================
