--------------------------- MODULE DiscoveryProofs ---------------------------
(***************************************************************************)
(* Trust and truth of what hosts offer each other, for any hosts, files,   *)
(* trust, number of concurrent sessions and bounds. An offer is the last   *)
(* step of a session; what it is worth was decided by earlier ones, at     *)
(* another host and in another state. IInv says what each step of a        *)
(* session has established and no later event takes back.                  *)
(***************************************************************************)
EXTENDS Discovery, TLAPS

\* The client trusted the server before it connected, and a session gets past
\* the handshake only if the server trusts the client.
SessionsAreTrusted ==
    \A i \in Slots : session[i] # Absent =>
        /\ <<session[i].client, session[i].server>> \in Trusts
        /\ session[i].step \in {"accepted", "answered"} =>
               <<session[i].server, session[i].client>> \in Trusts

\* A list on its way names files the server has had.
ListsWereShared ==
    \A i \in Slots : session[i] # Absent =>
        \A f \in session[i].list : <<session[i].server, f>> \in shared

\* The directory and the index name files the host has had.
IndexWasShared ==
    \A h \in Hosts : \A f \in disk[h] \cup stored_files[h] : <<h, f>> \in shared

\* What a host has indexed is in its directory or was removed while it ran.
IndexWasThere ==
    \A h \in Hosts : \A f \in stored_files[h] : f \in disk[h] \/ <<h, f>> \in removed

\* A list a host sends itself names files that are indexed there still, or that
\* were removed while it ran.
OwnListsWereThere ==
    \A i \in Slots : session[i] # Absent /\ session[i].client = session[i].server =>
        \A f \in session[i].list :
            f \in stored_files[session[i].client] \/ <<session[i].client, f>> \in removed

\* What hosts know of themselves.
OwnInv == IndexWasThere /\ OwnListsWereThere /\ OwnSourceWasRemoved

IInv ==
    /\ TypeOK
    /\ SessionsAreTrusted
    /\ ListsWereShared
    /\ IndexWasShared
    /\ OnlyTrusted
    /\ OffersWereShared
    /\ OwnInv

\* The sessions as records, without the other variables.
session_type ==
    [client : Fetching, server : Sharing, step : steps, list : SUBSET Files]

sessions == [Slots -> session_type \cup {Absent}]

-----------------------------------------------------------------------------
(* Operators *)

\* Ending a session, or moving one to a step, gives a session.
LEMMA SessionUpdates ==
    ASSUME NEW i \in Slots, session \in sessions
    PROVE  /\ ends(i) => session' \in sessions
           /\ \A s \in steps : session[i] # Absent /\ moves_to(i, s) => session' \in sessions
  <1>1. ends(i) => session' \in sessions
    BY DEF ends, sessions
  <1>2. ASSUME NEW s \in steps, session[i] # Absent, moves_to(i, s)
        PROVE  session' \in sessions
    <2>1. session[i] \in session_type
      BY <1>2 DEF sessions
    <2>2. [session[i] EXCEPT !.step = s] \in session_type
      BY <2>1 DEF session_type
    <2> QED
      BY <1>2, <2>2 DEF moves_to, sessions
  <1> QED
    BY <1>1, <1>2

\* The refreshed index is a set of files the host has had.
LEMMA RefreshedWasShared ==
    ASSUME TypeOK, IndexWasShared, NEW h \in Hosts
    PROVE  /\ refreshed(h) \in SUBSET Files
           /\ \A f \in refreshed(h) : <<h, f>> \in shared
           /\ ~storage_initialized[h] => refreshed(h) = {}
  BY DEF TypeOK, IndexWasShared, refreshed, can_update

\* It has lost only files that were removed, and gained only files that are there.
LEMMA RefreshedWasThere ==
    ASSUME TypeOK, IndexWasThere, NEW h \in Hosts
    PROVE  /\ \A f \in stored_files[h] : f \in refreshed(h) \/ <<h, f>> \in removed
           /\ \A f \in refreshed(h) : f \in disk[h] \/ <<h, f>> \in removed
  BY DEF TypeOK, IndexWasThere, refreshed

\* What the user takes from a directory is recorded, and what is put there too.
LEMMA EditEffects ==
    ASSUME TypeOK, NEW h \in Hosts, NEW f \in Files, edit(h, f)
    PROVE  /\ root[h]
           /\ disk' \in [Hosts -> SUBSET Files]
           /\ \A g \in Hosts \ {h} : disk'[g] = disk[g]
           /\ \A e \in disk[h] : e \in disk'[h] \/ <<h, e>> \in removed'
           /\ \A e \in disk'[h] : e \in disk[h] \/ <<h, e>> \in shared'
           /\ shared \subseteq shared' /\ shared' \subseteq Hosts \X Files
           /\ removed \subseteq removed' /\ removed' \subseteq Hosts \X Files
  <1>1. CASE f \in disk[h]
    <2>1. /\ disk' = [disk EXCEPT ![h] = @ \ {f}]
          /\ removed' = removed \cup {<<h, f>>}
          /\ shared' = shared /\ root[h]
      BY <1>1 DEF edit
    <2> QED
      BY <2>1 DEF TypeOK
  <1>2. CASE f \notin disk[h]
    <2>1. /\ disk' = [disk EXCEPT ![h] = @ \cup {f}]
          /\ shared' = shared \cup {<<h, f>>}
          /\ removed' = removed /\ root[h]
      BY <1>2 DEF edit
    <2> QED
      BY <2>1 DEF TypeOK
  <1> QED
    BY <1>1, <1>2

-----------------------------------------------------------------------------
(* Types *)

LEMMA InitIsTyped ==
    ASSUME Init
    PROVE  TypeOK
  BY DiscoveryAssumption DEF Init, TypeOK

LEMMA SessionStepKeepsType ==
    ASSUME TypeOK, IndexWasShared, NEW i \in Slots, session_step(i)
    PROVE  TypeOK'
  <1>1. session \in sessions
    BY DEF TypeOK, sessions, session_type
  <1>2. session[i] # Absent => session[i] \in session_type
    BY <1>1 DEF sessions
  <1>3. session' \in sessions => session' \in
            [Slots -> [client : Fetching, server : Sharing, step : steps, list : SUBSET Files]
                      \cup {Absent}]
    BY DEF sessions, session_type
  <1>4. CASE handle_new_connection(i)
    <2>1. session' \in sessions
      BY <1>1, <1>4, SessionUpdates DEF handle_new_connection, at_step, steps
    <2> QED
      BY <1>3, <1>4, <2>1 DEF TypeOK, handle_new_connection, disk_vars, index_vars, flag_vars, chain_vars
  <1>5. CASE respond_encrypted(i)
    <2>1. session' \in sessions
      BY <1>1, <1>5, SessionUpdates DEF respond_encrypted, at_step, steps
    <2> QED
      BY <1>3, <1>5, <2>1 DEF TypeOK, respond_encrypted, disk_vars, index_vars, flag_vars, chain_vars
  <1>6. CASE send_list(i)
    <2>1. session[i] \in session_type
      BY <1>2, <1>6 DEF send_list, at_step
    <2>2. stored_files[session[i].server] \in SUBSET Files
      BY <2>1, DiscoveryAssumption DEF TypeOK, session_type
    <2>3. [session[i] EXCEPT !.step = "answered", !.list = stored_files[session[i].server]]
              \in session_type
      BY <2>1, <2>2 DEF session_type, steps
    <2>4. session' \in sessions
      BY <1>1, <1>6, <2>3 DEF send_list, sessions
    <2> QED
      BY <1>3, <1>6, <2>4 DEF TypeOK, send_list, disk_vars, index_vars, flag_vars, chain_vars
  <1>7. CASE handle_read_encrypted_response(i)
    <2> DEFINE p == session[i].client
    <2>1. session[i] \in session_type
      BY <1>2, <1>7 DEF handle_read_encrypted_response, at_step
    <2>2. p \in Hosts /\ source(session[i]) \in Sharing
      BY <2>1, DiscoveryAssumption DEF session_type, source
    <2>3. session' \in sessions
      BY <1>1, <1>7, SessionUpdates DEF handle_read_encrypted_response
    <2>4. /\ stored_files' = [stored_files EXCEPT ![p] = refreshed(p)]
          /\ storage_initialized' = storage_initialized
          /\ storage_init_is_in_progress' \in [Hosts -> BOOLEAN]
      BY <1>7, <2>2 DEF handle_read_encrypted_response, TypeOK, flag_after_update, can_update
    <2>5. /\ stored_files' \in [Hosts -> SUBSET Files]
          /\ \A h \in Hosts : ~storage_initialized'[h] => stored_files'[h] = {}
      BY <2>2, <2>4, RefreshedWasShared DEF TypeOK
    <2>6. available_files' \in [Hosts -> [Files -> Sharing \cup {Absent}]]
      BY <1>7, <2>2 DEF TypeOK, handle_read_encrypted_response
    <2> QED
      BY <1>3, <1>7, <2>3, <2>4, <2>5, <2>6
         DEF TypeOK, handle_read_encrypted_response, disk_vars, chain_vars
  <1> QED
    BY <1>4, <1>5, <1>6, <1>7 DEF session_step

LEMMA StepKeepsType ==
    ASSUME TypeOK, IndexWasShared, [Next]_vars
    PROVE  TypeOK'
  <1>1. ASSUME NEW h \in Hosts, announce(h)
        PROVE  TypeOK'
    BY <1>1 DEF TypeOK, announce, disk_vars, index_vars, flag_vars, chain_vars
  <1>2. ASSUME NEW h \in Hosts, send_fails(h) \/ receive_fails(h) \/ accept_fails(h)
        PROVE  TypeOK'
    <2>1. errors' \in 0..MaxErrors
      BY <1>2, DiscoveryAssumption DEF TypeOK, send_fails, receive_fails, accept_fails
    <2>2. /\ announcing' \in [Hosts -> BOOLEAN]
          /\ receiving' \in [Hosts -> BOOLEAN]
          /\ accepting' \in [Hosts -> BOOLEAN]
      BY <1>2 DEF TypeOK, send_fails, receive_fails, accept_fails
    <2> QED
      BY <1>2, <2>1, <2>2
         DEF TypeOK, send_fails, receive_fails, accept_fails, disk_vars, index_vars, flag_vars, net_vars
  <1>3. ASSUME NEW h \in Hosts, NEW p \in Hosts, NEW i \in Slots, handle_receive_from(h, p, i)
        PROVE  TypeOK'
    <2>1. h \in Sharing /\ p \in Fetching
      BY <1>3 DEF TypeOK, handle_receive_from
    <2> QED
      BY <1>3, <2>1
         DEF TypeOK, handle_receive_from, steps, disk_vars, index_vars, flag_vars, chain_vars
  <1>4. ASSUME NEW i \in Slots, connection_lost(i)
        PROVE  TypeOK'
    <2>1. faults' \in 0..MaxFaults
      BY <1>4, DiscoveryAssumption DEF TypeOK, connection_lost
    <2> QED
      BY <1>4, <2>1 DEF TypeOK, connection_lost, ends, disk_vars, index_vars, flag_vars, chain_vars
  <1>5. ASSUME NEW h \in Hosts, init_storage(h)
        PROVE  TypeOK'
    BY <1>5 DEF TypeOK, init_storage, disk_vars, chain_vars, net_vars
  <1>6. ASSUME NEW h \in Hosts, restart(h)
        PROVE  TypeOK'
    <2>1. faults' \in 0..MaxFaults
      BY <1>6, DiscoveryAssumption DEF TypeOK, restart
    <2>2. removed' \subseteq Hosts \X Files
      BY <1>6 DEF TypeOK, restart
    <2> QED
      BY <1>6, <2>1, <2>2 DEF TypeOK, restart
  <1>7. ASSUME NEW h \in Hosts, NEW f \in Files, edit(h, f)
        PROVE  TypeOK'
    <2>1. edits' \in 0..MaxEdits
      BY <1>7, DiscoveryAssumption DEF TypeOK, edit, edited
    <2>2. /\ disk' \in [Hosts -> SUBSET Files]
          /\ \A g \in Hosts : ~root[g] => disk'[g] = {}
          /\ shared' \subseteq Hosts \X Files /\ removed' \subseteq Hosts \X Files
      BY <1>7, EditEffects DEF TypeOK
    <2> QED
      BY <1>7, <2>1, <2>2 DEF TypeOK, edit, index_vars, flag_vars, chain_vars, net_vars
  <1>8. ASSUME NEW h \in Hosts, edit_root(h)
        PROVE  TypeOK'
    <2>1. edits' \in 0..MaxEdits
      BY <1>8, DiscoveryAssumption DEF TypeOK, edit_root, edited
    <2>2. /\ root' \in [Hosts -> BOOLEAN]
          /\ disk' \in [Hosts -> SUBSET Files]
          /\ \A g \in Hosts : ~root'[g] => disk'[g] = {}
          /\ removed' \subseteq Hosts \X Files
      BY <1>8 DEF TypeOK, edit_root
    <2> QED
      BY <1>8, <2>1, <2>2 DEF TypeOK, edit_root, index_vars, flag_vars, chain_vars, net_vars
  <1>9. ASSUME NEW h \in Hosts, NEW f \in Files, finalize_file(h, f)
        PROVE  TypeOK'
    <2>1. /\ disk' \in [Hosts -> SUBSET Files]
          /\ \A g \in Hosts : ~root[g] => disk'[g] = {}
          /\ shared' \subseteq Hosts \X Files
      BY <1>9 DEF TypeOK, finalize_file
    <2>2. /\ stored_files' \in [Hosts -> SUBSET Files]
          /\ \A g \in Hosts : ~storage_initialized[g] => stored_files'[g] = {}
      BY <1>9, RefreshedWasShared DEF TypeOK, finalize_file
    <2> QED
      BY <1>9, <2>1, <2>2 DEF TypeOK, finalize_file, flag_vars, chain_vars, net_vars
  <1>10. CASE UNCHANGED vars
    BY <1>10 DEF TypeOK, vars, disk_vars, index_vars, flag_vars, chain_vars, net_vars
  <1> QED
    BY <1>1, <1>2, <1>3, <1>4, <1>5, <1>6, <1>7, <1>8, <1>9, <1>10, SessionStepKeepsType
       DEF Next, receives

-----------------------------------------------------------------------------
(* Trust and truth *)

\* What no step of a session, and no update of the queue, is about.
LEMMA NothingOffered ==
    ASSUME IInv, UNCHANGED <<session, available_files, disk, stored_files, shared>>
    PROVE  /\ SessionsAreTrusted' /\ ListsWereShared' /\ IndexWasShared'
           /\ OnlyTrusted' /\ OffersWereShared'
  BY DEF IInv, SessionsAreTrusted, ListsWereShared, IndexWasShared, OnlyTrusted,
         OffersWereShared

\* A session that ends takes no other's trust or list away.
LEMMA EndingIsHarmless ==
    ASSUME IInv, NEW i \in Slots, ends(i), UNCHANGED shared
    PROVE  SessionsAreTrusted' /\ ListsWereShared'
  <1>1. \A j \in Slots : session'[j] \in {session[j], Absent}
    BY DEF IInv, TypeOK, ends
  <1> QED
    BY <1>1 DEF IInv, SessionsAreTrusted, ListsWereShared

\* A session that moves to another step keeps its hosts and its list; before
\* "accepted" the server must trust the client.
LEMMA MovingIsHarmless ==
    ASSUME IInv, NEW i \in Slots, NEW s \in steps, session[i] # Absent, moves_to(i, s),
           UNCHANGED shared,
           s \in {"accepted", "answered"} =>
               <<session[i].server, session[i].client>> \in Trusts
    PROVE  SessionsAreTrusted' /\ ListsWereShared'
  <1>1. \A j \in Slots \ {i} : session'[j] = session[j]
    BY DEF IInv, TypeOK, moves_to
  <1>2. /\ session'[i].client = session[i].client
        /\ session'[i].server = session[i].server
        /\ session'[i].list = session[i].list
        /\ session'[i].step = s
    BY DEF IInv, TypeOK, moves_to
  <1>3. SessionsAreTrusted'
    BY <1>1, <1>2 DEF IInv, SessionsAreTrusted
  <1>4. ListsWereShared'
    BY <1>1, <1>2 DEF IInv, ListsWereShared
  <1> QED
    BY <1>3, <1>4

LEMMA SessionStepKeepsTruth ==
    ASSUME IInv, NEW i \in Slots, session_step(i)
    PROVE  /\ SessionsAreTrusted' /\ ListsWereShared' /\ IndexWasShared'
           /\ OnlyTrusted' /\ OffersWereShared'
  <1>1. CASE handle_new_connection(i)
    <2>1. SessionsAreTrusted' /\ ListsWereShared'
      BY <1>1, MovingIsHarmless DEF handle_new_connection, at_step, steps, disk_vars
    <2>2. UNCHANGED <<available_files, disk, stored_files, shared>>
      BY <1>1 DEF handle_new_connection, disk_vars, index_vars
    <2> QED
      BY <2>1, <2>2 DEF IInv, IndexWasShared, OnlyTrusted, OffersWereShared
  <1>2. CASE respond_encrypted(i)
    <2>1. SessionsAreTrusted' /\ ListsWereShared'
      <3>1. CASE <<session[i].server, session[i].client>> \in Trusts
        BY <1>2, <3>1, MovingIsHarmless DEF respond_encrypted, trust_key, at_step, steps, disk_vars
      <3>2. CASE <<session[i].server, session[i].client>> \notin Trusts
        BY <1>2, <3>2, EndingIsHarmless DEF respond_encrypted, trust_key, disk_vars
      <3> QED
        BY <3>1, <3>2
    <2>2. UNCHANGED <<available_files, disk, stored_files, shared>>
      BY <1>2 DEF respond_encrypted, disk_vars, index_vars
    <2> QED
      BY <2>1, <2>2 DEF IInv, IndexWasShared, OnlyTrusted, OffersWereShared
  <1>3. CASE send_list(i)
    <2>1. UNCHANGED <<available_files, disk, stored_files, shared>>
      BY <1>3 DEF send_list, disk_vars, index_vars
    <2>2. /\ session[i] # Absent /\ session[i].step = "accepted"
          /\ session[i] \in session_type
      BY <1>3 DEF send_list, at_step, IInv, TypeOK, session_type
    <2>3. \A j \in Slots \ {i} : session'[j] = session[j]
      BY <1>3 DEF IInv, TypeOK, send_list
    <2>4. /\ session'[i].client = session[i].client
          /\ session'[i].server = session[i].server
          /\ session'[i].list = stored_files[session[i].server]
      BY <1>3, <2>2 DEF IInv, TypeOK, send_list, session_type
    <2>5. SessionsAreTrusted'
      BY <2>2, <2>3, <2>4 DEF IInv, SessionsAreTrusted
    <2>6. session[i].server \in Hosts
      BY <2>2, DiscoveryAssumption DEF session_type
    <2>7. ListsWereShared'
      BY <2>1, <2>3, <2>4, <2>6 DEF IInv, ListsWereShared, IndexWasShared
    <2> QED
      BY <2>1, <2>5, <2>7 DEF IInv, IndexWasShared, OnlyTrusted, OffersWereShared
  <1>4. CASE handle_read_encrypted_response(i)
    <2> DEFINE p == session[i].client
               h == session[i].server
    <2>1. /\ session[i] # Absent /\ session[i].step = "answered"
          /\ p \in Hosts /\ h \in Hosts
      BY <1>4, DiscoveryAssumption DEF handle_read_encrypted_response, at_step, IInv, TypeOK
    <2>2. UNCHANGED <<disk, shared>>
      BY <1>4 DEF handle_read_encrypted_response, disk_vars
    <2>3. SessionsAreTrusted' /\ ListsWereShared'
      BY <1>4, <2>2, EndingIsHarmless DEF handle_read_encrypted_response
    <2>4. stored_files' = [stored_files EXCEPT ![p] = refreshed(p)]
      BY <1>4 DEF handle_read_encrypted_response
    <2>5. IndexWasShared'
      BY <2>1, <2>2, <2>4, RefreshedWasShared DEF IInv, TypeOK, IndexWasShared
    <2>6. \A q \in Hosts, f \in Files :
             \/ available_files'[q][f] = available_files[q][f]
             \/ q = p /\ f \in session[i].list /\ available_files'[q][f] = h
      BY <1>4, <2>1 DEF IInv, TypeOK, handle_read_encrypted_response, source, missing
    <2>7. mutual(h, p) /\ \A f \in session[i].list : <<h, f>> \in shared
      BY <2>1 DEF IInv, SessionsAreTrusted, ListsWereShared, mutual
    <2>8. OnlyTrusted' /\ OffersWereShared'
      BY <2>2, <2>6, <2>7 DEF IInv, OnlyTrusted, OffersWereShared, mutual
    <2> QED
      BY <2>3, <2>5, <2>8
  <1> QED
    BY <1>1, <1>2, <1>3, <1>4 DEF session_step

LEMMA StepKeepsTruth ==
    ASSUME IInv, [Next]_vars
    PROVE  /\ SessionsAreTrusted' /\ ListsWereShared' /\ IndexWasShared'
           /\ OnlyTrusted' /\ OffersWereShared'
  <1>1. ASSUME NEW h \in Hosts,
               announce(h) \/ send_fails(h) \/ receive_fails(h) \/ accept_fails(h)
        PROVE  UNCHANGED <<session, available_files, disk, stored_files, shared>>
    BY <1>1 DEF announce, send_fails, receive_fails, accept_fails, disk_vars, index_vars,
                net_vars
  <1>2. ASSUME NEW h \in Hosts, NEW p \in Hosts, NEW i \in Slots, handle_receive_from(h, p, i)
        PROVE  /\ SessionsAreTrusted' /\ ListsWereShared' /\ IndexWasShared'
               /\ OnlyTrusted' /\ OffersWereShared'
    <2>1. UNCHANGED <<available_files, disk, stored_files, shared>>
      BY <1>2 DEF handle_receive_from, disk_vars, index_vars
    <2>2. \A j \in Slots : \/ session'[j] = session[j]
                           \/ /\ session'[j] = [client |-> p, server |-> h,
                                                step |-> "connected", list |-> {}]
                              /\ <<p, h>> \in Trusts
      BY <1>2 DEF IInv, TypeOK, handle_receive_from, is_allowed
    <2>3. SessionsAreTrusted' /\ ListsWereShared'
      BY <2>1, <2>2 DEF IInv, SessionsAreTrusted, ListsWereShared
    <2> QED
      BY <2>1, <2>3 DEF IInv, IndexWasShared, OnlyTrusted, OffersWereShared
  <1>3. ASSUME NEW i \in Slots, connection_lost(i)
        PROVE  /\ SessionsAreTrusted' /\ ListsWereShared' /\ IndexWasShared'
               /\ OnlyTrusted' /\ OffersWereShared'
    <2>1. UNCHANGED <<available_files, disk, stored_files, shared>>
      BY <1>3 DEF connection_lost, disk_vars, index_vars
    <2>2. SessionsAreTrusted' /\ ListsWereShared'
      BY <1>3, <2>1, EndingIsHarmless DEF connection_lost
    <2> QED
      BY <2>1, <2>2 DEF IInv, IndexWasShared, OnlyTrusted, OffersWereShared
  <1>4. ASSUME NEW h \in Hosts, init_storage(h)
        PROVE  /\ SessionsAreTrusted' /\ ListsWereShared' /\ IndexWasShared'
               /\ OnlyTrusted' /\ OffersWereShared'
    <2>1. UNCHANGED <<session, available_files, disk, shared>>
      BY <1>4 DEF init_storage, disk_vars, net_vars
    <2>2. IndexWasShared'
      BY <1>4, <2>1 DEF IInv, TypeOK, IndexWasShared, init_storage
    <2> QED
      BY <2>1, <2>2
         DEF IInv, SessionsAreTrusted, ListsWereShared, OnlyTrusted, OffersWereShared
  <1>5. ASSUME NEW h \in Hosts, restart(h)
        PROVE  /\ SessionsAreTrusted' /\ ListsWereShared' /\ IndexWasShared'
               /\ OnlyTrusted' /\ OffersWereShared'
    <2>1. UNCHANGED <<disk, shared>>
      BY <1>5 DEF restart
    <2>2. \A i \in Slots : session'[i] \in {session[i], Absent}
      BY <1>5 DEF restart
    <2>3. SessionsAreTrusted' /\ ListsWereShared'
      BY <2>1, <2>2 DEF IInv, SessionsAreTrusted, ListsWereShared
    <2>4. \A p \in Hosts, f \in Files : available_files'[p][f] \in {available_files[p][f], Absent}
      BY <1>5 DEF IInv, TypeOK, restart
    <2>5. OnlyTrusted' /\ OffersWereShared'
      BY <2>1, <2>4 DEF IInv, OnlyTrusted, OffersWereShared
    <2>6. IndexWasShared'
      BY <1>5, <2>1 DEF IInv, TypeOK, IndexWasShared, restart
    <2> QED
      BY <2>3, <2>5, <2>6
  <1>6. ASSUME NEW h \in Hosts, NEW f \in Files, edit(h, f)
        PROVE  /\ SessionsAreTrusted' /\ ListsWereShared' /\ IndexWasShared'
               /\ OnlyTrusted' /\ OffersWereShared'
    <2>1. UNCHANGED <<session, available_files, stored_files>> /\ shared \subseteq shared'
      BY <1>6, EditEffects DEF IInv, edit, index_vars, net_vars
    <2>2. IndexWasShared'
      BY <1>6, <2>1, EditEffects DEF IInv, IndexWasShared
    <2> QED
      BY <2>1, <2>2
         DEF IInv, SessionsAreTrusted, ListsWereShared, OnlyTrusted, OffersWereShared
  <1>7. ASSUME NEW h \in Hosts, edit_root(h)
        PROVE  /\ SessionsAreTrusted' /\ ListsWereShared' /\ IndexWasShared'
               /\ OnlyTrusted' /\ OffersWereShared'
    <2>1. UNCHANGED <<session, available_files, stored_files, shared>>
      BY <1>7 DEF edit_root, index_vars, net_vars
    <2>2. IndexWasShared'
      BY <1>7, <2>1 DEF IInv, TypeOK, IndexWasShared, edit_root
    <2> QED
      BY <2>1, <2>2
         DEF IInv, SessionsAreTrusted, ListsWereShared, OnlyTrusted, OffersWereShared
  <1>8. ASSUME NEW h \in Hosts, NEW f \in Files, finalize_file(h, f)
        PROVE  /\ SessionsAreTrusted' /\ ListsWereShared' /\ IndexWasShared'
               /\ OnlyTrusted' /\ OffersWereShared'
    <2>1. UNCHANGED <<session, available_files>> /\ shared' = shared \cup {<<h, f>>}
      BY <1>8 DEF finalize_file, net_vars
    <2>2. \A g \in Hosts : \A e \in disk'[g] \cup stored_files'[g] :
             \/ e \in disk[g] \cup stored_files[g]
             \/ g = h /\ (e = f \/ e \in refreshed(h))
      BY <1>8 DEF finalize_file, IInv, TypeOK
    <2>3. IndexWasShared'
      BY <2>1, <2>2, RefreshedWasShared DEF IInv, IndexWasShared
    <2> QED
      BY <2>1, <2>3
         DEF IInv, SessionsAreTrusted, ListsWereShared, OnlyTrusted, OffersWereShared
  <1>9. CASE UNCHANGED vars
    BY <1>9, NothingOffered DEF vars, disk_vars, index_vars, net_vars
  <1> QED
    BY <1>1, <1>2, <1>3, <1>4, <1>5, <1>6, <1>7, <1>8, <1>9, SessionStepKeepsTruth, NothingOffered
       DEF Next, receives

-----------------------------------------------------------------------------
(* What hosts know of themselves *)

\* An index that changes only by being refreshed, or by files that are there, and
\* sessions that only end leave all of it true.
LEMMA OwnFrame ==
    ASSUME IInv,
           removed \subseteq removed',
           \A h \in Hosts : \A f \in disk[h] : f \in disk'[h] \/ <<h, f>> \in removed',
           \A h \in Hosts :
               /\ \A f \in stored_files[h] : f \in stored_files'[h] \/ <<h, f>> \in removed'
               /\ \A f \in stored_files'[h] :
                     f \in stored_files[h] \cup disk'[h] \/ <<h, f>> \in removed',
           \A i \in Slots : \/ session'[i] = Absent
                            \/ /\ session[i] # Absent
                               /\ session'[i].client = session[i].client
                               /\ session'[i].server = session[i].server
                               /\ session'[i].list = session[i].list
    PROVE  IndexWasThere' /\ OwnListsWereThere'
  <1>1. IndexWasThere'
    BY DEF IInv, OwnInv, IndexWasThere
  <1>2. \A i \in Slots : session[i] # Absent => session[i].client \in Hosts
    BY DiscoveryAssumption DEF IInv, TypeOK
  <1>3. OwnListsWereThere'
    BY <1>2 DEF IInv, OwnInv, OwnListsWereThere
  <1> QED
    BY <1>1, <1>3

\* A host queues a file of its own list only if the refreshed index lacks it: then
\* the file was removed after the list was made.
LEMMA ArrivalKeepsOwn ==
    ASSUME IInv, NEW i \in Slots, handle_read_encrypted_response(i)
    PROVE  OwnInv'
  <1> DEFINE p == session[i].client
             h == session[i].server
  <1>1. /\ session[i] # Absent
        /\ p \in Hosts /\ h \in Hosts
    BY DiscoveryAssumption DEF handle_read_encrypted_response, at_step, IInv, TypeOK
  <1>2. UNCHANGED <<disk, removed>>
    BY DEF handle_read_encrypted_response, disk_vars
  <1>3. \A q \in Hosts : stored_files'[q] = IF q = p THEN refreshed(p) ELSE stored_files[q]
    BY <1>1 DEF handle_read_encrypted_response, IInv, TypeOK
  <1>4. \A j \in Slots : session'[j] \in {session[j], Absent}
    BY DEF handle_read_encrypted_response, ends, IInv, TypeOK
  <1>5. /\ \A f \in stored_files[p] : f \in refreshed(p) \/ <<p, f>> \in removed
        /\ \A f \in refreshed(p) : f \in disk[p] \/ <<p, f>> \in removed
    BY <1>1, RefreshedWasThere DEF IInv, OwnInv
  <1>6. IndexWasThere' /\ OwnListsWereThere'
    BY <1>1, <1>2, <1>3, <1>4, <1>5, OwnFrame
  <1>7. \A q \in Hosts, f \in Files :
           \/ available_files'[q][f] = available_files[q][f]
           \/ q = p /\ f \in missing(session[i]) /\ available_files'[q][f] = h
    BY <1>1 DEF IInv, TypeOK, handle_read_encrypted_response, source
  <1>8. ASSUME p = h, NEW f \in missing(session[i])
        PROVE  <<p, f>> \in removed
    <2>1. f \in stored_files[p] \/ <<p, f>> \in removed
      BY <1>1, <1>8 DEF missing, IInv, OwnInv, OwnListsWereThere
    <2> QED
      BY <1>5, <1>8, <2>1 DEF missing
  <1>9. OwnSourceWasRemoved'
    BY <1>2, <1>7, <1>8 DEF IInv, OwnInv, OwnSourceWasRemoved
  <1> QED
    BY <1>6, <1>9 DEF OwnInv

LEMMA StepKeepsOwn ==
    ASSUME IInv, [Next]_vars
    PROVE  OwnInv'
  <1>1. ASSUME UNCHANGED <<disk, removed, stored_files, available_files>>,
               \A i \in Slots : \/ session'[i] = Absent
                                \/ /\ session[i] # Absent
                                   /\ session'[i].client = session[i].client
                                   /\ session'[i].server = session[i].server
                                   /\ session'[i].list = session[i].list
        PROVE  OwnInv'
    <2>1. IndexWasThere' /\ OwnListsWereThere'
      BY <1>1, OwnFrame
    <2> QED
      BY <1>1, <2>1 DEF IInv, OwnInv, OwnSourceWasRemoved
  <1>2. ASSUME NEW h \in Hosts,
               announce(h) \/ send_fails(h) \/ receive_fails(h) \/ accept_fails(h)
        PROVE  OwnInv'
    <2>1. UNCHANGED <<session, disk, removed, stored_files, available_files>>
      BY <1>2 DEF announce, send_fails, receive_fails, accept_fails, disk_vars, index_vars,
                  net_vars
    <2> QED
      BY <1>1, <2>1
  <1>3. ASSUME NEW h \in Hosts, NEW p \in Hosts, NEW i \in Slots, handle_receive_from(h, p, i)
        PROVE  OwnInv'
    <2>1. UNCHANGED <<disk, removed, stored_files, available_files>>
      BY <1>3 DEF handle_receive_from, disk_vars, index_vars
    <2>2. \A j \in Slots : session'[j] = session[j] \/ session'[j].list = {}
      BY <1>3 DEF IInv, TypeOK, handle_receive_from
    <2> QED
      BY <2>1, <2>2 DEF IInv, OwnInv, IndexWasThere, OwnListsWereThere, OwnSourceWasRemoved
  <1>4. ASSUME NEW i \in Slots, handle_new_connection(i) \/ respond_encrypted(i) \/ connection_lost(i)
        PROVE  OwnInv'
    <2>1. UNCHANGED <<disk, removed, stored_files, available_files>>
      BY <1>4 DEF handle_new_connection, respond_encrypted, connection_lost, disk_vars, index_vars
    <2>2. \A j \in Slots : \/ session'[j] = Absent
                           \/ /\ session[j] # Absent
                              /\ session'[j].client = session[j].client
                              /\ session'[j].server = session[j].server
                              /\ session'[j].list = session[j].list
      BY <1>4 DEF handle_new_connection, respond_encrypted, connection_lost, at_step, moves_to,
                  ends, IInv, TypeOK
    <2> QED
      BY <1>1, <2>1, <2>2
  <1>5. ASSUME NEW i \in Slots, send_list(i)
        PROVE  OwnInv'
    <2>1. UNCHANGED <<disk, removed, stored_files, available_files>>
      BY <1>5 DEF send_list, disk_vars, index_vars
    <2>2. \A j \in Slots \ {i} : session'[j] = session[j]
      BY <1>5 DEF IInv, TypeOK, send_list
    <2>3. /\ session'[i].client = session[i].client
          /\ session'[i].server = session[i].server
          /\ session'[i].list = stored_files[session[i].server]
      BY <1>5 DEF IInv, TypeOK, send_list, at_step
    <2> QED
      BY <2>1, <2>2, <2>3 DEF IInv, OwnInv, IndexWasThere, OwnListsWereThere, OwnSourceWasRemoved
  <1>6. ASSUME NEW h \in Hosts, init_storage(h)
        PROVE  OwnInv'
    <2>1. UNCHANGED <<session, disk, removed, available_files>>
      BY <1>6 DEF init_storage, disk_vars, net_vars
    <2>2. \A q \in Hosts : \/ stored_files'[q] = stored_files[q]
                           \/ stored_files[q] = {} /\ stored_files'[q] = disk[q]
      BY <1>6 DEF IInv, TypeOK, init_storage
    <2>3. IndexWasThere' /\ OwnListsWereThere'
      BY <2>1, <2>2, OwnFrame
    <2> QED
      BY <2>1, <2>3 DEF IInv, OwnInv, OwnSourceWasRemoved
  <1>7. ASSUME NEW h \in Hosts, NEW f \in Files, edit(h, f)
        PROVE  OwnInv'
    <2>1. UNCHANGED <<session, stored_files, available_files>> /\ removed \subseteq removed'
      BY <1>7, EditEffects DEF IInv, edit, index_vars, net_vars
    <2>2. \A g \in Hosts : \A e \in disk[g] : e \in disk'[g] \/ <<g, e>> \in removed'
      BY <1>7, EditEffects DEF IInv
    <2>3. IndexWasThere' /\ OwnListsWereThere'
      BY <2>1, <2>2, OwnFrame
    <2> QED
      BY <2>1, <2>3 DEF IInv, OwnInv, OwnSourceWasRemoved
  <1>8. ASSUME NEW h \in Hosts, edit_root(h)
        PROVE  OwnInv'
    <2>1. UNCHANGED <<session, stored_files, available_files>> /\ removed \subseteq removed'
      BY <1>8 DEF edit_root, index_vars, net_vars
    <2>2. \A g \in Hosts : \A e \in disk[g] : e \in disk'[g] \/ <<g, e>> \in removed'
      BY <1>8 DEF IInv, TypeOK, edit_root
    <2>3. IndexWasThere' /\ OwnListsWereThere'
      BY <2>1, <2>2, OwnFrame
    <2> QED
      BY <2>1, <2>3 DEF IInv, OwnInv, OwnSourceWasRemoved
  <1>9. ASSUME NEW h \in Hosts, NEW f \in Files, finalize_file(h, f)
        PROVE  OwnInv'
    <2>1. UNCHANGED <<session, removed, available_files>>
      BY <1>9 DEF finalize_file, net_vars
    <2>2. /\ \A q \in Hosts : disk[q] \subseteq disk'[q]
          /\ f \in disk'[h]
          /\ stored_files'[h] = refreshed(h) \cup {f}
          /\ \A q \in Hosts \ {h} : stored_files'[q] = stored_files[q]
      BY <1>9 DEF IInv, TypeOK, finalize_file
    <2>3. /\ \A e \in stored_files[h] : e \in refreshed(h) \/ <<h, e>> \in removed
          /\ \A e \in refreshed(h) : e \in disk[h] \/ <<h, e>> \in removed
      BY RefreshedWasThere DEF IInv, OwnInv
    <2>4. IndexWasThere' /\ OwnListsWereThere'
      BY <2>1, <2>2, <2>3, OwnFrame
    <2> QED
      BY <2>1, <2>4 DEF IInv, OwnInv, OwnSourceWasRemoved
  <1>10. ASSUME NEW h \in Hosts, restart(h)
        PROVE  OwnInv'
    <2>1. /\ disk' = disk
          /\ stored_files'[h] = {}
          /\ \A q \in Hosts \ {h} : stored_files'[q] = stored_files[q]
          /\ \A f \in Files : available_files'[h][f] = Absent
          /\ \A q \in Hosts \ {h} : available_files'[q] = available_files[q]
      BY <1>10 DEF IInv, TypeOK, restart
    <2>2. \A q \in Hosts \ {h} : \A f : <<q, f>> \in removed => <<q, f>> \in removed'
      BY <1>10 DEF restart
    <2>3. \A i \in Slots : session'[i] # Absent => session'[i] = session[i] /\ session[i].client # h
      BY <1>10 DEF restart
    <2>4. \A i \in Slots : session[i] # Absent => session[i].client \in Hosts
      BY DiscoveryAssumption DEF IInv, TypeOK
    <2>5. IndexWasThere'
      BY <2>1, <2>2 DEF IInv, OwnInv, IndexWasThere
    <2>6. OwnListsWereThere'
      BY <2>1, <2>2, <2>3, <2>4 DEF IInv, OwnInv, OwnListsWereThere
    <2>7. OwnSourceWasRemoved'
      BY <2>1, <2>2, DiscoveryAssumption DEF IInv, OwnInv, OwnSourceWasRemoved
    <2> QED
      BY <2>5, <2>6, <2>7 DEF OwnInv
  <1>11. CASE UNCHANGED vars
    BY <1>11, <1>1 DEF vars, disk_vars, index_vars, net_vars
  <1> QED
    BY <1>2, <1>3, <1>4, <1>5, <1>6, <1>7, <1>8, <1>9, <1>10, <1>11, ArrivalKeepsOwn
       DEF Next, receives, session_step

LEMMA InitIsGood ==
    ASSUME Init
    PROVE  IInv
  <1>1. SessionsAreTrusted /\ ListsWereShared /\ OnlyTrusted /\ OffersWereShared
    BY DEF Init, SessionsAreTrusted, ListsWereShared, OnlyTrusted, OffersWereShared
  <1>2. IndexWasShared
    BY DEF Init, IndexWasShared
  <1>3. OwnInv
    BY DiscoveryAssumption
       DEF Init, OwnInv, IndexWasThere, OwnListsWereThere, OwnSourceWasRemoved
  <1> QED
    BY <1>1, <1>2, <1>3, InitIsTyped DEF IInv

-----------------------------------------------------------------------------
(* Theorems *)

\* What each session and each index has established holds in every state: the
\* strengthening the theorems below need.
THEOREM InductiveInvariant == Spec => []IInv
  <1>1. ASSUME IInv, [Next]_vars
        PROVE  IInv'
    BY <1>1, StepKeepsType, StepKeepsTruth, StepKeepsOwn DEF IInv
  <1> QED
    BY InitIsGood, <1>1, PTL DEF Spec

\* Every variable has its type, and no index has an entry before its storage
\* thread has read the directory.
THEOREM TypeCorrect == Spec => []TypeOK
  <1>1. IInv => TypeOK
    BY DEF IInv
  <1> QED
    BY <1>1, InductiveInvariant, PTL

\* No host is ever offered a file by a host that does not trust it or that it
\* does not trust, although the two decide separately and in different states.
THEOREM OnlyTrustedAlways == Spec => []OnlyTrusted
  <1>1. IInv => OnlyTrusted
    BY DEF IInv
  <1> QED
    BY <1>1, InductiveInvariant, PTL

\* The host a file would be asked of has had that file itself: offers are not
\* passed on.
THEOREM OffersWereSharedAlways == Spec => []OffersWereShared
  <1>1. IInv => OffersWereShared
    BY DEF IInv
  <1> QED
    BY <1>1, InductiveInvariant, PTL

\* A host that hears itself becomes its own source of a file only if that file
\* left its directory while the process ran: however old the list, and whether or
\* not the index still follows the directory.
THEOREM OwnSourceWasRemovedAlways == Spec => []OwnSourceWasRemoved
  <1>1. IInv => OwnSourceWasRemoved
    BY DEF IInv, OwnInv
  <1> QED
    BY <1>1, InductiveInvariant, PTL

-----------------------------------------------------------------------------
(* Discovery implements Offers *)

\* What a step that offers nothing and adds nothing to anyone's files is.
LEMMA NoOfferIsStutter ==
    ASSUME UNCHANGED <<shared, available_files>>
    PROVE  [O!Next]_<<shared, available_files>>
  OBVIOUS

\* The step at which a list arrives is the whole List step: what the session's
\* earlier steps have established makes it one.
LEMMA ArrivalIsList ==
    ASSUME IInv, NEW i \in Slots, handle_read_encrypted_response(i)
    PROVE  O!Next
  <1> DEFINE p == session[i].client
             h == session[i].server
             files == missing(session[i])
  <1>1. /\ session[i] # Absent /\ session[i].step = "answered"
        /\ p \in Hosts /\ h \in Hosts
        /\ session[i].list \in SUBSET Files
    BY DiscoveryAssumption DEF handle_read_encrypted_response, at_step, IInv, TypeOK
  <1>2. {<<h, p>>, <<p, h>>} \subseteq Trusts
    BY <1>1 DEF IInv, SessionsAreTrusted
  <1>3. {h} \X files \subseteq shared
    BY <1>1 DEF IInv, ListsWereShared, missing
  <1>4. available_files' = [available_files EXCEPT ![p] =
            [f \in Files |-> IF @[f] = Absent /\ f \in files THEN h ELSE @[f]]]
    BY DEF handle_read_encrypted_response, source
  <1>5. shared' = shared
    BY DEF handle_read_encrypted_response, disk_vars
  <1>6. files \in SUBSET Files
    BY <1>1 DEF missing
  <1>7. O!List(h, p, files)
    BY <1>2, <1>3, <1>4, <1>5 DEF O!List
  <1> QED
    BY <1>1, <1>6, <1>7 DEF O!Next

LEMMA StepIsOffersStep ==
    ASSUME IInv, [Next]_vars
    PROVE  [O!Next]_<<shared, available_files>>
  <1>1. ASSUME NEW i \in Slots, session_step(i)
        PROVE  [O!Next]_<<shared, available_files>>
    <2>1. CASE handle_read_encrypted_response(i)
      BY <2>1, ArrivalIsList
    <2>2. CASE handle_new_connection(i) \/ respond_encrypted(i) \/ send_list(i)
      BY <2>2 DEF handle_new_connection, respond_encrypted, send_list, disk_vars, index_vars
    <2> QED
      BY <1>1, <2>1, <2>2 DEF session_step
  <1>2. ASSUME NEW h \in Hosts, restart(h)
        PROVE  O!Next
    <2>1. O!Restart(h)
      BY <1>2 DEF restart, O!Restart
    <2> QED
      BY <2>1 DEF O!Next
  <1>3. ASSUME NEW h \in Hosts, NEW f \in Files, edit(h, f) \/ finalize_file(h, f)
        PROVE  [O!Next]_<<shared, available_files>>
    <2>1. UNCHANGED <<shared, available_files>> \/ O!Share(h, f)
      BY <1>3 DEF edit, finalize_file, O!Share, index_vars
    <2> QED
      BY <2>1 DEF O!Next
  <1>4. CASE \/ \E h \in Hosts : announce(h) \/ send_fails(h) \/ receive_fails(h) \/ accept_fails(h)
             \/ \E h, p \in Hosts : receives(h, p)
             \/ \E i \in Slots : connection_lost(i)
             \/ \E h \in Hosts : init_storage(h) \/ edit_root(h)
             \/ UNCHANGED vars
    <2>1. UNCHANGED <<shared, available_files>>
      BY <1>4 DEF announce, send_fails, receive_fails, accept_fails, receives,
         handle_receive_from, connection_lost, init_storage, edit_root, vars, disk_vars, index_vars
    <2> QED
      BY <2>1, NoOfferIsStutter
  <1> QED
    BY <1>1, <1>2, <1>3, <1>4 DEF Next

\* Announcements, sessions of four steps and indexes that age are, together, whole
\* lists of trusted hosts taken over at once.
THEOREM DiscoveryImplementsOffers == Spec => ImplementsOffers
  <1>1. Init => O!Init
    <2> SUFFICES ASSUME Init PROVE O!Init
      OBVIOUS
    <2>1. shared \subseteq Hosts \X Files
      BY InitIsGood DEF IInv, TypeOK
    <2> QED
      BY <2>1 DEF Init, O!Init
  <1> QED
    BY <1>1, StepIsOffersStep, InductiveInvariant, PTL DEF Spec, ImplementsOffers, O!Spec

\* The first host heard of stays a file's source until the process ends, there or
\* not: why SharedIsRetrieved is false of Receiver, in every instance.
THEOREM FirstSourceIsKept ==
    Spec => [][\A p \in Hosts, f \in Files : available_files[p][f] # Absent =>
                  \/ available_files'[p][f] = available_files[p][f]
                  \/ \A g \in Files : available_files'[p][g] = Absent]_available_files
  <1> DEFINE kept == \A p \in Hosts, f \in Files : available_files[p][f] # Absent =>
                        \/ available_files'[p][f] = available_files[p][f]
                        \/ \A g \in Files : available_files'[p][g] = Absent
  <1>1. ASSUME TypeOK, O!Next
        PROVE  kept
    <2>1. ASSUME NEW h \in Hosts, NEW q \in Hosts, NEW files \in SUBSET Files, O!List(h, q, files)
          PROVE  kept
      BY <1>1, <2>1 DEF TypeOK, O!List
    <2>2. ASSUME NEW q \in Hosts, O!Restart(q)
          PROVE  kept
      BY <1>1, <2>2 DEF TypeOK, O!Restart
    <2>3. ASSUME NEW h \in Hosts, NEW f \in Files, O!Share(h, f)
          PROVE  kept
      BY <2>3 DEF O!Share
    <2> QED
      BY <1>1, <2>1, <2>2, <2>3 DEF O!Next
  <1>2. TypeOK /\ [O!Next]_<<shared, available_files>> => [kept]_available_files
    BY <1>1
  <1> QED
    BY <1>2, DiscoveryImplementsOffers, TypeCorrect, PTL DEF ImplementsOffers, O!Spec

=============================================================================
