--------------------------- MODULE ReceiverProofs ---------------------------
(***************************************************************************)
(* What holds of Receiver for any number of names, hosts, sessions, faults *)
(* and restarts. Everything it does to the storage is a step of FileHandler*)
(* so the invariant proved of FileHandler holds of the composition, and is *)
(* what "mfsync get" relies on when it returns.                            *)
(***************************************************************************)
EXTENDS Receiver, SequenceTheorems, TLAPS

FHP == INSTANCE FileHandlerProofs

-----------------------------------------------------------------------------
(* The names of FHP and those of FH stand for the same formulas. *)

\* Sums are the same under both names.
LEMMA SameSum ==
    ASSUME NEW d, NEW S
    PROVE  FHP!SumFunctionOnSet(d, S) = FH!SumFunctionOnSet(d, S)
  BY Zenon DEF FHP!SumFunctionOnSet, FH!SumFunctionOnSet, FHP!FoldFunctionOnSet,
               FH!FoldFunctionOnSet, FHP!MapThenFoldSet, FH!MapThenFoldSet

\* The initial states are the same.
LEMMA SameInit == FHP!Init <=> FH!Init
  BY SameSum DEF FH!Init, FHP!Init, FH!NoFile, FHP!NoFile, FH!space_used, FHP!space_used,
     FH!on_disk, FHP!on_disk

\* The steps are the same, action by action.
LEMMA SameNext == [FHP!Next]_(FHP!vars) <=> [FH!Next]_(FH!vars)
  <1>1. FHP!init_storage <=> FH!init_storage
    BY DEF FH!init_storage, FHP!init_storage, FH!disk_vars, FHP!disk_vars, FH!write_vars,
           FHP!write_vars, FH!on_disk, FHP!on_disk
  <1>2. ASSUME NEW n PROVE FHP!scan_entry(n) <=> FH!scan_entry(n)
    BY DEF FH!scan_entry, FHP!scan_entry, FH!disk_vars, FHP!disk_vars, FH!write_vars,
           FHP!write_vars
  <1>3. FHP!scan_done <=> FH!scan_done
    BY DEF FH!scan_done, FHP!scan_done, FH!disk_vars, FHP!disk_vars, FH!write_vars,
           FHP!write_vars, FH!on_disk, FHP!on_disk
  <1>4. ASSUME NEW h, NEW list PROVE FHP!add_available_files(h, list) <=> FH!add_available_files(h, list)
    BY DEF FH!add_available_files, FHP!add_available_files, FH!disk_vars, FHP!disk_vars,
           FH!write_vars, FHP!write_vars, FH!init_vars, FHP!init_vars, FH!reads, FHP!reads,
           FH!on_disk, FHP!on_disk, FH!update_stored_files, FHP!update_stored_files,
           FH!can_update, FHP!can_update, FH!scanned, FHP!scanned,
           FH!progress_flag_after_update, FHP!progress_flag_after_update,
           FH!available_or_new, FHP!available_or_new
  <1>5. ASSUME NEW s, NEW n PROVE FHP!create_file(s, n) <=> FH!create_file(s, n)
    BY SameSum DEF FH!create_file, FHP!create_file, FH!index_vars, FHP!index_vars,
       FH!init_vars, FHP!init_vars, FH!reads, FHP!reads, FH!on_disk, FHP!on_disk,
       FH!is_blocked_internal, FHP!is_blocked_internal, FH!can_be_stored, FHP!can_be_stored,
       FH!space_used, FHP!space_used, FH!path_exists, FHP!path_exists, FH!open_tmp,
       FHP!open_tmp
  <1>6. ASSUME NEW s PROVE FHP!write_chunk(s) <=> FH!write_chunk(s)
    BY SameSum DEF FH!write_chunk, FHP!write_chunk, FH!index_vars, FHP!index_vars,
       FH!init_vars, FHP!init_vars, FH!is_complete, FHP!is_complete, FH!device_full,
       FHP!device_full, FH!space_used, FHP!space_used, FH!on_disk, FHP!on_disk
  <1>7. ASSUME NEW s PROVE FHP!finalize_file(s) <=> FH!finalize_file(s)
    BY DEF FH!finalize_file, FHP!finalize_file, FH!init_vars, FHP!init_vars, FH!reads,
           FHP!reads, FH!on_disk, FHP!on_disk, FH!inserts, FHP!inserts,
           FH!update_stored_files, FHP!update_stored_files, FH!can_update, FHP!can_update,
           FH!scanned, FHP!scanned, FH!progress_flag_after_update,
           FHP!progress_flag_after_update, FH!is_blocked_internal, FHP!is_blocked_internal
  <1>8. ASSUME NEW s PROVE FHP!close_stream(s) <=> FH!close_stream(s)
    BY DEF FH!close_stream, FHP!close_stream, FH!disk_vars, FHP!disk_vars, FH!index_vars,
           FHP!index_vars, FH!init_vars, FHP!init_vars, FH!unlocked, FHP!unlocked
  <1>9. FHP!read_file <=> FH!read_file
    BY DEF FH!read_file, FHP!read_file, FH!disk_vars, FHP!disk_vars, FH!write_vars,
           FHP!write_vars, FH!init_vars, FHP!init_vars, FH!update_stored_files,
           FHP!update_stored_files, FH!can_update, FHP!can_update, FH!scanned, FHP!scanned,
           FH!progress_flag_after_update, FHP!progress_flag_after_update
  <1>10. ASSUME NEW n, NEW size PROVE FHP!user_add(n, size) <=> FH!user_add(n, size)
    BY SameSum DEF FH!user_add, FHP!user_add, FH!index_vars, FHP!index_vars, FH!write_vars,
       FHP!write_vars, FH!init_vars, FHP!init_vars, FH!space_used, FHP!space_used,
       FH!on_disk, FHP!on_disk, FH!touch, FHP!touch, FH!in_use, FHP!in_use, FH!writes_to,
       FHP!writes_to
  <1>11. ASSUME NEW n PROVE FHP!user_remove(n) <=> FH!user_remove(n)
    BY DEF FH!user_remove, FHP!user_remove, FH!index_vars, FHP!index_vars, FH!write_vars,
           FHP!write_vars, FH!init_vars, FHP!init_vars, FH!touch, FHP!touch, FH!in_use,
           FHP!in_use, FH!writes_to, FHP!writes_to
  <1>12. FHP!user_mkdir <=> FH!user_mkdir
    BY DEF FH!user_mkdir, FHP!user_mkdir, FH!index_vars, FHP!index_vars, FH!write_vars,
           FHP!write_vars, FH!init_vars, FHP!init_vars
  <1>13. FHP!user_rmdir <=> FH!user_rmdir
    BY DEF FH!user_rmdir, FHP!user_rmdir, FH!index_vars, FHP!index_vars, FH!write_vars,
           FHP!write_vars, FH!init_vars, FHP!init_vars, FH!NoFile, FHP!NoFile,
           FH!open_sessions, FHP!open_sessions, FH!in_use, FHP!in_use, FH!writes_to,
           FHP!writes_to
  <1>14. FHP!crash <=> FH!crash
    BY DEF FH!crash, FHP!crash, FH!disk_vars, FHP!disk_vars, FH!NoFile, FHP!NoFile
  <1>15. FHP!Next <=> FH!Next
    BY <1>1, <1>2, <1>3, <1>4, <1>5, <1>6, <1>7, <1>8, <1>9, <1>10, <1>11, <1>12, <1>13, <1>14 DEF FHP!Next, FH!Next
  <1>16. UNCHANGED FHP!vars <=> UNCHANGED FH!vars
    BY DEF FH!vars, FHP!vars, FH!disk_vars, FHP!disk_vars, FH!index_vars, FHP!index_vars,
           FH!write_vars, FHP!write_vars, FH!init_vars, FHP!init_vars
  <1> QED
    BY <1>15, <1>16

\* Types are the same.
LEMMA SameTypeOK == FHP!TypeOK <=> FH!TypeOK
  BY DEF FH!TypeOK, FHP!TypeOK, FH!file_information, FHP!file_information,
         FH!available_file, FHP!available_file, FH!ofstream_wrapper, FHP!ofstream_wrapper,
         FH!Length, FHP!Length, FH!open_sessions, FHP!open_sessions

\* What stays unchanged in the storage, stays unchanged in FileHandler's eyes.
LEMMA SameVars == UNCHANGED fh_vars <=> UNCHANGED FH!vars
  BY DEF fh_vars, FH!vars, FH!disk_vars, FH!index_vars, FH!write_vars, FH!init_vars

\* What FileHandler assumes is assumed here.
LEMMA SameAssumption == FHP!FileHandlerAssumption
  BY ReceiverAssumption DEF FH!FileHandlerAssumption, FHP!FileHandlerAssumption,
     FH!file_information, FHP!file_information, FH!available_file, FHP!available_file,
     FH!ofstream_wrapper, FHP!ofstream_wrapper

-----------------------------------------------------------------------------
(* Types, and what Receiver does to the storage *)

\* What a session that ends does to the storage.
LEMMA SessionEnds ==
    ASSUME TypeOK, NEW s \in Sessions, session_ends(s)
    PROVE  /\ UNCHANGED FH!vars \/ FH!close_stream(s)
           /\ phase' = [phase EXCEPT ![s] = "expired"]
           /\ requested' = [requested EXCEPT ![s] = Absent]
           /\ stream' = [stream EXCEPT ![s] = Absent]
           /\ UNCHANGED <<request_queue, loop_vars>>
  <1>1. stream \in [Sessions -> FH!ofstream_wrapper \cup {Absent}]
    BY DEF TypeOK, FH!TypeOK
  <1>2. CASE stream[s] = Absent
    BY <1>1, <1>2, SameVars DEF session_ends, expire, drop_stream, fh_vars
  <1>3. CASE stream[s] # Absent
    BY <1>3 DEF session_ends, expire, drop_stream, FH!close_stream
  <1> QED
    BY <1>2, <1>3

\* A step of a session either ends it or is one of those that do not.
LEMMA SessionStep ==
    ASSUME TypeOK, NEW s \in Sessions, session_step(s) \/ connection_lost(s)
    PROVE  \/ session_ends(s)
           \/ connect(s)
           \/ /\ FH!create_file(s, requested[s].file_info.file_name)
              /\ phase[s] = "connected" /\ phase' = [phase EXCEPT ![s] = "requested"]
              /\ UNCHANGED <<request_queue, loop_vars, requested>>
           \/ /\ phase[s] = "requested" /\ phase' = [phase EXCEPT ![s] = "receiving"]
              /\ UNCHANGED <<fh_vars, request_queue, loop_vars, requested>>
           \/ read_chunk(s)
           \/ /\ FH!finalize_file(s) /\ expire(s)
              /\ UNCHANGED <<request_queue, loop_vars>>
  BY DEF session_step, connect_fails, request_file, confirm, read_past_end, finalize,
         connection_closed, connection_lost

\* Everything Receiver does to the storage is a step of FileHandler.
LEMMA FileHandlerStep == TypeOK /\ [Next]_vars => [FH!Next]_(FH!vars)
  <1> SUFFICES ASSUME TypeOK, [Next]_vars PROVE [FH!Next]_(FH!vars)
    OBVIOUS
  <1>1. CASE UNCHANGED fh_vars
    BY <1>1, SameVars
  <1>2. ASSUME NEW s \in Sessions, session_step(s) \/ connection_lost(s)
        PROVE  UNCHANGED FH!vars \/ FH!Next
    <2>1. CASE session_ends(s)
      BY <2>1, SessionEnds DEF FH!Next
    <2>2. CASE connect(s)
      BY <2>2, SameVars DEF connect
    <2>3. CASE /\ FH!create_file(s, requested[s].file_info.file_name)
               /\ phase[s] = "connected"
      <3>1. requested[s] \in FH!available_file
        BY <2>3 DEF TypeOK, expired
      <3>2. requested[s].file_info.file_name \in Names
        BY <3>1 DEF FH!available_file, FH!file_information
      <3> QED
        BY <2>3, <3>2 DEF FH!Next
    <2>4. CASE UNCHANGED fh_vars
      BY <2>4, SameVars
    <2>5. CASE read_chunk(s)
      BY <2>5 DEF read_chunk, FH!Next
    <2>6. CASE FH!finalize_file(s)
      BY <2>6 DEF FH!Next
    <2> QED
      BY <1>2, <2>1, <2>2, <2>3, <2>4, <2>5, <2>6, SessionStep
  <1>3. CASE storage_thread
    BY <1>3 DEF storage_thread, FH!Next
  <1>4. ASSUME NEW h \in Hosts, announce(h) PROVE FH!Next
    <2>1. Catalog[h] \in [Names -> Sizes \cup {Absent}]
      BY ReceiverAssumption
    <2> QED
      BY <1>4, <2>1 DEF announce, FH!Next
  <1>5. CASE crash
    BY <1>5 DEF crash, FH!Next
  <1>6. \/ UNCHANGED fh_vars
        \/ \E s \in Sessions : session_step(s) \/ connection_lost(s)
        \/ storage_thread
        \/ \E h \in Hosts : announce(h)
        \/ crash
    BY DEF Next, vars, get_files, check_exists, check_blocked, filled, start_new_session,
           leave, goes_silent, write_fails
  <1> QED
    BY <1>1, <1>2, <1>3, <1>4, <1>5, <1>6

\* The types of FileHandler are kept by Receiver's steps.
LEMMA FileHandlerTypes == TypeOK /\ [Next]_vars => FH!TypeOK'
  <1>1. FHP!TypeOK /\ [FHP!Next]_(FHP!vars) => FHP!TypeOK'
    BY SameAssumption, FHP!TypeStep
  <1>2. FHP!TypeOK' <=> FH!TypeOK'
    BY SameTypeOK, PTL
  <1> QED
    BY <1>1, <1>2, FileHandlerStep, SameNext, SameTypeOK DEF TypeOK

\* The types of the loop, the queue and the sessions.
LoopTypes ==
    /\ request_queue \in Seq(FH!available_file)
    /\ phase \in [Sessions -> phases]
    /\ requested \in [Sessions -> FH!available_file \cup {Absent}]
    /\ pc \in {"wait", "fill", "start"}
    /\ todo \subseteq Names /\ slots \subseteq Sessions
    /\ checked \in Names \cup {Absent}
    /\ targets \in Invocations
    /\ files_to_request \subseteq targets /\ promise \in BOOLEAN

\* A session lives while it has a request, and writes from create_file on.
SessionTypes ==
    \A s \in Sessions :
        /\ expired(s) <=> requested[s] = Absent
        /\ phase[s] # "silent" => (phase[s] \in {"requested", "receiving"} <=> stream[s] # Absent)

\* Peers, and the bounds.
EnvTypes == online \subseteq Hosts /\ faults \in 0..MaxFaults /\ crashes \in 0..MaxCrashes

\* The type invariant in its parts.
LEMMA Parts == TypeOK <=> FH!TypeOK /\ LoopTypes /\ SessionTypes /\ EnvTypes
  BY DEF TypeOK, LoopTypes, SessionTypes, EnvTypes

\* What is queued once a request is taken from the front, or put at the back.
LEMMA QueueTypes ==
    ASSUME NEW q \in Seq(FH!available_file)
    PROVE  /\ q # <<>> => /\ Head(q) \in FH!available_file
                          /\ Tail(q) \in Seq(FH!available_file)
           /\ \A file \in FH!available_file : push_back(q, file) \in Seq(FH!available_file)
  BY HeadTailProperties, AppendProperties DEF push_back

\* What a step of the loop that queues adds: an announced file of that name.
LEMMA CheckedFile ==
    ASSUME TypeOK, checked # Absent, available_files[checked] # Absent
    PROVE  /\ available_files[checked] \in FH!available_file
           /\ available_files[checked].file_info.file_name = checked
  BY DEF TypeOK, FH!TypeOK

\* A name that is checked or still to be looked at is announced; a name that is
\* checked is not in the queue, which does not change meanwhile.
Announced ==
    /\ \A n \in todo : available_files[n] # Absent
    /\ checked # Absent => pc = "fill" /\ checked \in todo /\ ~in_queue(checked)

\* Every step keeps the types of the loop.
LEMMA LoopTypesStep == TypeOK /\ Announced /\ [Next]_vars => LoopTypes'
  <1> SUFFICES ASSUME TypeOK, Announced, [Next]_vars PROVE LoopTypes'
    OBVIOUS
  <1>0. LoopTypes
    BY Parts
  <1> USE <1>0 DEF LoopTypes
  <1>1. CASE UNCHANGED vars
    BY <1>1 DEF vars, loop_vars, session_vars
  <1>2. CASE get_files
    BY <1>2 DEF get_files, session_vars
  <1>3. ASSUME NEW n \in Names, check_exists(n) PROVE LoopTypes'
    BY <1>3 DEF check_exists, session_vars
  <1>4. CASE check_blocked
    <2>1. available_files[checked] \in FH!available_file
      BY <1>4, CheckedFile DEF check_blocked, Announced
    <2>2. request_queue' \in Seq(FH!available_file)
      BY <1>4, <2>1, QueueTypes DEF check_blocked
    <2> QED
      BY <1>4, <2>2 DEF check_blocked, session_vars
  <1>5. CASE filled
    BY <1>5 DEF filled, session_vars
  <1>6. ASSUME NEW s \in Sessions, start_new_session(s) PROVE LoopTypes'
    BY <1>6, QueueTypes DEF start_new_session, session_vars, phases
  <1>7. ASSUME NEW s \in Sessions, session_step(s) \/ connection_lost(s) PROVE LoopTypes'
    <2>1. CASE session_ends(s)
      BY <2>1, SessionEnds DEF loop_vars, phases
    <2>2. CASE connect(s)
      BY <2>2 DEF connect, loop_vars, phases
    <2>3. CASE /\ phase' = [phase EXCEPT ![s] = "requested"]
               /\ UNCHANGED <<request_queue, loop_vars, requested>>
      BY <2>3 DEF loop_vars, phases
    <2>4. CASE /\ phase' = [phase EXCEPT ![s] = "receiving"]
               /\ UNCHANGED <<request_queue, loop_vars, requested>>
      BY <2>4 DEF loop_vars, phases
    <2>5. CASE read_chunk(s)
      BY <2>5 DEF read_chunk, loop_vars, session_vars
    <2>6. CASE expire(s) /\ UNCHANGED <<request_queue, loop_vars>>
      BY <2>6 DEF expire, loop_vars, phases
    <2> QED
      BY <1>7, <2>1, <2>2, <2>3, <2>4, <2>5, <2>6, SessionStep
  <1>8. CASE storage_thread
    BY <1>8 DEF storage_thread, loop_vars, session_vars
  <1>9. ASSUME NEW h \in Hosts, announce(h) \/ leave(h) PROVE LoopTypes'
    BY <1>9 DEF announce, leave, loop_vars, session_vars
  <1>10. ASSUME NEW s \in Sessions, goes_silent(s) PROVE LoopTypes'
    BY <1>10 DEF goes_silent, loop_vars, phases
  <1>11. CASE crash
    <2>1. <<>> \in Seq(FH!available_file)
      OBVIOUS
    <2> QED
      BY <1>11, <2>1 DEF crash, phases
  <1> QED
    BY <1>1, <1>2, <1>3, <1>4, <1>5, <1>6, <1>7, <1>8, <1>9, <1>10, <1>11 DEF Next, write_fails

\* Every step keeps phases, requests and streams in step with each other.
LEMMA SessionTypesStep == TypeOK /\ [Next]_vars => SessionTypes'
  <1> SUFFICES ASSUME TypeOK, [Next]_vars PROVE SessionTypes'
    OBVIOUS
  <1>0. /\ SessionTypes
        /\ phase \in [Sessions -> phases] /\ requested \in [Sessions -> FH!available_file \cup {Absent}]
        /\ stream \in [Sessions -> FH!ofstream_wrapper \cup {Absent}]
        /\ request_queue \in Seq(FH!available_file)
    BY Parts DEF TypeOK, FH!TypeOK
  <1>a. Absent \notin FH!available_file /\ Absent \notin FH!ofstream_wrapper
    BY ReceiverAssumption DEF FH!FileHandlerAssumption
  <1> USE <1>0, <1>a DEF SessionTypes, expired
  <1>1. CASE UNCHANGED <<phase, requested, stream>>
    BY <1>1
  <1>2. ASSUME NEW s \in Sessions, start_new_session(s) PROVE SessionTypes'
    <2>1. UNCHANGED stream
      BY <1>2 DEF start_new_session, fh_vars
    <2> QED
      BY <1>2, <2>1, QueueTypes DEF start_new_session, session_vars
  <1>3. ASSUME NEW s \in Sessions, session_step(s) \/ connection_lost(s) PROVE SessionTypes'
    <2>1. CASE session_ends(s)
      BY <2>1, SessionEnds
    <2>2. CASE connect(s)
      BY <2>2 DEF connect, fh_vars
    <2>3. CASE /\ FH!create_file(s, requested[s].file_info.file_name)
               /\ phase[s] = "connected" /\ phase' = [phase EXCEPT ![s] = "requested"]
               /\ UNCHANGED <<request_queue, loop_vars, requested>>
      <3>1. requested[s].file_info.file_name \in Names
        BY <2>3 DEF FH!available_file, FH!file_information
      <3>2. stream'[s] # Absent /\ \A t \in Sessions \ {s} : stream'[t] = stream[t]
        <4>1. FH!TypeOK'
          BY FileHandlerTypes
        <4>2. available_files[requested[s].file_info.file_name] \in FH!available_file
          BY <2>3, <3>1 DEF FH!create_file, TypeOK, FH!TypeOK
        <4>3. stream' = [stream EXCEPT ![s] =
                  [file_info |-> available_files[requested[s].file_info.file_name].file_info,
                   pos |-> FH!open_tmp(requested[s].file_info.file_name), complete |-> FALSE]]
          BY <2>3 DEF FH!create_file
        <4>4. FH!open_tmp(requested[s].file_info.file_name) \in Nat
          BY <3>1 DEF FH!open_tmp, TypeOK, FH!TypeOK, FH!Length
        <4>5. [file_info |-> available_files[requested[s].file_info.file_name].file_info,
               pos |-> FH!open_tmp(requested[s].file_info.file_name), complete |-> FALSE]
              \in FH!ofstream_wrapper
          BY <4>2, <4>4 DEF FH!ofstream_wrapper, FH!available_file
        <4> QED
          BY <4>3, <4>5
      <3> QED
        BY <2>3, <3>2
    <2>4. CASE /\ phase[s] = "requested" /\ phase' = [phase EXCEPT ![s] = "receiving"]
               /\ UNCHANGED <<fh_vars, request_queue, loop_vars, requested>>
      BY <2>4 DEF fh_vars
    <2>5. CASE read_chunk(s)
      <3>1. stream[s] \in FH!ofstream_wrapper
        BY <2>5 DEF read_chunk, FH!write_chunk
      <3>2. \A b \in BOOLEAN : [file_info |-> stream[s].file_info, pos |-> stream[s].pos + 1,
                                complete |-> b] \in FH!ofstream_wrapper
        BY <3>1 DEF FH!ofstream_wrapper
      <3>a. FH!is_complete(stream[s].pos + 1, stream[s].file_info.size) \in BOOLEAN
        BY DEF FH!is_complete
      <3>b. stream' = [stream EXCEPT ![s] =
                [file_info |-> stream[s].file_info, pos |-> stream[s].pos + 1,
                 complete |-> FH!is_complete(stream[s].pos + 1, stream[s].file_info.size)]]
        BY <2>5 DEF read_chunk, FH!write_chunk
      <3>3. PICK b \in BOOLEAN : stream' = [stream EXCEPT ![s] =
                [file_info |-> stream[s].file_info, pos |-> stream[s].pos + 1, complete |-> b]]
        BY <3>a, <3>b
      <3>4. \A t \in Sessions : stream'[t] # Absent <=> stream[t] # Absent
        BY <3>1, <3>2, <3>3
      <3> QED
        BY <2>5, <3>4 DEF read_chunk, session_vars
    <2>6. CASE FH!finalize_file(s) /\ expire(s)
      BY <2>6 DEF FH!finalize_file, expire
    <2> QED
      BY <1>3, <2>1, <2>2, <2>3, <2>4, <2>5, <2>6, SessionStep
  <1>4. ASSUME NEW s \in Sessions, goes_silent(s) PROVE SessionTypes'
    <2>1. phase[s] # "expired"
      BY <1>4 DEF goes_silent, waits_for_peer
    <2> QED
      BY <1>4, <2>1 DEF goes_silent, fh_vars
  <1>5. CASE crash
    BY <1>5 DEF crash, FH!crash
  <1>6. CASE storage_thread
    BY <1>6 DEF storage_thread, session_vars, FH!init_storage, FH!scan_entry, FH!scan_done, FH!write_vars
  <1>7. ASSUME NEW h \in Hosts, announce(h) PROVE SessionTypes'
    BY <1>7 DEF announce, session_vars, FH!add_available_files, FH!write_vars
  <1> QED
    BY <1>1, <1>2, <1>3, <1>4, <1>5, <1>6, <1>7
       DEF Next, vars, get_files, check_exists, check_blocked, filled, leave, write_fails,
           session_vars, fh_vars

\* Every step keeps the bounds.
LEMMA EnvTypesStep == TypeOK /\ [Next]_vars => EnvTypes'
  <1> SUFFICES ASSUME TypeOK, [Next]_vars PROVE EnvTypes'
    OBVIOUS
  <1>0. EnvTypes
    BY Parts
  <1> USE <1>0, ReceiverAssumption DEF EnvTypes
  <1>1. CASE UNCHANGED env_vars
    BY <1>1 DEF env_vars
  <1>2. ASSUME NEW h \in Hosts, leave(h) PROVE EnvTypes'
    BY <1>2 DEF leave
  <1>3. ASSUME NEW s \in Sessions, connection_lost(s) \/ goes_silent(s) PROVE EnvTypes'
    BY <1>3 DEF connection_lost, goes_silent
  <1>4. CASE crash
    BY <1>4 DEF crash
  <1> QED
    BY <1>1, <1>2, <1>3, <1>4
       DEF Next, vars, get_files, check_exists, check_blocked, filled, start_new_session,
           session_step, connect, connect_fails, request_file, confirm, read_chunk, read_past_end,
           finalize, connection_closed, storage_thread, announce, write_fails

-----------------------------------------------------------------------------
(* The queue *)

\* Only a restart forgets an announcement, and none replaces it.
LEMMA AnnouncementsKept ==
    ASSUME TypeOK, [Next]_vars, ~crash, NEW n \in Names, available_files[n] # Absent
    PROVE  available_files'[n] = available_files[n]
  <1>1. ASSUME NEW h \in Hosts, announce(h) PROVE available_files'[n] = available_files[n]
    BY <1>1 DEF announce, FH!add_available_files, FH!available_or_new
  <1>2. ASSUME NEW s \in Sessions, session_step(s) \/ connection_lost(s)
        PROVE  UNCHANGED available_files
    <2>1. CASE session_ends(s)
      BY <2>1, SessionEnds DEF FH!vars, FH!index_vars, FH!close_stream
    <2> QED
      BY <1>2, <2>1, SessionStep
         DEF connect, fh_vars, read_chunk, FH!write_chunk, FH!create_file, FH!finalize_file, FH!index_vars
  <1>3. CASE storage_thread
    BY <1>3 DEF storage_thread, FH!init_storage, FH!scan_entry, FH!scan_done
  <1>4. CASE UNCHANGED fh_vars
    BY <1>4 DEF fh_vars
  <1> QED
    BY <1>1, <1>2, <1>3, <1>4
       DEF Next, vars, get_files, check_exists, check_blocked, filled, start_new_session,
           leave, goes_silent, write_fails

\* A step of get_files keeps what holds of the names it looks at; other steps
\* leave them and, while one is checked, the queue alone.
LEMMA AnnouncedStep == TypeOK /\ Announced /\ [Next]_vars => Announced'
  <1> SUFFICES ASSUME TypeOK, Announced, [Next]_vars PROVE Announced'
    OBVIOUS
  <1>0. todo \subseteq Names /\ checked \in Names \cup {Absent}
    BY DEF TypeOK
  <1>1. CASE crash
    BY <1>1 DEF crash, Announced
  <1>2. CASE ~crash /\ UNCHANGED <<todo, checked, pc, request_queue>>
    BY <1>0, <1>2, AnnouncementsKept DEF Announced, in_queue
  <1>3. CASE get_files
    BY <1>3 DEF get_files, Announced, fh_vars, in_queue
  <1>4. ASSUME NEW n \in Names, check_exists(n) PROVE Announced'
    BY <1>4 DEF check_exists, Announced, fh_vars, in_queue
  <1>5. CASE check_blocked
    BY <1>5 DEF check_blocked, Announced, fh_vars
  <1>6. CASE filled
    BY <1>6 DEF filled, Announced
  <1>7. ASSUME NEW s \in Sessions, start_new_session(s) PROVE Announced'
    BY <1>7 DEF start_new_session, Announced, fh_vars
  <1>8. ASSUME NEW s \in Sessions, session_step(s) \/ connection_lost(s)
        PROVE  UNCHANGED <<todo, checked, pc, request_queue>>
    BY <1>8, SessionStep, SessionEnds DEF loop_vars, connect, read_chunk
  <1> QED
    BY <1>1, <1>2, <1>3, <1>4, <1>5, <1>6, <1>7, <1>8
       DEF Next, vars, loop_vars, storage_thread, announce, leave, goes_silent, write_fails

\* The queue changes at the ends only: by a name that is not in it at the back,
\* and by its oldest request at the front.
LEMMA QueueStep == TypeOK /\ Announced /\ QueueHasNoDuplicates /\ [Next]_vars => QueueHasNoDuplicates'
  <1> SUFFICES ASSUME TypeOK, Announced, QueueHasNoDuplicates, [Next]_vars
               PROVE  QueueHasNoDuplicates'
    OBVIOUS
  <1>0. request_queue \in Seq(FH!available_file)
    BY DEF TypeOK
  <1>1. CASE UNCHANGED request_queue
    BY <1>1 DEF QueueHasNoDuplicates
  <1>2. CASE request_queue' = <<>>
    BY <1>2 DEF QueueHasNoDuplicates
  <1>3. CASE check_blocked
    <2> DEFINE file == available_files[checked]
               k == Len(request_queue)
    <2>1. file \in FH!available_file /\ file.file_info.file_name = checked /\ ~in_queue(checked)
      BY <1>3, CheckedFile DEF check_blocked, Announced
    <2>2. CASE request_queue' = push_back(request_queue, file)
      <3>1. /\ DOMAIN request_queue' = 1..(k + 1) /\ DOMAIN request_queue = 1..k /\ k \in Nat
            /\ request_queue'[k + 1] = file
            /\ \A i \in 1..k : request_queue'[i] = request_queue[i]
        BY <1>0, <2>1, <2>2, AppendProperties, LenProperties DEF push_back
      <3>2. \A i \in 1..k : request_queue[i].file_info.file_name # checked
        BY <2>1, <3>1 DEF in_queue
      <3> SUFFICES ASSUME NEW i \in 1..(k + 1), NEW j \in 1..(k + 1),
                          request_queue'[i].file_info.file_name = request_queue'[j].file_info.file_name
                   PROVE  i = j
        BY <3>1 DEF QueueHasNoDuplicates
      <3>3. CASE i \in 1..k /\ j \in 1..k
        BY <3>1, <3>3 DEF QueueHasNoDuplicates
      <3>4. CASE i = k + 1 \/ j = k + 1
        BY <2>1, <3>1, <3>2, <3>4
      <3> QED
        BY <3>1, <3>3, <3>4
    <2> QED
      BY <1>1, <1>3, <2>2 DEF check_blocked
  <1>4. ASSUME NEW s \in Sessions, start_new_session(s), request_queue # <<>>
        PROVE  QueueHasNoDuplicates'
    <2>1. CASE request_queue' = Tail(request_queue)
      <3>1. /\ DOMAIN request_queue' = 1..(Len(request_queue) - 1)
            /\ \A i \in 1..(Len(request_queue) - 1) : request_queue'[i] = request_queue[i + 1]
            /\ DOMAIN request_queue = 1..Len(request_queue) /\ Len(request_queue) \in Nat
        BY <1>0, <1>4, <2>1, HeadTailProperties, LenProperties
      <3> SUFFICES ASSUME NEW i \in 1..(Len(request_queue) - 1), NEW j \in 1..(Len(request_queue) - 1),
                          request_queue'[i].file_info.file_name = request_queue'[j].file_info.file_name
                   PROVE  i = j
        BY <3>1 DEF QueueHasNoDuplicates
      <3>2. i + 1 \in DOMAIN request_queue /\ j + 1 \in DOMAIN request_queue
        BY <3>1
      <3>3. request_queue[i + 1].file_info.file_name = request_queue[j + 1].file_info.file_name
        BY <3>1
      <3>4. i + 1 = j + 1
        BY <3>2, <3>3 DEF QueueHasNoDuplicates
      <3> QED
        BY <3>1, <3>4
    <2> QED
      BY <1>1, <1>4, <2>1 DEF start_new_session
  <1>5. ASSUME NEW s \in Sessions, session_step(s) \/ connection_lost(s)
        PROVE  UNCHANGED request_queue
    BY <1>5, SessionStep, SessionEnds DEF connect, read_chunk
  <1>6. \/ UNCHANGED request_queue \/ request_queue' = <<>> \/ check_blocked
        \/ \E s \in Sessions : start_new_session(s) /\ request_queue # <<>>
    BY <1>5 DEF Next, vars, get_files, check_exists, filled, start_new_session, storage_thread,
                announce, leave, goes_silent, write_fails, crash
  <1> QED
    BY <1>1, <1>2, <1>3, <1>4, <1>6

-----------------------------------------------------------------------------
(* Requests, from the queue to the stream *)

announced(file) == available_files[file.file_info.file_name] = file

\* What waits in the queue, what a session was started for and what it writes is
\* what the index of announcements has, however long ago it was read there.
RequestsAreAnnounced ==
    /\ \A i \in DOMAIN request_queue : announced(request_queue[i])
    /\ \A s \in Sessions : requested[s] # Absent => announced(requested[s])
    /\ \A s \in Sessions : stream[s] # Absent =>
          requested[s] # Absent /\ stream[s].file_info = requested[s].file_info

\* An announcement that was read stays true until the process ends.
LEMMA StaysAnnounced ==
    ASSUME TypeOK, [Next]_vars, ~crash, NEW file \in FH!available_file, announced(file)
    PROVE  announced(file)'
  <1>1. file.file_info.file_name \in Names
    BY DEF FH!available_file, FH!file_information
  <1>2. file # Absent
    BY ReceiverAssumption DEF FH!FileHandlerAssumption
  <1>3. available_files'[file.file_info.file_name] = available_files[file.file_info.file_name]
    BY <1>1, <1>2, AnnouncementsKept DEF announced
  <1> QED
    BY <1>3 DEF announced

\* Requests enter the queue from the index and leave it at the front.
LEMMA QueueIsAnnounced ==
    ASSUME TypeOK, Announced, RequestsAreAnnounced, [Next]_vars, ~crash,
           NEW i \in DOMAIN request_queue'
    PROVE  announced(request_queue[i])'
  <1>0. request_queue \in Seq(FH!available_file)
    BY DEF TypeOK
  <1>1. \A j \in DOMAIN request_queue :
           request_queue[j] \in FH!available_file /\ announced(request_queue[j])
    BY <1>0, ElementOfSeq, LenProperties DEF RequestsAreAnnounced
  <1>2. ASSUME NEW j \in DOMAIN request_queue, request_queue'[i] = request_queue[j]
        PROVE  announced(request_queue[i])'
    <2> DEFINE file == request_queue[j]
    <2>1. file \in FH!available_file /\ announced(file)
      BY <1>1
    <2>2. available_files'[file.file_info.file_name] = file
      <3>1. file.file_info.file_name \in Names /\ file # Absent
        BY <2>1, ReceiverAssumption
        DEF FH!available_file, FH!file_information, FH!FileHandlerAssumption
      <3> QED
        BY <2>1, <3>1, AnnouncementsKept DEF announced
    <2> QED
      BY <1>2, <2>2 DEF announced
  <1>3. CASE UNCHANGED request_queue
    BY <1>2, <1>3
  <1>4. CASE request_queue' = <<>>
    BY <1>4
  <1>5. CASE check_blocked
    <2> DEFINE file == available_files[checked]
               k == Len(request_queue)
    <2>1. file \in FH!available_file /\ file.file_info.file_name = checked
      BY <1>5, CheckedFile DEF check_blocked, Announced
    <2>2. UNCHANGED available_files
      BY <1>5 DEF check_blocked, fh_vars
    <2>3. CASE request_queue' = push_back(request_queue, file)
      <3>1. /\ DOMAIN request_queue' = 1..(k + 1) /\ DOMAIN request_queue = 1..k /\ k \in Nat
            /\ request_queue'[k + 1] = file
            /\ \A j \in 1..k : request_queue'[j] = request_queue[j]
        BY <1>0, <2>1, <2>3, AppendProperties, LenProperties DEF push_back
      <3>2. CASE i = k + 1
        BY <2>1, <2>2, <3>1, <3>2 DEF announced
      <3>3. CASE i \in 1..k
        BY <1>2, <3>1, <3>3
      <3> QED
        BY <3>1, <3>2, <3>3
    <2> QED
      BY <1>3, <1>5, <2>3 DEF check_blocked
  <1>6. ASSUME NEW s \in Sessions, start_new_session(s), request_queue # <<>>
        PROVE  announced(request_queue[i])'
    <2>1. CASE request_queue' = Tail(request_queue)
      <3>1. /\ DOMAIN request_queue' = 1..(Len(request_queue) - 1)
            /\ \A j \in 1..(Len(request_queue) - 1) : request_queue'[j] = request_queue[j + 1]
            /\ DOMAIN request_queue = 1..Len(request_queue) /\ Len(request_queue) \in Nat
        BY <1>0, <1>6, <2>1, HeadTailProperties, LenProperties
      <3> QED
        BY <1>2, <3>1
    <2> QED
      BY <1>3, <1>6, <2>1 DEF start_new_session
  <1>7. ASSUME NEW s \in Sessions, session_step(s) \/ connection_lost(s)
        PROVE  UNCHANGED request_queue
    BY <1>7, SessionStep, SessionEnds DEF connect, read_chunk
  <1>8. \/ UNCHANGED request_queue \/ check_blocked
        \/ \E s \in Sessions : start_new_session(s) /\ request_queue # <<>>
    BY <1>7 DEF Next, vars, get_files, check_exists, filled, start_new_session, storage_thread,
                announce, leave, goes_silent, write_fails
  <1> QED
    BY <1>3, <1>5, <1>6, <1>8

\* A session keeps its request until it ends, and gets the oldest one.
LEMMA RequestTaken ==
    ASSUME TypeOK, [Next]_vars, ~crash, NEW s \in Sessions
    PROVE  \/ requested'[s] = requested[s]
           \/ requested'[s] = Absent /\ stream'[s] = Absent
           \/ /\ requested'[s] = Head(request_queue) /\ request_queue # <<>>
              /\ stream[s] = Absent /\ UNCHANGED stream
  <1>0. requested \in [Sessions -> FH!available_file \cup {Absent}] /\ SessionTypes
        /\ stream \in [Sessions -> FH!ofstream_wrapper \cup {Absent}]
    BY Parts DEF TypeOK, FH!TypeOK
  <1>1. ASSUME NEW t \in Sessions, start_new_session(t)
        PROVE  \/ requested'[s] = requested[s]
               \/ /\ requested'[s] = Head(request_queue) /\ request_queue # <<>>
                  /\ stream[s] = Absent /\ UNCHANGED stream
    BY <1>0, <1>1 DEF start_new_session, session_vars, fh_vars, SessionTypes, expired
  <1>2. ASSUME NEW t \in Sessions, session_step(t) \/ connection_lost(t)
        PROVE  \/ requested'[s] = requested[s]
               \/ requested'[s] = Absent /\ stream'[s] = Absent
    <2>1. CASE session_ends(t)
      BY <1>0, <2>1, SessionEnds
    <2>2. CASE FH!finalize_file(t) /\ expire(t)
      BY <1>0, <2>2 DEF FH!finalize_file, expire
    <2> QED
      BY <1>2, <2>1, <2>2, SessionStep DEF connect, read_chunk, session_vars
  <1> QED
    BY <1>1, <1>2 DEF Next, vars, session_vars, get_files, check_exists, check_blocked, filled,
                      storage_thread, announce, leave, goes_silent, write_fails

\* A stream is opened for the request of its session and keeps its file.
LEMMA StreamOpened ==
    ASSUME TypeOK, [Next]_vars, ~crash, NEW s \in Sessions, stream'[s] # Absent
    PROVE  \/ stream[s] # Absent /\ stream'[s].file_info = stream[s].file_info
           \/ /\ requested[s] # Absent /\ UNCHANGED requested
              /\ stream'[s].file_info =
                    available_files[requested[s].file_info.file_name].file_info
  <1>0. stream \in [Sessions -> FH!ofstream_wrapper \cup {Absent}]
    BY DEF TypeOK, FH!TypeOK
  <1>1. ASSUME NEW t \in Sessions, session_step(t) \/ connection_lost(t)
        PROVE  \/ stream[s] # Absent /\ stream'[s].file_info = stream[s].file_info
               \/ /\ requested[s] # Absent /\ UNCHANGED requested
                  /\ stream'[s].file_info =
                        available_files[requested[s].file_info.file_name].file_info
    <2>1. CASE session_ends(t)
      BY <1>0, <2>1, SessionEnds
    <2>2. CASE /\ FH!create_file(t, requested[t].file_info.file_name)
               /\ phase[t] = "connected" /\ UNCHANGED requested
      <3>1. requested[t] # Absent
        BY <2>2 DEF TypeOK, expired
      <3> QED
        BY <1>0, <2>2, <3>1 DEF FH!create_file
    <2>3. CASE UNCHANGED stream
      BY <2>3
    <2>4. CASE read_chunk(t)
      BY <1>0, <2>4 DEF read_chunk, FH!write_chunk
    <2>5. CASE FH!finalize_file(t)
      BY <1>0, <2>5 DEF FH!finalize_file
    <2> QED
      BY <1>1, <2>1, <2>2, <2>3, <2>4, <2>5, SessionStep DEF connect, fh_vars
  <1> QED
    BY <1>1 DEF Next, vars, fh_vars, get_files, check_exists, check_blocked, filled,
                start_new_session, storage_thread, FH!init_storage, FH!scan_entry,
                FH!scan_done, FH!write_vars, announce, FH!add_available_files, leave,
                goes_silent, write_fails

LEMMA RequestsStep ==
    TypeOK /\ Announced /\ RequestsAreAnnounced /\ [Next]_vars => RequestsAreAnnounced'
  <1> SUFFICES ASSUME TypeOK, Announced, RequestsAreAnnounced, [Next]_vars
               PROVE  RequestsAreAnnounced'
    OBVIOUS
  <1>1. CASE crash
    BY <1>1 DEF crash, FH!crash, RequestsAreAnnounced
  <1>2. CASE ~crash
    <2>0. /\ requested \in [Sessions -> FH!available_file \cup {Absent}]
          /\ request_queue \in Seq(FH!available_file)
      BY DEF TypeOK
    <2>1. ASSUME NEW file \in FH!available_file, announced(file)
          PROVE  available_files'[file.file_info.file_name] = file
      BY <1>2, <2>1, StaysAnnounced DEF announced
    <2>2. ASSUME NEW s \in Sessions, requested'[s] # Absent
          PROVE  announced(requested[s])'
      <3>1. CASE requested'[s] = requested[s]
        BY <2>0, <2>1, <2>2, <3>1 DEF RequestsAreAnnounced, announced
      <3>2. CASE requested'[s] = Head(request_queue) /\ request_queue # <<>>
        <4>1. /\ Head(request_queue) \in FH!available_file
              /\ Head(request_queue) = request_queue[1] /\ 1 \in DOMAIN request_queue
          BY <2>0, <3>2, HeadTailProperties, LenProperties
        <4> QED
          BY <2>1, <3>2, <4>1 DEF RequestsAreAnnounced, announced
      <3> QED
        BY <1>2, <2>2, <3>1, <3>2, RequestTaken
    <2>3. ASSUME NEW s \in Sessions, stream'[s] # Absent
          PROVE  requested'[s] # Absent /\ stream'[s].file_info = requested'[s].file_info
      <3>1. CASE stream[s] # Absent /\ stream'[s].file_info = stream[s].file_info
        BY <1>2, <2>3, <3>1, RequestTaken DEF RequestsAreAnnounced
      <3>2. CASE /\ requested[s] # Absent /\ UNCHANGED requested
                 /\ stream'[s].file_info =
                       available_files[requested[s].file_info.file_name].file_info
        BY <3>2 DEF RequestsAreAnnounced, announced
      <3> QED
        BY <1>2, <2>3, <3>1, <3>2, StreamOpened
    <2> QED
      BY <1>2, <2>2, <2>3, QueueIsAnnounced DEF RequestsAreAnnounced
  <1> QED
    BY <1>1, <1>2

-----------------------------------------------------------------------------
(* What "mfsync get" relies on *)

\* Nobody but the program works in the directory here.
Untouched == touched = {}

\* The targets that are no longer asked for are there.
TargetsStored ==
    /\ promise => files_to_request = {}
    /\ \A w \in targets \ files_to_request : w \in Names /\ disk[w] # Absent

\* No step of Receiver is one of the user's.
LEMMA UntouchedStep == TypeOK /\ Untouched /\ [Next]_vars => Untouched'
  <1> SUFFICES ASSUME TypeOK, Untouched, [Next]_vars PROVE Untouched'
    OBVIOUS
  <1>1. ASSUME NEW s \in Sessions, session_step(s) \/ connection_lost(s)
        PROVE  UNCHANGED touched
    <2>1. CASE session_ends(s)
      BY <2>1, SessionEnds DEF FH!vars, FH!close_stream
    <2> QED
      BY <1>1, <2>1, SessionStep
         DEF connect, fh_vars, read_chunk, FH!write_chunk, FH!create_file, FH!finalize_file
  <1>2. CASE storage_thread
    BY <1>2 DEF storage_thread, FH!init_storage, FH!scan_entry, FH!scan_done, Untouched
  <1>3. ASSUME NEW h \in Hosts, announce(h) PROVE Untouched'
    BY <1>3 DEF announce, FH!add_available_files, Untouched
  <1>4. CASE crash
    BY <1>4 DEF crash, FH!crash, Untouched
  <1>5. CASE UNCHANGED fh_vars
    BY <1>5 DEF fh_vars, Untouched
  <1> QED
    BY <1>1, <1>2, <1>3, <1>4, <1>5
       DEF Untouched, Next, vars, get_files, check_exists, check_blocked, filled,
           start_new_session, leave, goes_silent, write_fails

\* A file that is there stays there: a download is only ever finalized from a
\* partial file that exists (FileHandler's StreamIsTmp).
LEMMA DiskKept ==
    ASSUME TypeOK, FHP!IInv, [Next]_vars, NEW n \in Names, disk[n] # Absent
    PROVE  disk'[n] # Absent
  <1>1. ASSUME NEW s \in Sessions, FH!finalize_file(s) PROVE disk'[n] # Absent
    <2> DEFINE m == stream[s].file_info.file_name
    <2>1. tmp[m] = stream[s].pos
      BY <1>1 DEF FH!finalize_file, FHP!IInv, FHP!StreamIsTmp, FHP!open_sessions
    <2>2. stream[s].pos # Absent
      <3>1. stream[s] \in FH!ofstream_wrapper /\ Absent \notin Nat
        BY <1>1, ReceiverAssumption DEF FH!finalize_file, TypeOK, FH!TypeOK, FH!FileHandlerAssumption
      <3> QED
        BY <3>1 DEF FH!ofstream_wrapper
    <2>3. disk' = [disk EXCEPT ![m] = tmp[m]] /\ disk \in [Names -> FH!Length]
      BY <1>1 DEF FH!finalize_file, TypeOK, FH!TypeOK
    <2> QED
      BY <2>1, <2>2, <2>3
  <1>2. ASSUME NEW s \in Sessions, session_step(s) \/ connection_lost(s)
        PROVE  disk'[n] # Absent
    <2>1. CASE session_ends(s)
      BY <2>1, SessionEnds DEF FH!vars, FH!disk_vars, FH!close_stream
    <2> QED
      BY <1>1, <1>2, <2>1, SessionStep
         DEF connect, fh_vars, read_chunk, FH!write_chunk, FH!create_file
  <1>3. CASE storage_thread
    BY <1>3 DEF storage_thread, FH!init_storage, FH!scan_entry, FH!scan_done, FH!disk_vars
  <1>4. ASSUME NEW h \in Hosts, announce(h) PROVE disk'[n] # Absent
    BY <1>4 DEF announce, FH!add_available_files, FH!disk_vars
  <1>5. CASE crash
    BY <1>5 DEF crash, FH!crash, FH!disk_vars
  <1>6. CASE UNCHANGED fh_vars
    BY <1>6 DEF fh_vars
  <1> QED
    BY <1>2, <1>3, <1>4, <1>5, <1>6
       DEF Next, vars, get_files, check_exists, check_blocked, filled,
           start_new_session, leave, goes_silent, write_fails

\* A file that appears is a download that is finalized: its partial file has the
\* announced length (StreamIsTmp), and there was no file (StreamNotOnDisk).
LEMMA AppearsWhole ==
    ASSUME TypeOK, FHP!IInv, Untouched, [Next]_vars, NEW n \in Names, disk'[n] # disk[n]
    PROVE  /\ disk[n] = Absent /\ available_files[n] # Absent
           /\ disk'[n] = available_files[n].file_info.size
  <1>1. ASSUME NEW s \in Sessions, FH!finalize_file(s)
        PROVE  /\ disk[n] = Absent /\ available_files[n] # Absent
               /\ disk'[n] = available_files[n].file_info.size
    <2> DEFINE m == stream[s].file_info.file_name
    <2>1. s \in FHP!open_sessions /\ stream[s].complete
      BY <1>1 DEF FH!finalize_file, FHP!open_sessions
    <2>2. disk' = [disk EXCEPT ![m] = tmp[m]] /\ disk \in [Names -> FH!Length]
      BY <1>1 DEF FH!finalize_file, TypeOK, FH!TypeOK
    <2>3. n = m
      BY <2>2
    <2>4. tmp[m] = stream[s].file_info.size
      BY <2>1 DEF FHP!IInv, FHP!StreamIsTmp, FHP!TypeOK
    <2>5. disk[m] = Absent
      BY <2>1 DEF FHP!IInv, FHP!StreamNotOnDisk, Untouched
    <2>6. available_files[m] # Absent /\ available_files[m].file_info = stream[s].file_info
      BY <2>1 DEF FHP!IInv, FHP!RequestsAreAvailable
    <2> QED
      BY <2>2, <2>3, <2>4, <2>5, <2>6
  <1>3. ASSUME NEW s \in Sessions, session_step(s) \/ connection_lost(s)
        PROVE  UNCHANGED disk \/ FH!finalize_file(s)
    <2>1. CASE session_ends(s)
      BY <2>1, SessionEnds DEF FH!vars, FH!disk_vars, FH!close_stream
    <2> QED
      BY <1>3, <2>1, SessionStep
         DEF connect, fh_vars, read_chunk, FH!write_chunk, FH!create_file
  <1>4. \/ UNCHANGED disk
        \/ \E s \in Sessions : session_step(s) \/ connection_lost(s)
    BY DEF Next, vars, fh_vars, get_files, check_exists, check_blocked, filled,
           start_new_session, storage_thread, FH!init_storage, FH!scan_entry, FH!scan_done,
           FH!disk_vars, announce, FH!add_available_files, leave, goes_silent, write_fails,
           crash, FH!crash
  <1> QED
    BY <1>1, <1>3, <1>4

\* A target is forgotten only when the index lists it, and what the index lists
\* is on disk (FileHandler's StoredMatchesDisk).
LEMMA TargetsStep ==
    TypeOK /\ FHP!IInv /\ Untouched /\ TargetsStored /\ [Next]_vars => TargetsStored'
  <1> SUFFICES ASSUME TypeOK, FHP!IInv, Untouched, TargetsStored, [Next]_vars
               PROVE  TargetsStored'
    OBVIOUS
  <1>1. CASE UNCHANGED <<targets, files_to_request, promise>>
    BY <1>1, DiskKept DEF TargetsStored
  <1>2. CASE filled
    <2>1. UNCHANGED <<disk, targets>>
      BY <1>2 DEF filled, fh_vars
    <2>2. files_to_request' = {w \in files_to_request : ~is_stored(w)}
          /\ (promise' => promise \/ files_to_request' = {})
      BY <1>2 DEF filled
    <2>3. ASSUME NEW w, is_stored(w) PROVE w \in Names /\ disk[w] # Absent
      <3>1. w \in Names /\ stored_files[w] # Absent
        BY <2>3 DEF is_stored, FH!exists_internal
      <3>2. disk[w] = stored_files[w]
        BY <3>1 DEF FHP!IInv, FHP!StoredMatchesDisk, Untouched
      <3> QED
        BY <3>1, <3>2
    <2> QED
      BY <2>1, <2>2, <2>3 DEF TargetsStored
  <1>3. CASE crash
    BY <1>3 DEF crash, TargetsStored
  <1>4. ASSUME NEW s \in Sessions, session_step(s) \/ connection_lost(s)
        PROVE  UNCHANGED <<targets, files_to_request, promise>>
    BY <1>4, SessionStep, SessionEnds DEF loop_vars, connect, read_chunk
  <1> QED
    BY <1>1, <1>2, <1>3, <1>4
       DEF Next, vars, loop_vars, get_files, check_exists, check_blocked, start_new_session,
           storage_thread, announce, leave, goes_silent, write_fails

-----------------------------------------------------------------------------
(* A download that has all its chunks and no file *)

\* What is announced under a name has the size some peer's catalog gives it.
SizesAreAnnounced ==
    \A n \in Names : available_files[n] # Absent =>
        \E h \in Hosts : /\ Catalog[h][n] # Absent
                         /\ available_files[n].file_info.size = Catalog[h][n]

\* Announcements are the catalogs of peers.
LEMMA SizesStep == TypeOK /\ SizesAreAnnounced /\ [Next]_vars => SizesAreAnnounced'
  <1> SUFFICES ASSUME TypeOK, SizesAreAnnounced, [Next]_vars PROVE SizesAreAnnounced'
    OBVIOUS
  <1>1. CASE UNCHANGED available_files
    BY <1>1 DEF SizesAreAnnounced
  <1>2. ASSUME NEW h \in Hosts, announce(h) PROVE SizesAreAnnounced'
    <2> SUFFICES ASSUME NEW n \in Names, available_files'[n] # Absent
                 PROVE  \E k \in Hosts : /\ Catalog[k][n] # Absent
                                         /\ available_files'[n].file_info.size = Catalog[k][n]
      BY DEF SizesAreAnnounced
    <2>1. PICK known \in FH!reads(stored_files') :
             available_files' =
                 [m \in Names |-> IF Catalog[h][m] = Absent \/ m \in known THEN available_files[m]
                                  ELSE FH!available_or_new(m, h, Catalog[h][m])]
      BY <1>2 DEF announce, FH!add_available_files
    <2>2. CASE available_files'[n] = available_files[n]
      BY <2>2 DEF SizesAreAnnounced
    <2>3. CASE /\ Catalog[h][n] # Absent
               /\ available_files'[n] =
                     [file_info |-> [file_name |-> n, size |-> Catalog[h][n]], source |-> h]
      BY <2>3
    <2> QED
      BY <2>1, <2>2, <2>3 DEF FH!available_or_new
  <1>3. CASE crash
    BY <1>3 DEF crash, FH!crash, FH!NoFile, SizesAreAnnounced
  <1>4. ASSUME NEW s \in Sessions, session_step(s) \/ connection_lost(s)
        PROVE  UNCHANGED available_files
    <2>1. CASE session_ends(s)
      BY <2>1, SessionEnds DEF FH!vars, FH!index_vars, FH!close_stream
    <2> QED
      BY <1>4, <2>1, SessionStep
         DEF connect, fh_vars, read_chunk, FH!write_chunk, FH!index_vars, FH!create_file,
             FH!finalize_file
  <1>5. \/ UNCHANGED available_files
        \/ \E s \in Sessions : session_step(s) \/ connection_lost(s)
        \/ \E h \in Hosts : announce(h)
        \/ crash
    BY DEF Next, vars, fh_vars, get_files, check_exists, check_blocked, filled,
           start_new_session, storage_thread, FH!init_storage, FH!scan_entry, FH!scan_done,
           leave, goes_silent, write_fails
  <1> QED
    BY <1>1, <1>2, <1>3, <1>4, <1>5

\* Opening the partial file keeps it, there is no chunk left to write, and only
\* a stream that has written its last chunk is finalized.
LEMMA StuckStep ==
    ASSUME TypeOK, FHP!IInv, SizesAreAnnounced, [Next]_vars, NEW n \in Names, all_received(n)
    PROVE  all_received(n)' /\ tmp'[n] = tmp[n]
  <1>0. /\ stream \in [Sessions -> FH!ofstream_wrapper \cup {Absent}]
        /\ tmp \in [Names -> FH!Length] /\ disk \in [Names -> FH!Length]
    BY DEF TypeOK, FH!TypeOK
  <1>1. ASSUME /\ tmp'[n] = tmp[n] /\ disk'[n] = disk[n]
               /\ \A t \in Sessions : \/ stream'[t] = stream[t]
                                      \/ stream'[t] = Absent
                                      \/ stream'[t].file_info.file_name # n
                                      \/ ~stream'[t].complete
        PROVE  all_received(n)' /\ tmp'[n] = tmp[n]
    BY <1>1 DEF all_received, FH!writes_to
  <1>2. CASE UNCHANGED <<tmp, disk, stream>>
    BY <1>1, <1>2
  <1>3. ASSUME NEW s \in Sessions, session_ends(s) PROVE all_received(n)' /\ tmp'[n] = tmp[n]
    <2>1. UNCHANGED <<tmp, disk>>
      BY <1>3, SessionEnds DEF FH!vars, FH!disk_vars, FH!close_stream
    <2>2. \A t \in Sessions : stream'[t] = stream[t] \/ stream'[t] = Absent
      BY <1>0, <1>3, SessionEnds
    <2> QED
      BY <1>1, <2>1, <2>2
  <1>4. ASSUME NEW s \in Sessions, NEW m, FH!create_file(s, m)
        PROVE  all_received(n)' /\ tmp'[n] = tmp[n]
    <2>1. tmp'[n] = tmp[n] /\ UNCHANGED disk
      BY <1>0, <1>4 DEF FH!create_file, FH!open_tmp, all_received
    <2>2. \A t \in Sessions : stream'[t] = stream[t] \/ ~stream'[t].complete
      BY <1>0, <1>4 DEF FH!create_file
    <2> QED
      BY <1>1, <2>1, <2>2
  <1>5. ASSUME NEW s \in Sessions, read_chunk(s) PROVE all_received(n)' /\ tmp'[n] = tmp[n]
    <2> DEFINE info == stream[s].file_info
               m == info.file_name
    <2>1. s \in FHP!open_sessions /\ stream[s].pos < info.size
      BY <1>5 DEF read_chunk, FH!write_chunk, FHP!open_sessions
    <2>2. tmp[m] = stream[s].pos
      BY <2>1 DEF FHP!IInv, FHP!StreamIsTmp
    <2>3. available_files[m] # Absent /\ available_files[m].file_info = info
      BY <2>1 DEF FHP!IInv, FHP!RequestsAreAvailable
    <2>4. m \in Names /\ stream[s] \in FH!ofstream_wrapper
      BY <1>0, <2>1 DEF FHP!open_sessions, FH!ofstream_wrapper, FH!file_information
    <2>5. PICK h \in Hosts : Catalog[h][m] # Absent /\ info.size = Catalog[h][m]
      BY <2>3, <2>4 DEF SizesAreAnnounced
    <2>6. m # n
      <3>1. stream[s].pos \in Nat /\ info.size \in Nat
        BY <2>4, ReceiverAssumption
        DEF FH!ofstream_wrapper, FH!file_information, FH!FileHandlerAssumption
      <3>2. m = n => stream[s].pos >= info.size
        BY <2>2, <2>5 DEF all_received
      <3> QED
        BY <2>1, <3>1, <3>2
    <2>7. tmp'[n] = tmp[n] /\ UNCHANGED disk
      BY <1>0, <1>5, <2>6 DEF read_chunk, FH!write_chunk
    <2>8. \A t \in Sessions : stream'[t] = stream[t] \/ stream'[t].file_info.file_name # n
      BY <1>0, <1>5, <2>6 DEF read_chunk, FH!write_chunk
    <2> QED
      BY <1>1, <2>7, <2>8
  <1>6. ASSUME NEW s \in Sessions, FH!finalize_file(s)
        PROVE  all_received(n)' /\ tmp'[n] = tmp[n]
    <2> DEFINE m == stream[s].file_info.file_name
    <2>1. m # n
      BY <1>6 DEF FH!finalize_file, all_received, FH!writes_to
    <2>2. /\ disk' = [disk EXCEPT ![m] = tmp[m]]
          /\ tmp' = [tmp EXCEPT ![m] = Absent]
          /\ stream' = [stream EXCEPT ![s] = Absent]
      BY <1>6 DEF FH!finalize_file
    <2>3. tmp'[n] = tmp[n] /\ disk'[n] = disk[n]
      BY <1>0, <2>1, <2>2
    <2>4. \A t \in Sessions : stream'[t] = stream[t] \/ stream'[t] = Absent
      BY <1>0, <2>2
    <2> QED
      BY <1>1, <2>3, <2>4
  <1>7. CASE crash
    <2>1. UNCHANGED <<tmp, disk>> /\ \A t \in Sessions : stream'[t] = Absent
      BY <1>7 DEF crash, FH!crash, FH!disk_vars
    <2> QED
      BY <1>1, <2>1
  <1>8. ASSUME NEW s \in Sessions, session_step(s) \/ connection_lost(s)
        PROVE  all_received(n)' /\ tmp'[n] = tmp[n]
    BY <1>2, <1>3, <1>4, <1>5, <1>6, <1>8, SessionStep DEF connect, fh_vars
  <1>9. \/ UNCHANGED <<tmp, disk, stream>>
        \/ \E s \in Sessions : session_step(s) \/ connection_lost(s)
        \/ crash
    BY DEF Next, vars, fh_vars, get_files, check_exists, check_blocked, filled,
           start_new_session, storage_thread, FH!init_storage, FH!scan_entry, FH!scan_done,
           FH!disk_vars, FH!write_vars, announce, FH!add_available_files, leave, goes_silent,
           write_fails
  <1> QED
    BY <1>2, <1>7, <1>8, <1>9

-----------------------------------------------------------------------------
(* The theorems *)

\* The part of the invariant that Receiver's own variables carry.
LoopInv == TypeOK /\ Announced /\ QueueHasNoDuplicates

\* It holds at the start ...
LEMMA InitLoopInv == Init => LoopInv /\ Untouched /\ TargetsStored
  <1> SUFFICES ASSUME Init PROVE LoopInv /\ Untouched /\ TargetsStored
    OBVIOUS
  <1>1. FH!TypeOK
    <2>1. FHP!Init => FHP!IInv
      BY SameAssumption, FHP!InitInvariant
    <2> QED
      BY <2>1, SameInit, SameTypeOK DEF Init, FHP!IInv
  <1>2. stream = [s \in Sessions |-> Absent]
    BY DEF Init, FH!Init
  <1>3. LoopTypes /\ SessionTypes /\ EnvTypes
    <2>1. <<>> \in Seq(FH!available_file)
      OBVIOUS
    <2>2. LoopTypes
      BY <2>1 DEF Init, LoopTypes, phases
    <2>3. SessionTypes
      BY <1>2 DEF Init, SessionTypes, expired
    <2>4. EnvTypes
      BY ReceiverAssumption DEF Init, EnvTypes
    <2> QED
      BY <2>2, <2>3, <2>4
  <1>4. Announced /\ QueueHasNoDuplicates /\ Untouched /\ TargetsStored
    BY DEF Init, FH!Init, Announced, QueueHasNoDuplicates, Untouched, TargetsStored
  <1> QED
    BY <1>1, <1>3, <1>4, Parts DEF LoopInv

\* ... and always.
THEOREM LoopInvariant == Spec => []LoopInv
  <1>1. Init => LoopInv
    BY InitLoopInv
  <1>2. LoopInv /\ [Next]_vars => LoopInv'
    <2> SUFFICES ASSUME LoopInv, [Next]_vars PROVE LoopInv'
      OBVIOUS
    <2>1. FH!TypeOK' /\ LoopTypes' /\ SessionTypes' /\ EnvTypes'
      BY FileHandlerTypes, LoopTypesStep, SessionTypesStep, EnvTypesStep DEF LoopInv
    <2>2. TypeOK'
      BY <2>1, Parts, PTL
    <2> QED
      BY <2>2, AnnouncedStep, QueueStep DEF LoopInv
  <1> QED
    BY <1>1, <1>2, PTL DEF Spec

\* Types hold for any number of sessions, peers, faults and restarts.
THEOREM TypeCorrect == Spec => []TypeOK
  <1>1. LoopInv => TypeOK
    BY DEF LoopInv
  <1> QED
    BY <1>1, LoopInvariant, PTL

\* A name is in the request queue once at most, although fill_request_queue asks
\* the file_handler twice without holding its mutex (file_receive_handler.cpp).
THEOREM QueueHasNoDuplicatesAlways == Spec => []QueueHasNoDuplicates
  <1>1. LoopInv => QueueHasNoDuplicates
    BY DEF LoopInv
  <1> QED
    BY <1>1, LoopInvariant, PTL

\* The loop and its sessions do to the storage what FileHandler allows.
THEOREM ReceiverImplementsFileHandler == Spec => ImplementsFileHandler
  <1>1. Init => FH!Init
    BY DEF Init
  <1>2. LoopInv /\ [Next]_vars => [FH!Next]_(FH!vars)
    BY FileHandlerStep DEF LoopInv
  <1> QED
    BY <1>1, <1>2, LoopInvariant, PTL DEF Spec, ImplementsFileHandler, FH!Spec

\* So what is proved of FileHandler holds of the composition.
THEOREM FileHandlerInvariant == Spec => []FHP!IInv
  <1>1. FHP!Spec => []FHP!IInv
    BY SameAssumption, FHP!InductiveInvariant
  <1>2. FH!Spec => FHP!Spec
    BY SameInit, SameNext, PTL DEF FH!Spec, FHP!Spec
  <1> QED
    BY <1>1, <1>2, ReceiverImplementsFileHandler, PTL DEF ImplementsFileHandler

\* What has been received of a file is never thrown away by the loop, through
\* whichever sessions, failures and restarts its download goes on.
THEOREM ReceivedIsKept == Spec => FH!PartialKept
  <1>1. FHP!Spec => FHP!PartialKept
    BY SameAssumption, FHP!PartialsAreKept
  <1>2. FHP!PartialKept => FH!PartialKept
    BY DEF FHP!PartialKept, FH!PartialKept, FHP!vars, FH!vars, FHP!disk_vars, FH!disk_vars,
           FHP!index_vars, FH!index_vars, FHP!write_vars, FH!write_vars, FHP!init_vars,
           FH!init_vars
  <1>3. FH!Spec => FHP!Spec
    BY SameInit, SameNext, PTL DEF FH!Spec, FHP!Spec
  <1> QED
    BY <1>1, <1>2, <1>3, ReceiverImplementsFileHandler, PTL DEF ImplementsFileHandler

\* Nobody but the program works in the directory of Receiver.
LEMMA AlwaysUntouched == Spec => []Untouched
  <1>1. Init => Untouched
    BY InitLoopInv
  <1> QED
    BY <1>1, UntouchedStep, TypeCorrect, PTL DEF Spec

\* While the loop runs alone in the directory, no two sessions write one partial
\* file, and everything the index lists is there with the listed length: the
\* exception FileHandler makes for the user's changes is not needed.
THEOREM IndexIsTrueWhenAlone ==
    Spec => [](/\ FH!OneWriter
               /\ \A n \in Names : stored_files[n] # Absent => disk[n] = stored_files[n])
  <1>1. FHP!IInv /\ Untouched => /\ FH!OneWriter
                                 /\ \A n \in Names : stored_files[n] # Absent =>
                                                        disk[n] = stored_files[n]
    BY DEF FHP!IInv, FHP!OneWriter, FH!OneWriter, FHP!writes_to, FH!writes_to,
           FHP!StoredMatchesDisk, Untouched
  <1> QED
    BY <1>1, FileHandlerInvariant, AlwaysUntouched, PTL

\* What was announced when a request was queued is what is written, and a lock
\* is that of a session that lives.
THEOREM LocksHaveSessionsAlways == Spec => []LocksHaveSessions
  <1>1. Init => RequestsAreAnnounced
    BY DEF Init, FH!Init, RequestsAreAnnounced
  <1>2. LoopInv /\ RequestsAreAnnounced /\ [Next]_vars => RequestsAreAnnounced'
    BY RequestsStep DEF LoopInv
  <1>3. ASSUME TypeOK, FHP!IInv, RequestsAreAnnounced, NEW lock \in locked_files
        PROVE  ~expired(lock.owner) /\ requested[lock.owner].file_info = lock.file
    <2>1. PICK s \in FHP!open_sessions : lock = [file |-> stream[s].file_info, owner |-> s]
      BY <1>3 DEF FHP!IInv, FHP!LocksAreStreams
    <2>2. s \in Sessions /\ stream[s] # Absent
      BY DEF FHP!open_sessions
    <2> QED
      BY <1>3, <2>1, <2>2 DEF RequestsAreAnnounced, TypeOK
  <1>4. TypeOK /\ FHP!IInv /\ RequestsAreAnnounced => LocksHaveSessions
    BY <1>3 DEF LocksHaveSessions
  <1> QED
    BY <1>1, <1>2, <1>4, LoopInvariant, TypeCorrect, FileHandlerInvariant, PTL DEF Spec

\* A name in the directory stands for a whole file from its first moment on, by
\* however many attempts it came about, and is not written again.
THEOREM OnlyWholeFilesEverAppear == Spec => OnlyWholeFilesAppear
  <1>1. TypeOK /\ FHP!IInv /\ Untouched /\ [Next]_vars =>
            [\A n \in Names : disk'[n] # disk[n] =>
                /\ disk[n] = Absent
                /\ available_files[n] # Absent
                /\ disk'[n] = available_files[n].file_info.size]_vars
    BY AppearsWhole
  <1> QED
    BY <1>1, TypeCorrect, FileHandlerInvariant, AlwaysUntouched, PTL
    DEF Spec, OnlyWholeFilesAppear

\* "mfsync get" returns only when every file it was given is in the directory,
\* restarts, full devices and racing scans included.
THEOREM PromiseMeansStoredAlways == Spec => []PromiseMeansStored
  <1>1. Init => Untouched /\ TargetsStored
    BY InitLoopInv
  <1>2. TypeOK /\ FHP!IInv /\ Untouched /\ TargetsStored /\ [Next]_vars
        => Untouched' /\ TargetsStored'
    BY UntouchedStep, TargetsStep
  <1>3. TargetsStored => PromiseMeansStored
    BY DEF TargetsStored, PromiseMeansStored
  <1> QED
    BY <1>1, <1>2, <1>3, TypeCorrect, FileHandlerInvariant, PTL DEF Spec

\* A partial file that is as long as any peer says the file is, and of which no
\* session is about to be finalized, is neither finished nor started again by
\* anything that follows: confirm ends each session that resumes it.
THEOREM AllReceivedStaysStuck == Spec => AllReceivedIsStuck
  <1>1. Init => SizesAreAnnounced
    BY DEF Init, FH!Init, FH!NoFile, SizesAreAnnounced
  <1>2. TypeOK /\ FHP!IInv /\ SizesAreAnnounced /\ [Next]_vars =>
            [\A n \in Names : all_received(n) => all_received(n)' /\ tmp'[n] = tmp[n]]_vars
    BY StuckStep
  <1> QED
    BY <1>1, <1>2, SizesStep, TypeCorrect, FileHandlerInvariant, PTL
    DEF Spec, AllReceivedIsStuck
=============================================================================
