------------------------- MODULE FileHandlerProofs -------------------------
(***************************************************************************)
(* Proofs about FileHandler, for every set of names, sizes, hosts and      *)
(* sessions. The properties are not inductive one by one: OneWriter needs  *)
(* that locks are streams and that a request's size is that of the one     *)
(* announcement its name has; StoredMatchesDisk needs that a stream's      *)
(* position is the length of its partial file, and that the finished file  *)
(* cannot be there yet. IInv is their conjunction.                         *)
(***************************************************************************)
EXTENDS FileHandler, TLAPS

\* Every open stream writes the file the index of announcements has under that
\* name, with the size given there.
RequestsAreAvailable ==
    \A s \in open_sessions :
        /\ available_files[stream[s].file_info.file_name] # Absent
        /\ available_files[stream[s].file_info.file_name].file_info = stream[s].file_info

\* The position of a session's stream is the length of its partial file.
StreamIsTmp ==
    \A s \in open_sessions : tmp[stream[s].file_info.file_name] = stream[s].pos

\* While a name is being downloaded its finished file does not exist.
StreamNotOnDisk ==
    \A s \in open_sessions :
        stream[s].file_info.file_name \notin touched
            => disk[stream[s].file_info.file_name] = Absent

IInv ==
    /\ TypeOK
    /\ LocksAreStreams
    /\ RequestsAreAvailable
    /\ OneWriter
    /\ StreamIsTmp
    /\ StreamNotOnDisk
    /\ StoredMatchesDisk

-----------------------------------------------------------------------------
(* Lemmas about the operators *)

\* A pass over the directory leaves each entry as it was, erases it, or creates
\* it with the length the file has.
LEMMA UpdateStored ==
    ASSUME NEW S \in [Names -> Length], NEW d \in [Names -> Length]
    PROVE  /\ update_stored_files(S, d) \in [Names -> Length]
           /\ \A n \in Names : update_stored_files(S, d)[n] # Absent =>
                 \/ update_stored_files(S, d)[n] = S[n]
                 \/ update_stored_files(S, d)[n] = d[n]
  BY DEF update_stored_files, scanned, Length

\* A racing insert leaves each entry as it was or loses it.
LEMMA Inserts ==
    ASSUME NEW S \in [Names -> Length], NEW R \in inserts(S)
    PROVE  /\ R \in [Names -> Length]
           /\ \A n \in Names : R[n] # Absent => R[n] = S[n]
  BY DEF inserts, Length

LEMMA InitInvariant == Init => IInv
  <1> SUFFICES ASSUME Init PROVE IInv
    OBVIOUS
  <1> USE FileHandlerAssumption DEF Init
  <1>1. TypeOK
    BY DEF TypeOK, NoFile, Length, open_sessions
  <1>2. open_sessions = {}
    BY DEF open_sessions
  <1>3. LocksAreStreams
    BY <1>2 DEF LocksAreStreams
  <1>4. RequestsAreAvailable /\ StreamIsTmp /\ StreamNotOnDisk
    BY <1>2 DEF RequestsAreAvailable, StreamIsTmp, StreamNotOnDisk
  <1>5. OneWriter
    BY DEF OneWriter, writes_to
  <1>6. StoredMatchesDisk
    BY DEF StoredMatchesDisk, NoFile
  <1> QED
    BY <1>1, <1>3, <1>4, <1>5, <1>6 DEF IInv


-----------------------------------------------------------------------------
(* Type correctness *)

LEMMA TypeStep == TypeOK /\ [Next]_vars => TypeOK'
  <1> SUFFICES ASSUME TypeOK, [Next]_vars PROVE TypeOK'
    OBVIOUS
  <1> USE FileHandlerAssumption DEF open_sessions
  <1>1. CASE init_storage
    BY <1>1 DEF init_storage, TypeOK, disk_vars, write_vars, on_disk
  <1>2. CASE \E n \in Names : scan_entry(n)
    BY <1>2 DEF scan_entry, TypeOK, disk_vars, write_vars, Length
  <1>3. CASE scan_done
    BY <1>3 DEF scan_done, TypeOK, disk_vars, write_vars
  <1>4. ASSUME NEW h \in Hosts, NEW list \in [Names -> Sizes \cup {Absent}],
               add_available_files(h, list)
        PROVE  TypeOK'
    <2>1. stored_files' \in [Names -> Length]
      BY <1>4, UpdateStored DEF add_available_files, TypeOK
    <2>2. storage_init_is_in_progress' \in BOOLEAN
      BY <1>4 DEF add_available_files, progress_flag_after_update, TypeOK
    <2>3. PICK known \in reads(stored_files') :
            available_files' =
              [n \in Names |-> IF list[n] = Absent \/ n \in known THEN available_files[n]
                               ELSE available_or_new(n, h, list[n])]
      BY <1>4 DEF add_available_files
    <2>4. ASSUME NEW n \in Names
          PROVE  /\ available_files'[n] \in available_file \cup {Absent}
                 /\ available_files'[n] # Absent => available_files'[n].file_info.file_name = n
      <3>1. CASE list[n] = Absent \/ n \in known \/ available_files[n] # Absent
        BY <2>3, <3>1 DEF available_or_new, TypeOK
      <3>2. CASE ~(list[n] = Absent \/ n \in known \/ available_files[n] # Absent)
        <4>1. list[n] \in Sizes
          BY <3>2
        <4>2. available_files'[n] = [file_info |-> [file_name |-> n, size |-> list[n]], source |-> h]
          BY <2>3, <3>2 DEF available_or_new
        <4> QED
          BY <4>1, <4>2 DEF available_file, file_information
      <3> QED
        BY <3>1, <3>2
    <2>5. available_files' \in [Names -> available_file \cup {Absent}]
      BY <2>3, <2>4
    <2> QED
      BY <1>4, <2>1, <2>2, <2>4, <2>5
         DEF add_available_files, TypeOK, disk_vars, write_vars, init_vars
  <1>5. ASSUME NEW s \in Sessions, NEW n \in Names, create_file(s, n)
        PROVE  TypeOK'
    <2>1. available_files[n].file_info \in file_information
      BY <1>5 DEF create_file, TypeOK, available_file
    <2>2. open_tmp(n) \in Nat
      BY DEF open_tmp, TypeOK, Length
    <2>3. tmp' \in [Names -> Length]
      BY <1>5, <2>2 DEF create_file, TypeOK, Length
    <2>4. stream' \in [Sessions -> ofstream_wrapper \cup {Absent}]
      BY <1>5, <2>1, <2>2 DEF create_file, TypeOK, ofstream_wrapper
    <2>5. locked_files' \subseteq [file : file_information, owner : Sessions]
      BY <1>5, <2>1 DEF create_file, TypeOK
    <2>6. \A t \in Sessions : stream'[t] = stream[t] \/ ~stream'[t].complete
      BY <1>5 DEF create_file, TypeOK
    <2>7. \A t \in open_sessions' : stream'[t].complete => stream'[t].pos = stream'[t].file_info.size
      BY <2>6 DEF TypeOK
    <2> QED
      BY <1>5, <2>3, <2>4, <2>5, <2>7 DEF create_file, TypeOK, index_vars, init_vars
  <1>6. ASSUME NEW s \in Sessions, write_chunk(s)
        PROVE  TypeOK'
    <2>1. stream[s] \in ofstream_wrapper
      BY <1>6 DEF write_chunk, TypeOK
    <2>2. /\ stream[s].file_info.file_name \in Names
          /\ stream[s].file_info \in file_information
          /\ stream[s].pos + 1 \in Nat
      BY <2>1 DEF ofstream_wrapper, file_information
    <2>3. tmp' \in [Names -> Length]
      BY <1>6, <2>2 DEF write_chunk, TypeOK, Length
    <2>4. is_complete(stream[s].pos + 1, stream[s].file_info.size) \in BOOLEAN
      BY DEF is_complete
    <2>5. stream' \in [Sessions -> ofstream_wrapper \cup {Absent}]
      BY <1>6, <2>2, <2>4 DEF write_chunk, TypeOK, ofstream_wrapper
    <2>6. /\ stream[s].pos \in Nat
          /\ stream[s].file_info.size \in Nat
          /\ stream[s].pos < stream[s].file_info.size
      BY <1>6, <2>1 DEF write_chunk, ofstream_wrapper, file_information
    <2> DEFINE done == is_complete(stream[s].pos + 1, stream[s].file_info.size)
    <2>7. done => stream[s].pos + 1 = stream[s].file_info.size
      BY <2>6 DEF is_complete
    <2>8. /\ stream'[s] = [file_info |-> stream[s].file_info, pos |-> stream[s].pos + 1,
                            complete |-> done]
          /\ \A t \in Sessions \ {s} : stream'[t] = stream[t]
      BY <1>6 DEF write_chunk, TypeOK
    <2> HIDE DEF done
    <2>9. \A t \in open_sessions' : stream'[t].complete => stream'[t].pos = stream'[t].file_info.size
      <3>1. CASE done
        BY <2>7, <2>8, <3>1 DEF TypeOK
      <3>2. CASE ~done
        BY <2>8, <3>2 DEF TypeOK
      <3> QED
        BY <3>1, <3>2
    <2> QED
      BY <1>6, <2>3, <2>5, <2>9 DEF write_chunk, TypeOK, index_vars, init_vars
  <1>7. ASSUME NEW s \in Sessions, finalize_file(s)
        PROVE  TypeOK'
    <2>1. /\ stream[s].file_info.file_name \in Names
          /\ stream[s].file_info.size \in Nat
      BY <1>7 DEF finalize_file, TypeOK, ofstream_wrapper, file_information
    <2>2. disk' \in [Names -> Length] /\ tmp' \in [Names -> Length]
      BY <1>7, <2>1 DEF finalize_file, TypeOK, Length
    <2>3. PICK S \in inserts(IF stored_files[stream[s].file_info.file_name] # Absent THEN stored_files
                             ELSE [stored_files EXCEPT ![stream[s].file_info.file_name] =
                                      stream[s].file_info.size]) :
            stored_files' = update_stored_files(S, disk')
      BY <1>7 DEF finalize_file
    <2>4. (IF stored_files[stream[s].file_info.file_name] # Absent THEN stored_files
           ELSE [stored_files EXCEPT ![stream[s].file_info.file_name] =
                    stream[s].file_info.size]) \in [Names -> Length]
      BY <2>1 DEF TypeOK, Length
    <2>5. stored_files' \in [Names -> Length]
      BY <2>2, <2>3, <2>4, Inserts, UpdateStored
    <2>6. storage_init_is_in_progress' \in BOOLEAN
      BY <1>7 DEF finalize_file, progress_flag_after_update, TypeOK
    <2>7. stream' \in [Sessions -> ofstream_wrapper \cup {Absent}]
      BY <1>7 DEF finalize_file, TypeOK
    <2>8. locked_files' \subseteq locked_files
      BY <1>7 DEF finalize_file
    <2>9. \A t \in open_sessions' : stream'[t] = stream[t] /\ t \in open_sessions
      BY <1>7 DEF finalize_file, TypeOK
    <2> QED
      BY <1>7, <2>2, <2>5, <2>6, <2>7, <2>8, <2>9 DEF finalize_file, TypeOK, init_vars
  <1>8. ASSUME NEW s \in Sessions, close_stream(s)
        PROVE  TypeOK'
    <2>1. \A t \in open_sessions' : stream'[t] = stream[t] /\ t \in open_sessions
      BY <1>8 DEF close_stream, TypeOK
    <2> QED
      BY <1>8, <2>1 DEF close_stream, unlocked, TypeOK, disk_vars, index_vars, init_vars
  <1>9. CASE read_file
    BY <1>9, UpdateStored DEF read_file, progress_flag_after_update, TypeOK,
       disk_vars, write_vars, init_vars
  <1>10. CASE \E n \in Names, size \in Sizes : user_add(n, size)
    BY <1>10 DEF user_add, touch, TypeOK, Length, index_vars, write_vars, init_vars
  <1>11. CASE \E n \in Names : user_remove(n)
    BY <1>11 DEF user_remove, touch, TypeOK, Length, index_vars, write_vars, init_vars
  <1>12. CASE user_mkdir
    BY <1>12 DEF user_mkdir, TypeOK, index_vars, write_vars, init_vars
  <1>13. CASE user_rmdir
    BY <1>13 DEF user_rmdir, TypeOK, NoFile, Length, index_vars, write_vars, init_vars
  <1>14. CASE crash
    BY <1>14 DEF crash, TypeOK, NoFile, Length, disk_vars
  <1>15. CASE UNCHANGED vars
    BY <1>15 DEF TypeOK, vars, disk_vars, index_vars, write_vars, init_vars
  <1> QED
    BY <1>1, <1>2, <1>3, <1>4, <1>5, <1>6, <1>7, <1>8, <1>9, <1>10, <1>11, <1>12,
       <1>13, <1>14, <1>15 DEF Next

\* Type correctness, on its own inductive: the offset of an open stream is a
\* number, and the announced size once the session has stopped reading chunks.
THEOREM TypeCorrect == Spec => []TypeOK
  <1>1. Init => TypeOK
    BY InitInvariant DEF IInv
  <1> QED
    BY <1>1, TypeStep, PTL DEF Spec


-----------------------------------------------------------------------------
(* Streams, locks and partial files *)

StreamInv == LocksAreStreams /\ RequestsAreAvailable /\ OneWriter /\ StreamIsTmp

\* Nothing is said of streams by a step that leaves them, the locks and the
\* partial files alone and keeps every entry of available_files.
LEMMA StreamFrame ==
    ASSUME TypeOK, StreamInv, UNCHANGED <<tmp, write_vars>>,
           \A n \in Names : available_files[n] # Absent => available_files'[n] = available_files[n]
    PROVE  StreamInv'
  <1>1. \A s \in open_sessions : stream[s].file_info.file_name \in Names
    BY DEF TypeOK, open_sessions, ofstream_wrapper, file_information
  <1>2. open_sessions' = open_sessions /\ stream' = stream /\ locked_files' = locked_files
    BY DEF open_sessions, write_vars
  <1>3. LocksAreStreams' /\ OneWriter'
    BY <1>2 DEF StreamInv, LocksAreStreams, OneWriter, writes_to
  <1>4. RequestsAreAvailable'
    BY <1>1, <1>2 DEF StreamInv, RequestsAreAvailable
  <1>5. StreamIsTmp'
    BY <1>2 DEF StreamInv, StreamIsTmp
  <1> QED
    BY <1>3, <1>4, <1>5 DEF StreamInv

\* A session that gets a stream gets one for a name nobody else writes: the lock
\* test compares sizes too, but two requests for a name carry the same size.
LEMMA CreateStep ==
    ASSUME TypeOK, StreamInv, NEW s \in Sessions, NEW n \in Names, create_file(s, n)
    PROVE  StreamInv'
  <1> USE FileHandlerAssumption
  <1> DEFINE info == available_files[n].file_info
             new == [file_info |-> info, pos |-> open_tmp(n), complete |-> FALSE]
  <1>1. /\ s \notin open_sessions
        /\ available_files[n] # Absent
        /\ info \in file_information
        /\ info.file_name = n
    BY DEF create_file, open_sessions, TypeOK, available_file
  <1>2. open_tmp(n) \in Nat
    BY DEF open_tmp, TypeOK, Length
  <1>3. new \in ofstream_wrapper
    BY <1>1, <1>2 DEF ofstream_wrapper
  <1>4. /\ stream' = [stream EXCEPT ![s] = new]
        /\ stream'[s] = new
        /\ new # Absent
        /\ \A t \in Sessions \ {s} : stream'[t] = stream[t]
    BY <1>3 DEF create_file, TypeOK
  <1>5. open_sessions' = open_sessions \cup {s}
    BY <1>4 DEF open_sessions
  <1>6. \A t \in open_sessions : stream[t].file_info.file_name # n
    <2> SUFFICES ASSUME NEW t \in open_sessions, stream[t].file_info.file_name = n
                 PROVE  FALSE
      OBVIOUS
    <2>1. stream[t].file_info = info
      BY DEF StreamInv, RequestsAreAvailable
    <2>2. [file |-> stream[t].file_info, owner |-> t] \in locked_files
      BY DEF StreamInv, LocksAreStreams
    <2>3. is_blocked_internal(info)
      BY <2>1, <2>2 DEF is_blocked_internal
    <2> QED
      BY <2>3 DEF create_file
  <1>7. LocksAreStreams'
    <2>1. locked_files' = locked_files \cup {[file |-> info, owner |-> s]}
      BY DEF create_file
    <2>2. locked_files = {[file |-> stream[t].file_info, owner |-> t] : t \in open_sessions}
      BY DEF StreamInv, LocksAreStreams
    <2>3. stream'[s].file_info = info /\ \A t \in open_sessions : stream'[t] = stream[t]
      BY <1>1, <1>4 DEF open_sessions
    <2>4. locked_files' = {[file |-> stream'[t].file_info, owner |-> t] : t \in open_sessions'}
      BY <1>5, <2>1, <2>2, <2>3
    <2> QED
      BY <2>4 DEF LocksAreStreams
  <1>8. RequestsAreAvailable'
    BY <1>1, <1>4, <1>5 DEF StreamInv, RequestsAreAvailable, create_file, index_vars, open_sessions
  <1>9. OneWriter'
    BY <1>1, <1>4, <1>6 DEF StreamInv, OneWriter, writes_to, open_sessions
  <1>10. StreamIsTmp'
    <2>1. tmp'[n] = open_tmp(n)
      BY DEF create_file, TypeOK
    <2>2. \A t \in open_sessions : tmp'[stream[t].file_info.file_name] = tmp[stream[t].file_info.file_name]
      BY <1>6 DEF create_file, TypeOK
    <2> QED
      BY <1>1, <1>4, <1>5, <2>1, <2>2 DEF StreamInv, StreamIsTmp, open_sessions
  <1> QED
    BY <1>7, <1>8, <1>9, <1>10 DEF StreamInv

\* A chunk grows one stream and its partial file alike, and completes the
\* download exactly at the announced size.
LEMMA WriteStep ==
    ASSUME TypeOK, StreamInv, NEW s \in Sessions, write_chunk(s)
    PROVE  StreamInv'
  <1> USE FileHandlerAssumption
  <1> DEFINE info == stream[s].file_info
             n == info.file_name
             new == [file_info |-> info, pos |-> stream[s].pos + 1,
                     complete |-> is_complete(stream[s].pos + 1, info.size)]
  <1>1. /\ s \in open_sessions
        /\ info \in file_information
        /\ n \in Names
        /\ info.size \in Nat
        /\ stream[s].pos \in Nat
        /\ stream[s].pos < info.size
    BY DEF write_chunk, TypeOK, ofstream_wrapper, file_information, open_sessions
  <1>2. new \in ofstream_wrapper
    BY <1>1 DEF ofstream_wrapper, is_complete
  <1>3. /\ stream'[s] = new
        /\ new # Absent
        /\ \A t \in Sessions \ {s} : stream'[t] = stream[t]
    BY <1>2 DEF write_chunk, TypeOK
  <1>4. open_sessions' = open_sessions
    BY <1>1, <1>3 DEF open_sessions
  <1>5. \A t \in open_sessions : stream'[t].file_info = stream[t].file_info
    BY <1>3 DEF open_sessions
  <1>6. \A t \in open_sessions \ {s} : stream[t].file_info.file_name # n
    BY <1>1 DEF StreamInv, OneWriter, writes_to, open_sessions
  <1>7. LocksAreStreams'
    BY <1>4, <1>5 DEF StreamInv, LocksAreStreams, write_chunk
  <1>8. RequestsAreAvailable'
    BY <1>4, <1>5 DEF StreamInv, RequestsAreAvailable, write_chunk, index_vars
  <1>9. OneWriter'
    BY <1>4, <1>5 DEF StreamInv, OneWriter, writes_to, open_sessions
  <1>10. StreamIsTmp'
    <2>1. tmp'[n] = stream[s].pos + 1
      BY <1>1 DEF write_chunk, TypeOK
    <2>2. is_complete(stream[s].pos + 1, info.size) => stream[s].pos + 1 = info.size
      BY <1>1 DEF is_complete
    <2>3. stream'[s].complete => stream'[s].pos = info.size
      BY <1>3, <2>2
    <2>4. stream'[s].pos = stream[s].pos + 1 /\ stream'[s].file_info = info
      BY <1>3
    <2>5. \A t \in open_sessions \ {s} :
            tmp'[stream[t].file_info.file_name] = tmp[stream[t].file_info.file_name]
      BY <1>6 DEF write_chunk, TypeOK
    <2>6. \A t \in open_sessions \ {s} : stream'[t] = stream[t]
      BY <1>3 DEF open_sessions
    <2> QED
      BY <1>4, <2>1, <2>3, <2>4, <2>5, <2>6 DEF StreamInv, StreamIsTmp
  <1> QED
    BY <1>7, <1>8, <1>9, <1>10 DEF StreamInv

\* A stream that is closed takes exactly its own lock with it.
LEMMA CloseStep ==
    ASSUME TypeOK, StreamInv, NEW s \in Sessions, close_stream(s)
    PROVE  StreamInv'
  <1>1. /\ stream'[s] = Absent
        /\ \A t \in Sessions \ {s} : stream'[t] = stream[t]
    BY DEF close_stream, TypeOK
  <1>2. open_sessions' = open_sessions \ {s}
    BY <1>1 DEF open_sessions
  <1>3. LocksAreStreams'
    BY <1>1, <1>2 DEF StreamInv, LocksAreStreams, close_stream, unlocked, open_sessions
  <1>4. RequestsAreAvailable' /\ StreamIsTmp'
    BY <1>1, <1>2 DEF StreamInv, RequestsAreAvailable, StreamIsTmp, close_stream,
       disk_vars, index_vars, open_sessions
  <1>5. OneWriter'
    BY <1>1 DEF StreamInv, OneWriter, writes_to
  <1> QED
    BY <1>3, <1>4, <1>5 DEF StreamInv

\* Finalizing erases every lock on that name and size; there is only the one.
LEMMA FinalizeStep ==
    ASSUME TypeOK, StreamInv, NEW s \in Sessions, finalize_file(s)
    PROVE  StreamInv'
  <1> DEFINE info == stream[s].file_info
             n == info.file_name
  <1>1. /\ s \in open_sessions
        /\ n \in Names
        /\ stream'[s] = Absent
        /\ \A t \in Sessions \ {s} : stream'[t] = stream[t]
    BY DEF finalize_file, TypeOK, open_sessions, ofstream_wrapper, file_information
  <1>2. open_sessions' = open_sessions \ {s}
    BY <1>1 DEF open_sessions
  <1>3. \A t \in open_sessions \ {s} : stream[t].file_info.file_name # n
    BY <1>1 DEF StreamInv, OneWriter, writes_to, open_sessions
  <1>4. LocksAreStreams'
    <2>1. locked_files' = {lock \in locked_files : lock.file # info}
      BY DEF finalize_file
    <2>2. locked_files = {[file |-> stream[t].file_info, owner |-> t] : t \in open_sessions}
      BY DEF StreamInv, LocksAreStreams
    <2>3. \A t \in open_sessions \ {s} : stream[t].file_info # info /\ stream'[t] = stream[t]
      BY <1>1, <1>3 DEF open_sessions
    <2>4. locked_files' = {[file |-> stream[t].file_info, owner |-> t] : t \in open_sessions \ {s}}
      <3>1. ASSUME NEW lock \in locked_files, lock.file # info
            PROVE  \E t \in open_sessions \ {s} : lock = [file |-> stream[t].file_info, owner |-> t]
        <4>1. PICK t \in open_sessions : lock = [file |-> stream[t].file_info, owner |-> t]
          BY <2>2, <3>1
        <4> QED
          BY <3>1, <4>1
      <3>2. \A t \in open_sessions \ {s} : [file |-> stream[t].file_info, owner |-> t] \in locked_files
        BY <2>2
      <3> QED
        BY <2>1, <2>3, <3>1, <3>2
    <2>5. locked_files' = {[file |-> stream'[t].file_info, owner |-> t] : t \in open_sessions'}
      BY <1>2, <2>3, <2>4
    <2> QED
      BY <2>5 DEF LocksAreStreams
  <1>5. RequestsAreAvailable'
    <2>1. available_files' = available_files
      BY DEF finalize_file
    <2>2. \A t \in open_sessions' : t \in open_sessions /\ stream'[t] = stream[t]
      BY <1>1, <1>2 DEF open_sessions
    <2> QED
      BY <2>1, <2>2 DEF StreamInv, RequestsAreAvailable
  <1>6. OneWriter'
    <2> SUFFICES ASSUME NEW t \in Sessions, NEW u \in Sessions, NEW m \in Names,
                        writes_to(t, m)', writes_to(u, m)'
                 PROVE  t = u
      BY DEF OneWriter
    <2>1. writes_to(t, m) /\ writes_to(u, m)
      BY <1>1 DEF writes_to
    <2> QED
      BY <2>1 DEF StreamInv, OneWriter
  <1>7. StreamIsTmp'
    <2>1. \A t \in open_sessions \ {s} :
            tmp'[stream[t].file_info.file_name] = tmp[stream[t].file_info.file_name]
      BY <1>3 DEF finalize_file, TypeOK
    <2>2. \A t \in open_sessions' : t \in open_sessions \ {s} /\ stream'[t] = stream[t]
      BY <1>1, <1>2 DEF open_sessions
    <2> QED
      BY <2>1, <2>2 DEF StreamInv, StreamIsTmp
  <1> QED
    BY <1>4, <1>5, <1>6, <1>7 DEF StreamInv

LEMMA StreamStep == TypeOK /\ StreamInv /\ [Next]_vars => StreamInv'
  <1> SUFFICES ASSUME TypeOK, StreamInv, [Next]_vars PROVE StreamInv'
    OBVIOUS
  <1>1. ASSUME NEW h \in Hosts, NEW list \in [Names -> Sizes \cup {Absent}],
               add_available_files(h, list)
        PROVE  StreamInv'
    <2>1. \A n \in Names : available_files[n] # Absent => available_files'[n] = available_files[n]
      BY <1>1 DEF add_available_files, available_or_new
    <2> QED
      BY <1>1, <2>1, StreamFrame DEF add_available_files, disk_vars, write_vars
  <1>2. CASE \E s \in Sessions, n \in Names : create_file(s, n)
    BY <1>2, CreateStep
  <1>3. CASE \E s \in Sessions : write_chunk(s)
    BY <1>3, WriteStep
  <1>4. CASE \E s \in Sessions : finalize_file(s)
    BY <1>4, FinalizeStep
  <1>5. CASE \E s \in Sessions : close_stream(s)
    BY <1>5, CloseStep
  <1>6. CASE \/ init_storage \/ (\E n \in Names : scan_entry(n)) \/ scan_done \/ read_file
             \/ (\E n \in Names, size \in Sizes : user_add(n, size))
             \/ (\E n \in Names : user_remove(n)) \/ user_mkdir \/ UNCHANGED vars
    <2>1. UNCHANGED <<tmp, write_vars, available_files>>
      BY <1>6 DEF init_storage, scan_entry, scan_done, read_file, user_add, user_remove,
         user_mkdir, vars, disk_vars, index_vars, write_vars
    <2> QED
      BY <2>1, StreamFrame
  <1>7. CASE user_rmdir
    <2>1. open_sessions = {} /\ open_sessions' = {} /\ stream' = stream /\ locked_files' = locked_files
      BY <1>7 DEF user_rmdir, open_sessions, write_vars
    <2> QED
      BY <2>1 DEF StreamInv, LocksAreStreams, RequestsAreAvailable, OneWriter, StreamIsTmp,
         writes_to, open_sessions
  <1>8. CASE crash
    <2>1. open_sessions' = {} /\ locked_files' = {}
      BY <1>8 DEF crash, open_sessions
    <2> QED
      BY <2>1 DEF StreamInv, LocksAreStreams, RequestsAreAvailable, OneWriter, StreamIsTmp,
         writes_to, open_sessions
  <1> QED
    BY <1>1, <1>2, <1>3, <1>4, <1>5, <1>6, <1>7, <1>8 DEF Next

\* Two sessions never write the same partial file.
THEOREM OneWriterAlways == Spec => []OneWriter
  <1>1. Init => TypeOK /\ StreamInv
    BY InitInvariant DEF IInv, StreamInv
  <1>2. TypeOK /\ StreamInv /\ [Next]_vars => (TypeOK /\ StreamInv)'
    BY TypeStep, StreamStep
  <1>3. StreamInv => OneWriter
    BY DEF StreamInv
  <1> QED
    BY <1>1, <1>2, <1>3, PTL DEF Spec

\* The live entries of locked_files are exactly the open streams.
THEOREM LocksAreStreamsAlways == Spec => []LocksAreStreams
  <1>1. Init => TypeOK /\ StreamInv
    BY InitInvariant DEF IInv, StreamInv
  <1>2. TypeOK /\ StreamInv /\ [Next]_vars => (TypeOK /\ StreamInv)'
    BY TypeStep, StreamStep
  <1>3. StreamInv => LocksAreStreams
    BY DEF StreamInv
  <1> QED
    BY <1>1, <1>2, <1>3, PTL DEF Spec


-----------------------------------------------------------------------------
(* The directory and the index *)

DiskInv == StreamNotOnDisk /\ StoredMatchesDisk

\* Steps that leave disk, index and touched alone, and open no stream.
LEMMA DiskFrame ==
    ASSUME TypeOK, DiskInv, UNCHANGED <<disk, stored_files, touched>>,
           \A s \in open_sessions' :
              s \in open_sessions /\ stream'[s].file_info = stream[s].file_info
    PROVE  DiskInv'
  BY DEF DiskInv, StreamNotOnDisk, StoredMatchesDisk

\* A pass over the directory keeps the index truthful.
LEMMA UpdateKeepsDiskInv ==
    ASSUME TypeOK, DiskInv, UNCHANGED <<disk, touched, stream>>,
           stored_files' = update_stored_files(stored_files, disk)
    PROVE  DiskInv'
  <1>1. \A n \in Names : stored_files'[n] # Absent =>
            stored_files'[n] = stored_files[n] \/ stored_files'[n] = disk[n]
    BY UpdateStored DEF TypeOK
  <1>2. open_sessions' = open_sessions
    BY DEF open_sessions
  <1> QED
    BY <1>1, <1>2 DEF DiskInv, StreamNotOnDisk, StoredMatchesDisk

\* The renamed file has the announced length, and that is what is indexed.
LEMMA FinalizeDiskStep ==
    ASSUME TypeOK, StreamInv, DiskInv, NEW s \in Sessions, finalize_file(s)
    PROVE  DiskInv'
  <1> DEFINE info == stream[s].file_info
             n == info.file_name
             base == IF stored_files[n] # Absent THEN stored_files
                     ELSE [stored_files EXCEPT ![n] = info.size]
  <1>1. /\ s \in open_sessions
        /\ n \in Names
        /\ info.size \in Nat
        /\ tmp[n] = info.size
    BY DEF finalize_file, StreamInv, StreamIsTmp, TypeOK, open_sessions, ofstream_wrapper,
       file_information
  <1>2. /\ disk' \in [Names -> Length]
        /\ disk'[n] = info.size
        /\ \A m \in Names \ {n} : disk'[m] = disk[m]
    BY <1>1 DEF finalize_file, TypeOK, Length
  <1>3. base \in [Names -> Length]
    BY <1>1 DEF TypeOK, Length
  <1>4. PICK S \in inserts(base) : stored_files' = update_stored_files(S, disk')
    BY DEF finalize_file
  <1>5. \A m \in Names : stored_files'[m] # Absent =>
            stored_files'[m] = base[m] \/ stored_files'[m] = disk'[m]
    BY <1>2, <1>3, <1>4, Inserts, UpdateStored
  <1>6. touched' = touched
    BY DEF finalize_file
  <1>7. StoredMatchesDisk'
    <2> SUFFICES ASSUME NEW m \in Names, m \notin touched, stored_files'[m] # Absent,
                        stored_files'[m] = base[m]
                 PROVE  disk'[m] = stored_files'[m]
      BY <1>5, <1>6 DEF StoredMatchesDisk
    <2>1. CASE m # n
      BY <1>1, <1>2, <2>1 DEF TypeOK, DiskInv, StoredMatchesDisk
    <2>2. CASE m = n
      <3>1. disk[n] = Absent
        BY <1>1, <2>2 DEF DiskInv, StreamNotOnDisk
      <3>2. stored_files[n] = Absent
        BY <3>1, <1>1, <2>2 DEF DiskInv, StoredMatchesDisk
      <3> QED
        BY <1>1, <1>2, <2>2, <3>2 DEF TypeOK
    <2> QED
      BY <2>1, <2>2
  <1>8. StreamNotOnDisk'
    <2> SUFFICES ASSUME NEW t \in open_sessions',
                        stream'[t].file_info.file_name \notin touched
                 PROVE  disk'[stream'[t].file_info.file_name] = Absent
      BY <1>6 DEF StreamNotOnDisk
    <2>1. t \in open_sessions \ {s} /\ stream'[t] = stream[t]
      BY DEF open_sessions, finalize_file, TypeOK
    <2>2. stream[t].file_info.file_name # n /\ stream[t].file_info.file_name \in Names
      BY <1>1, <2>1 DEF StreamInv, OneWriter, writes_to, open_sessions, TypeOK,
         ofstream_wrapper, file_information
    <2> QED
      BY <1>2, <2>1, <2>2 DEF DiskInv, StreamNotOnDisk
  <1> QED
    BY <1>7, <1>8 DEF DiskInv

LEMMA DiskStep == TypeOK /\ StreamInv /\ DiskInv /\ [Next]_vars => DiskInv'
  <1> SUFFICES ASSUME TypeOK, StreamInv, DiskInv, [Next]_vars PROVE DiskInv'
    OBVIOUS
  <1> USE FileHandlerAssumption
  <1>1. CASE init_storage \/ scan_done \/ user_mkdir \/ UNCHANGED vars
    <2>1. UNCHANGED <<disk, stored_files, touched, stream>>
      BY <1>1 DEF init_storage, scan_done, user_mkdir, vars, disk_vars, index_vars, write_vars
    <2> QED
      BY <2>1, DiskFrame DEF open_sessions
  <1>2. ASSUME NEW n \in Names, scan_entry(n)
        PROVE  DiskInv'
    <2>1. UNCHANGED <<disk, touched, stream>>
      BY <1>2 DEF scan_entry, disk_vars, write_vars
    <2>2. \A m \in Names : stored_files'[m] = stored_files[m] \/ stored_files'[m] = disk[m]
      BY <1>2 DEF scan_entry, TypeOK
    <2> QED
      BY <2>1, <2>2 DEF DiskInv, StreamNotOnDisk, StoredMatchesDisk, open_sessions
  <1>3. CASE read_file
    BY <1>3, UpdateKeepsDiskInv DEF read_file, disk_vars, write_vars
  <1>4. CASE \E h \in Hosts, list \in [Names -> Sizes \cup {Absent}] : add_available_files(h, list)
    BY <1>4, UpdateKeepsDiskInv DEF add_available_files, disk_vars, write_vars
  <1>5. ASSUME NEW s \in Sessions, NEW n \in Names, create_file(s, n)
        PROVE  DiskInv'
    <2> DEFINE new == [file_info |-> available_files[n].file_info, pos |-> open_tmp(n),
                       complete |-> FALSE]
    <2>1. /\ UNCHANGED <<disk, stored_files, touched>>
          /\ disk[n] = Absent
          /\ available_files[n].file_info.file_name = n
      BY <1>5 DEF create_file, index_vars, path_exists, TypeOK
    <2>2. /\ stream'[s].file_info.file_name = n
          /\ \A t \in Sessions \ {s} : stream'[t] = stream[t]
      BY <1>5, <2>1 DEF create_file, TypeOK
    <2> QED
      BY <2>1, <2>2 DEF DiskInv, StreamNotOnDisk, StoredMatchesDisk, open_sessions
  <1>6. ASSUME NEW s \in Sessions, write_chunk(s)
        PROVE  DiskInv'
    <2>1. UNCHANGED <<disk, stored_files, touched>>
      BY <1>6 DEF write_chunk, index_vars
    <2>2. /\ stream'[s].file_info = stream[s].file_info
          /\ stream[s] # Absent
          /\ \A t \in Sessions \ {s} : stream'[t] = stream[t]
      BY <1>6 DEF write_chunk, TypeOK
    <2> QED
      BY <2>1, <2>2, DiskFrame DEF open_sessions
  <1>7. CASE \E s \in Sessions : finalize_file(s)
    BY <1>7, FinalizeDiskStep
  <1>8. ASSUME NEW s \in Sessions, close_stream(s)
        PROVE  DiskInv'
    <2>1. /\ UNCHANGED <<disk, stored_files, touched>>
          /\ stream'[s] = Absent
          /\ \A t \in Sessions \ {s} : stream'[t] = stream[t]
      BY <1>8 DEF close_stream, disk_vars, index_vars, TypeOK
    <2> QED
      BY <2>1, DiskFrame DEF open_sessions
  <1>9. ASSUME NEW n \in Names, touch(n), UNCHANGED <<stored_files, stream>>,
               \A m \in Names \ {n} : disk'[m] = disk[m]
        PROVE  DiskInv'
    <2>1. \A m \in Names \ {n} : m \notin touched' => m \notin touched
      BY <1>9 DEF touch
    <2>2. n \notin touched' => /\ stored_files[n] = Absent
                              /\ \A s \in open_sessions : stream[s].file_info.file_name # n
      BY <1>9 DEF touch, in_use, writes_to, open_sessions
    <2>3. StoredMatchesDisk'
      BY <1>9, <2>1, <2>2 DEF DiskInv, StoredMatchesDisk
    <2>4. \A s \in open_sessions : stream[s].file_info.file_name \in Names
      BY DEF TypeOK, open_sessions, ofstream_wrapper, file_information
    <2>5. StreamNotOnDisk'
      BY <1>9, <2>1, <2>2, <2>4 DEF DiskInv, StreamNotOnDisk, open_sessions
    <2> QED
      BY <2>3, <2>5 DEF DiskInv
  <1>10. CASE \E n \in Names, size \in Sizes : user_add(n, size)
    BY <1>9, <1>10 DEF user_add, TypeOK, index_vars, write_vars
  <1>11. CASE \E n \in Names : user_remove(n)
    BY <1>9, <1>11 DEF user_remove, TypeOK, index_vars, write_vars
  <1>12. CASE user_rmdir
    <2>1. /\ open_sessions' = {}
          /\ touched' = touched \cup {n \in Names : in_use(n)}
          /\ stored_files' = stored_files
      BY <1>12 DEF user_rmdir, open_sessions, index_vars, write_vars
    <2> QED
      BY <2>1 DEF DiskInv, StreamNotOnDisk, StoredMatchesDisk, in_use
  <1>13. CASE crash
    <2>1. open_sessions' = {} /\ stored_files' = NoFile
      BY <1>13 DEF crash, open_sessions
    <2> QED
      BY <2>1 DEF DiskInv, StreamNotOnDisk, StoredMatchesDisk, NoFile
  <1> QED
    BY <1>1, <1>2, <1>3, <1>4, <1>5, <1>6, <1>7, <1>8, <1>10, <1>11, <1>12, <1>13 DEF Next

\* IInv is an inductive invariant of the specification.
THEOREM InductiveInvariant == Spec => []IInv
  <1>1. IInv /\ [Next]_vars => IInv'
    BY TypeStep, StreamStep, DiskStep DEF IInv, StreamInv, DiskInv
  <1> QED
    BY InitInvariant, <1>1, PTL DEF Spec

\* What the index lists is on disk with that length, unless the user changed it.
THEOREM StoredMatchesDiskAlways == Spec => []StoredMatchesDisk
  <1>1. IInv => StoredMatchesDisk
    BY DEF IInv
  <1> QED
    BY InductiveInvariant, <1>1, PTL

-----------------------------------------------------------------------------
(* What a step may never do *)

\* The program never replaces a file that was there before its download began.
THEOREM NeverOverwrites == Spec => NoOverwrite
  <1> DEFINE Kept == \A n \in Names \ touched :
                        disk[n] # Absent => disk'[n] \in {disk[n], Absent}
  <1>1. IInv /\ [Next]_vars => [Kept]_vars
    <2> SUFFICES ASSUME IInv, Next, NEW n \in Names, n \notin touched, disk[n] # Absent
                 PROVE  disk'[n] \in {disk[n], Absent}
      BY DEF vars, disk_vars
    <2> USE DEF IInv, TypeOK
    <2>1. ASSUME NEW s \in Sessions, finalize_file(s)
          PROVE  disk'[n] = disk[n]
      <3>1. stream[s].file_info.file_name # n
        BY <2>1 DEF finalize_file, StreamNotOnDisk, open_sessions
      <3> QED
        BY <2>1, <3>1 DEF finalize_file
    <2>2. CASE \E m \in Names, size \in Sizes : user_add(m, size)
      BY <2>2 DEF user_add
    <2>3. CASE \E m \in Names : user_remove(m)
      BY <2>3 DEF user_remove
    <2>4. CASE user_rmdir
      BY <2>4 DEF user_rmdir, NoFile
    <2>5. CASE \/ init_storage \/ (\E m \in Names : scan_entry(m)) \/ scan_done \/ read_file
               \/ (\E h \in Hosts, list \in [Names -> Sizes \cup {Absent}] : add_available_files(h, list))
               \/ (\E s \in Sessions, m \in Names : create_file(s, m))
               \/ (\E s \in Sessions : write_chunk(s)) \/ (\E s \in Sessions : close_stream(s))
               \/ user_mkdir \/ crash
      <3>1. disk' = disk
        BY <2>5 DEF init_storage, scan_entry, scan_done, read_file, add_available_files,
           create_file, write_chunk, close_stream, user_mkdir, crash, disk_vars
      <3> QED
        BY <3>1
    <2> QED
      BY <2>1, <2>2, <2>3, <2>4, <2>5 DEF Next
  <1> QED
    BY InductiveInvariant, <1>1, PTL DEF Spec, NoOverwrite

\* A chunk is always written where the received part of the file ends: the offset
\* create_file asks the peer to continue at is the length of the partial file, and
\* nobody else writes, truncates or replaces that file while the session lives.
THEOREM StreamIsTmpAlways == Spec => []StreamIsTmp
  <1>1. IInv => StreamIsTmp
    BY DEF IInv
  <1> QED
    BY <1>1, InductiveInvariant, PTL

\* Once an update has met no directory, the index takes in nothing but the
\* program's own downloads until the process ends, and takes nothing out.
THEOREM StuckIndexStaysStuckAlways == Spec => StuckIndexStaysStuck
  <1> DEFINE Stays == stuck /\ init_thread' # "start" =>
                  /\ stuck'
                  /\ \A n \in Names : stored_files'[n] # stored_files[n] =>
                         stored_files[n] = Absent /\ stored_files'[n] = disk'[n]
  <1>1. ASSUME IInv, Next, stuck, init_thread' # "start"
        PROVE  /\ stuck'
               /\ \A n \in Names : stored_files'[n] # stored_files[n] =>
                      stored_files[n] = Absent /\ stored_files'[n] = disk'[n]
    <2>1. ~can_update /\ init_thread = "done" /\ storage_init_is_in_progress
      BY <1>1 DEF stuck, can_update
    <2>2. \A S, d : update_stored_files(S, d) = S
      BY <2>1 DEF update_stored_files
    <2>3. progress_flag_after_update
      BY <2>1 DEF progress_flag_after_update
    <2>4. CASE \/ \E h \in Hosts, list \in [Names -> Sizes \cup {Absent}] : add_available_files(h, list)
               \/ read_file
      <3>1. /\ stored_files' = stored_files
            /\ storage_init_is_in_progress' = TRUE
            /\ init_thread' = init_thread
        BY <2>2, <2>3, <2>4 DEF add_available_files, read_file, init_vars
      <3> QED
        BY <2>1, <3>1 DEF stuck
    <2>5. ASSUME NEW s \in Sessions, finalize_file(s)
          PROVE  /\ stuck'
                 /\ \A n \in Names : stored_files'[n] # stored_files[n] =>
                        stored_files[n] = Absent /\ stored_files'[n] = disk'[n]
      <3> DEFINE info == stream[s].file_info
                 n == info.file_name
                 S == IF stored_files[n] # Absent THEN stored_files
                      ELSE [stored_files EXCEPT ![n] = info.size]
      <3>1. stuck'
        BY <2>1, <2>3, <2>5 DEF finalize_file, init_vars, stuck
      <3>2. stored_files' = S
        BY <2>1, <2>2, <2>5 DEF finalize_file, inserts
      <3>3. /\ s \in open_sessions /\ stream[s].complete
            /\ n \in Names
        BY <1>1, <2>5 DEF finalize_file, open_sessions, IInv, TypeOK, ofstream_wrapper,
                          file_information
      <3>4. disk'[n] = info.size
        <4>1. disk'[n] = tmp[n]
          BY <1>1, <2>5, <3>3 DEF finalize_file, IInv, TypeOK
        <4>2. tmp[n] = stream[s].pos /\ stream[s].pos = info.size
          BY <1>1, <3>3 DEF IInv, TypeOK, StreamIsTmp
        <4> QED
          BY <4>1, <4>2
      <3>5. \A m \in Names : stored_files'[m] # stored_files[m] =>
               m = n /\ stored_files[n] = Absent /\ stored_files'[n] = info.size
        BY <1>1, <3>2 DEF IInv, TypeOK
      <3> QED
        BY <3>1, <3>4, <3>5
    <2>6. CASE \/ \E s \in Sessions, n \in Names : create_file(s, n)
               \/ \E s \in Sessions : write_chunk(s) \/ close_stream(s)
               \/ \E n \in Names, size \in Sizes : user_add(n, size)
               \/ \E n \in Names : user_remove(n)
               \/ user_mkdir \/ user_rmdir
      <3>1. UNCHANGED <<stored_files, storage_init_is_in_progress, init_thread>>
        BY <2>6 DEF create_file, write_chunk, close_stream, user_add, user_remove, user_mkdir,
                    user_rmdir, index_vars, init_vars
      <3> QED
        BY <2>1, <3>1 DEF stuck
    <2>7. CASE init_storage \/ (\E n \in Names : scan_entry(n)) \/ scan_done \/ crash
      BY <1>1, <2>1, <2>7 DEF init_storage, scan_entry, scan_done, crash
    <2> QED
      BY <1>1, <2>4, <2>5, <2>6, <2>7 DEF Next
  <1>2. IInv /\ [Next]_vars => [Stays]_vars
    BY <1>1
  <1> QED
    BY <1>2, InductiveInvariant, PTL DEF Spec, StuckIndexStaysStuck

\* What has been received of a file is never thrown away.
THEOREM PartialsAreKept == Spec => PartialKept
  <1> DEFINE Kept == \A n \in Names : tmp[n] # Absent /\ root' =>
                        \/ tmp'[n] # Absent /\ tmp'[n] >= tmp[n]
                        \/ tmp'[n] = Absent /\ disk'[n] = tmp[n]
  <1>1. IInv /\ [Next]_vars => [Kept]_vars
    <2> SUFFICES ASSUME IInv, Next, NEW n \in Names, tmp[n] # Absent, root'
                 PROVE  \/ tmp'[n] # Absent /\ tmp'[n] >= tmp[n]
                        \/ tmp'[n] = Absent /\ disk'[n] = tmp[n]
      BY DEF vars
    <2> USE FileHandlerAssumption DEF IInv, TypeOK
    <2>0. tmp[n] \in Nat
      BY DEF Length
    <2>1. ASSUME NEW s \in Sessions, NEW m \in Names, create_file(s, m)
          PROVE  tmp'[n] = tmp[n]
      BY <2>1 DEF create_file, open_tmp
    <2>2. ASSUME NEW s \in Sessions, write_chunk(s)
          PROVE  tmp'[n] \in Nat /\ tmp'[n] >= tmp[n]
      <3>1. /\ stream[s].file_info.file_name \in Names
            /\ stream[s].pos \in Nat
            /\ tmp[stream[s].file_info.file_name] = stream[s].pos
        BY <2>2 DEF write_chunk, StreamIsTmp, open_sessions, ofstream_wrapper, file_information
      <3>2. CASE stream[s].file_info.file_name = n
        <4>1. tmp'[n] = tmp[n] + 1
          BY <2>2, <3>1, <3>2 DEF write_chunk
        <4> QED
          BY <2>0, <4>1
      <3>3. CASE stream[s].file_info.file_name # n
        <4>1. tmp'[n] = tmp[n]
          BY <2>2, <3>3 DEF write_chunk
        <4> QED
          BY <2>0, <4>1
      <3> QED
        BY <3>2, <3>3
    <2>3. ASSUME NEW s \in Sessions, finalize_file(s)
          PROVE  tmp'[n] = tmp[n] \/ (tmp'[n] = Absent /\ disk'[n] = tmp[n])
      BY <2>3 DEF finalize_file, ofstream_wrapper, file_information
    <2>4. CASE \/ init_storage \/ (\E m \in Names : scan_entry(m)) \/ scan_done \/ read_file
               \/ (\E h \in Hosts, list \in [Names -> Sizes \cup {Absent}] : add_available_files(h, list))
               \/ (\E s \in Sessions : close_stream(s))
               \/ (\E m \in Names, size \in Sizes : user_add(m, size))
               \/ (\E m \in Names : user_remove(m)) \/ user_mkdir \/ crash
      <3>1. tmp' = tmp
        BY <2>4 DEF init_storage, scan_entry, scan_done, read_file, add_available_files,
           close_stream, user_add, user_remove, user_mkdir, crash, disk_vars
      <3> QED
        BY <2>0, <3>1
    <2>5. CASE user_rmdir
      BY <2>5 DEF user_rmdir
    <2> HIDE FileHandlerAssumption DEF IInv, TypeOK
    <2>6. CASE \E s \in Sessions, m \in Names : create_file(s, m)
      BY <2>0, <2>1, <2>6
    <2>7. CASE \E s \in Sessions : write_chunk(s)
      BY <2>2, <2>7, FileHandlerAssumption
    <2>8. CASE \E s \in Sessions : finalize_file(s)
      BY <2>0, <2>3, <2>8
    <2> QED
      BY <2>4, <2>5, <2>6, <2>7, <2>8 DEF Next
  <1> QED
    BY InductiveInvariant, <1>1, PTL DEF Spec, PartialKept

=============================================================================
