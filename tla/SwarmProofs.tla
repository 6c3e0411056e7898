----------------------------- MODULE SwarmProofs -----------------------------
(***************************************************************************)
(* What holds of Swarm for any number of hosts, names, file lengths, broken*)
(* connections and restarts: types, that within a process's life a copy is *)
(* taken whole from one source, and that Swarm implements Replication.     *)
(***************************************************************************)
EXTENDS Swarm, SequenceTheorems, TLAPS

\* What a host keeps of a source stays true of it: files never change.
SourcesAreFiles ==
    \A h \in Hosts, n \in Names : available_files[h][n] # Absent =>
        has(source(h, n), n) /\ Len(files[source(h, n)][n]) = size(h, n)

\* Only what is lacking is received, and no more than the source has.
ReceivesWhatLacks ==
    \A h \in Hosts, n \in Names : receiving[h][n] =>
        ~has(h, n) /\ Len(partial[h][n]) <= size(h, n)

begins(part, file) == \A i \in DOMAIN part : i \in DOMAIN file /\ part[i] = file[i]

\* A partial file of this process is the beginning of its source's file.
ContinuesSource ==
    \A h \in Hosts, n \in Names : n \notin inherited[h] /\ partial[h][n] # <<>> =>
        available_files[h][n] # Absent /\ begins(partial[h][n], files[source(h, n)][n])

\* Any partial file has its chunks where some host has them.
in_place(h, n) ==
    \A i \in DOMAIN partial[h][n] : \E g \in Hosts :
        has(g, n) /\ i \in DOMAIN files[g][n] /\ partial[h][n][i] = files[g][n][i]

PartialsInPlace == \A h \in Hosts, n \in Names : in_place(h, n)

Holds == SourcesAreFiles /\ ReceivesWhatLacks /\ ContinuesSource /\ PartialsInPlace

IInv == TypeOK /\ Holds /\ CopiesAreWholeWithin

-----------------------------------------------------------------------------
(* Types *)

\* A function on an initial segment is a sequence.
LEMMA SegmentIsSeq ==
    ASSUME NEW S, NEW m \in Nat, NEW f \in [1..m -> S]
    PROVE  f \in Seq(S)
  OBVIOUS

\* What users share are files.
LEMMA OwnType == Own \in [Hosts -> [Names -> Files \cup {Absent}]]
  <1> SUFFICES ASSUME NEW h \in Hosts, NEW n \in Names, Shares[h][n] # Absent
               PROVE  [i \in 1..Shares[h][n] |-> chunk(h, i)] \in Files
    BY DEF Own
  <1>1. Shares[h][n] \in Nat
    BY SwarmAssumption
  <1>2. \A i \in 1..Shares[h][n] : chunk(h, i) \in [made_by : Hosts, at : Nat]
    BY <1>1 DEF chunk
  <1>3. [i \in 1..Shares[h][n] |-> chunk(h, i)] \in [1..Shares[h][n] -> [made_by : Hosts, at : Nat]]
    BY <1>2
  <1> QED
    BY <1>1, <1>3, SegmentIsSeq DEF Files

\* The invariant holds when the hosts come up.
LEMMA InitIInv == Init => IInv
  <1> SUFFICES ASSUME Init PROVE IInv
    OBVIOUS
  <1>1. files \in [Hosts -> [Names -> Files \cup {Absent}]]
    <2>1. \A h \in Hosts, n \in Names : files[h][n] \in Files \cup {Absent}
      BY OwnType DEF Init
    <2>2. files \in [Hosts -> [Names -> UNION {{Own[h][n] : h \in Hosts} : n \in Names} \cup {Absent}]]
      BY DEF Init
    <2> QED
      BY <2>1, <2>2
  <1>2. <<>> \in Files
    BY DEF Files
  <1>3. TypeOK
    BY <1>1, <1>2, SwarmAssumption DEF Init, TypeOK
  <1>4. Holds
    BY DEF Init, Holds, SourcesAreFiles, ReceivesWhatLacks, ContinuesSource, PartialsInPlace, in_place
  <1>5. CopiesAreWholeWithin
    BY DEF Init, CopiesAreWholeWithin, has, made_by_a_user
  <1> QED
    BY <1>3, <1>4, <1>5 DEF IInv

\* A session reads the chunk of its source that follows what it has.
LEMMA NextChunk ==
    ASSUME TypeOK, SourcesAreFiles, NEW h \in Hosts, NEW n \in Names,
           receiving[h][n], Len(partial[h][n]) < size(h, n)
    PROVE  LET file == files[source(h, n)][n]
               i == Len(partial[h][n]) + 1
           IN  /\ source(h, n) \in Hosts /\ has(source(h, n), n) /\ file \in Files
               /\ i \in DOMAIN file /\ next_chunk(h, n) = file[i]
               /\ next_chunk(h, n) \in [made_by : Hosts, at : Nat]
  <1> DEFINE file == files[source(h, n)][n]
  <1>1. available_files[h][n] # Absent
        /\ available_files[h][n] \in [size : Nat, source : Hosts] \cup {Absent}
    BY DEF TypeOK
  <1>2. source(h, n) \in Hosts /\ has(source(h, n), n) /\ Len(file) = size(h, n)
    BY <1>1 DEF SourcesAreFiles, source
  <1>3. file \in Files
    BY <1>2 DEF TypeOK, has
  <1>4. partial[h][n] \in Files
    BY DEF TypeOK
  <1>5. Len(partial[h][n]) + 1 \in DOMAIN file
    BY <1>2, <1>3, <1>4 DEF Files
  <1> QED
    <2>1. file[Len(partial[h][n]) + 1] \in [made_by : Hosts, at : Nat]
      BY <1>3, <1>5, ElementOfSeq, LenProperties DEF Files
    <2> QED
      BY <1>2, <1>3, <1>5, <2>1 DEF next_chunk

\* Every action keeps every variable in its type.
LEMMA TypeStep == TypeOK /\ Holds /\ [Next]_vars => TypeOK'
  <1> SUFFICES ASSUME TypeOK, Holds, [Next]_vars PROVE TypeOK'
    OBVIOUS
  <1> USE SwarmAssumption DEF has, source, size, is_complete
  <1>1. CASE UNCHANGED vars
    BY <1>1 DEF vars, TypeOK
  <1>2. ASSUME NEW h \in Hosts, NEW n \in Names, user_add(h, n) PROVE TypeOK'
    BY <1>2, OwnType DEF user_add, TypeOK
  <1>3. ASSUME NEW h \in Hosts, NEW g \in Hosts, add_available_files(h, g) PROVE TypeOK'
    <2>1. \A n \in Names : has(g, n) => [size |-> Len(files[g][n]), source |-> g] \in [size : Nat, source : Hosts]
      BY DEF TypeOK, Files
    <2>2. available_files' \in [Hosts -> [Names -> [size : Nat, source : Hosts] \cup {Absent}]]
      BY <1>3, <2>1 DEF add_available_files, available_or_new, TypeOK
    <2>3. \A k \in Hosts, n \in Names : available_files[k][n] # Absent =>
             available_files'[k][n] = available_files[k][n]
      BY <1>3 DEF add_available_files, available_or_new, TypeOK
    <2> QED
      BY <1>3, <2>2, <2>3 DEF add_available_files, TypeOK
  <1>4. ASSUME NEW h \in Hosts, NEW n \in Names, request_file(h, n) PROVE TypeOK'
    BY <1>4 DEF request_file, TypeOK
  <1>5. ASSUME NEW h \in Hosts, NEW n \in Names, read_chunk(h, n) PROVE TypeOK'
    <2>1. partial[h][n] \in Files
      BY DEF TypeOK
    <2>2. next_chunk(h, n) \in [made_by : Hosts, at : Nat]
      BY <1>5, NextChunk DEF read_chunk, Holds
    <2>3. Append(partial[h][n], next_chunk(h, n)) \in Files
          /\ Len(Append(partial[h][n], next_chunk(h, n))) = Len(partial[h][n]) + 1
      BY <2>1, <2>2 DEF Files
    <2>4. \A k \in Hosts, m \in Names : partial[k][m] \in Files
      BY DEF TypeOK
    <2>5. partial' \in [Hosts -> [Names -> Files]]
      BY <1>5, <2>3 DEF read_chunk, TypeOK
    <2>6. \A k \in Hosts, m \in Names : receiving[k][m] /\ is_complete(k, m) => is_complete(k, m)'
      BY <1>5, <2>1, <2>3 DEF read_chunk, TypeOK, Files
    <2> QED
      BY <1>5, <2>5, <2>6 DEF read_chunk, TypeOK
  <1>6. ASSUME NEW h \in Hosts, NEW n \in Names, finalize_file(h, n) PROVE TypeOK'
    <2>1. <<>> \in Files
      BY DEF Files
    <2>2. partial[h][n] \in Files
      BY DEF TypeOK
    <2> QED
      BY <1>6, <2>1, <2>2 DEF finalize_file, TypeOK
  <1>7. ASSUME NEW h \in Hosts, NEW n \in Names, connection_lost(h, n) PROVE TypeOK'
    BY <1>7 DEF connection_lost, TypeOK
  <1>8. ASSUME NEW h \in Hosts, restart(h) PROVE TypeOK'
    <2>1. available_files' \in [Hosts -> [Names -> [size : Nat, source : Hosts] \cup {Absent}]]
      BY <1>8 DEF restart, TypeOK
    <2>2. receiving' \in [Hosts -> [Names -> BOOLEAN]]
      BY <1>8 DEF restart, without, TypeOK
    <2>3. inherited' \in [Hosts -> SUBSET Names]
      BY <1>8 DEF restart, TypeOK
    <2>4. \A k \in Hosts, n \in Names : receiving'[k][n] =>
             receiving[k][n] /\ available_files'[k][n] = available_files[k][n]
      BY <1>8 DEF restart, without, TypeOK
    <2>5. \A k \in Hosts, n \in Names : receiving'[k][n] =>
             available_files'[k][n] # Absent
             /\ (source(k, n)' \in online' \/ is_complete(k, n)')
      BY <1>8, <2>4 DEF restart, TypeOK
    <2> QED
      BY <1>8, <2>1, <2>2, <2>3, <2>5 DEF restart, TypeOK
  <1>9. ASSUME NEW h \in Hosts, leave(h) PROVE TypeOK'
    BY <1>9 DEF leave, without, TypeOK
  <1> QED
    BY <1>1, <1>2, <1>3, <1>4, <1>5, <1>6, <1>7, <1>8, <1>9 DEF Next, session_step

-----------------------------------------------------------------------------
(* What hosts keep of each other *)

\* A file that a host has is never changed or lost.
LEMMA FilesKept ==
    ASSUME TypeOK, Holds, [Next]_vars, NEW g \in Hosts, NEW n \in Names, has(g, n)
    PROVE  files'[g][n] = files[g][n] /\ has(g, n)'
  <1> USE DEF has
  <1>1. ASSUME NEW h \in Hosts, NEW m \in Names, user_add(h, m) PROVE files'[g][n] = files[g][n]
    BY <1>1 DEF user_add, TypeOK
  <1>2. ASSUME NEW h \in Hosts, NEW m \in Names, finalize_file(h, m) PROVE files'[g][n] = files[g][n]
    BY <1>2 DEF finalize_file, TypeOK, Holds, ReceivesWhatLacks
  <1>3. CASE UNCHANGED files
    BY <1>3
  <1>4. \/ UNCHANGED files
        \/ \E h \in Hosts, m \in Names : user_add(h, m) \/ finalize_file(h, m)
    BY DEF Next, vars, add_available_files, session_step, request_file, read_chunk,
           connection_lost, restart, leave
  <1> QED
    BY <1>1, <1>2, <1>3, <1>4

\* A new entry is the announced file's size and source; entries do not change.
LEMMA EntriesKept ==
    ASSUME TypeOK, [Next]_vars, NEW h \in Hosts, NEW n \in Names, available_files'[h][n] # Absent
    PROVE  \/ available_files'[h][n] = available_files[h][n]
           \/ /\ available_files[h][n] = Absent
              /\ \E g \in Hosts : /\ has(g, n) /\ ~has(h, n) /\ UNCHANGED <<files, partial>>
                                  /\ available_files'[h][n] = [size |-> Len(files[g][n]), source |-> g]
  <1>1. ASSUME NEW k \in Hosts, NEW g \in Hosts, add_available_files(k, g)
        PROVE  \/ available_files'[h][n] = available_files[h][n]
               \/ /\ available_files[h][n] = Absent
                  /\ has(g, n) /\ ~has(h, n) /\ UNCHANGED <<files, partial>>
                  /\ available_files'[h][n] = [size |-> Len(files[g][n]), source |-> g]
    BY <1>1 DEF add_available_files, available_or_new, TypeOK
  <1>2. ASSUME NEW k \in Hosts, restart(k) PROVE available_files'[h][n] = available_files[h][n]
    BY <1>2 DEF restart, TypeOK
  <1>3. \/ UNCHANGED available_files
        \/ \E k, g \in Hosts : add_available_files(k, g)
        \/ \E k \in Hosts : restart(k)
    BY DEF Next, vars, user_add, session_step, request_file, read_chunk, finalize_file,
           connection_lost, leave
  <1> QED
    BY <1>1, <1>2, <1>3

\* What is kept of a source stays true.
LEMMA SourcesStep == TypeOK /\ Holds /\ [Next]_vars => SourcesAreFiles'
  <1> SUFFICES ASSUME TypeOK, Holds, [Next]_vars,
                      NEW h \in Hosts, NEW n \in Names, available_files'[h][n] # Absent
               PROVE  has(source(h, n), n)' /\ (Len(files[source(h, n)][n]) = size(h, n))'
    BY DEF SourcesAreFiles
  <1>1. CASE available_files'[h][n] = available_files[h][n]
    <2>1. source(h, n) \in Hosts /\ has(source(h, n), n) /\ Len(files[source(h, n)][n]) = size(h, n)
      BY <1>1 DEF Holds, SourcesAreFiles, TypeOK, source
    <2> QED
      BY <1>1, <2>1, FilesKept DEF source, size
  <1>2. CASE available_files'[h][n] # available_files[h][n]
    <2>1. PICK g \in Hosts : /\ has(g, n) /\ UNCHANGED files
                             /\ available_files'[h][n] = [size |-> Len(files[g][n]), source |-> g]
      BY <1>2, EntriesKept
    <2> QED
      BY <2>1 DEF source, size, has
  <1> QED
    BY <1>1, <1>2

\* A session asks for what is lacking and stops at the size it was told.
LEMMA ReceivesStep == TypeOK /\ Holds /\ [Next]_vars => ReceivesWhatLacks'
  <1> SUFFICES ASSUME TypeOK, Holds, [Next]_vars PROVE ReceivesWhatLacks'
    OBVIOUS
  <1> USE DEF Holds, has, size, TypeOK, ReceivesWhatLacks
  <1>0. \A k \in Hosts, m \in Names : Len(partial[k][m]) \in Nat
    BY DEF Files
  <1>1. CASE UNCHANGED vars
    BY <1>1 DEF vars
  <1>2. ASSUME NEW h \in Hosts, NEW n \in Names, user_add(h, n) PROVE ReceivesWhatLacks'
    BY <1>2 DEF user_add
  <1>3. ASSUME NEW h \in Hosts, NEW g \in Hosts, add_available_files(h, g) PROVE ReceivesWhatLacks'
    <2>1. \A k \in Hosts, n \in Names : available_files[k][n] # Absent =>
             available_files'[k][n] = available_files[k][n]
      BY <1>3 DEF add_available_files, available_or_new
    <2>2. UNCHANGED <<files, partial, receiving>>
      BY <1>3 DEF add_available_files
    <2> QED
      BY <2>1, <2>2
  <1>4. ASSUME NEW h \in Hosts, NEW n \in Names, request_file(h, n) PROVE ReceivesWhatLacks'
    <2>1. size(h, n) \in Nat
      BY <1>4 DEF request_file
    <2> QED
      BY <1>0, <1>4, <2>1 DEF request_file
  <1>5. ASSUME NEW h \in Hosts, NEW n \in Names, read_chunk(h, n) PROVE ReceivesWhatLacks'
    <2>1. Len(Append(partial[h][n], next_chunk(h, n))) = Len(partial[h][n]) + 1
      BY <1>5, NextChunk, AppendProperties DEF Files, read_chunk
    <2>2. size(h, n) \in Nat
      BY <1>5 DEF read_chunk
    <2> QED
      BY <1>0, <1>5, <2>1, <2>2 DEF read_chunk
  <1>6. ASSUME NEW h \in Hosts, NEW n \in Names, finalize_file(h, n) PROVE ReceivesWhatLacks'
    BY <1>6 DEF finalize_file
  <1>7. ASSUME NEW h \in Hosts, NEW n \in Names, connection_lost(h, n) PROVE ReceivesWhatLacks'
    BY <1>7 DEF connection_lost
  <1>8. ASSUME NEW h \in Hosts, restart(h) PROVE ReceivesWhatLacks'
    BY <1>8 DEF restart, without
  <1>9. ASSUME NEW h \in Hosts, leave(h) PROVE ReceivesWhatLacks'
    BY <1>9 DEF leave, without
  <1> QED
    BY <1>1, <1>2, <1>3, <1>4, <1>5, <1>6, <1>7, <1>8, <1>9 DEF Next, session_step

-----------------------------------------------------------------------------
(* Partial files *)

\* A partial file stays as it is, becomes a file, or grows by its source's next chunk.
LEMMA PartialGrows ==
    ASSUME TypeOK, Holds, [Next]_vars, NEW h \in Hosts, NEW n \in Names
    PROVE  \/ partial'[h][n] = partial[h][n]
           \/ partial'[h][n] = <<>>
           \/ /\ read_chunk(h, n)
              /\ partial[h][n] \in Files
              /\ partial'[h][n] = Append(partial[h][n], files[source(h, n)][n][Len(partial[h][n]) + 1])
              /\ Len(partial[h][n]) + 1 \in DOMAIN files[source(h, n)][n]
              /\ has(source(h, n), n) /\ source(h, n) \in Hosts
              /\ available_files[h][n] # Absent
              /\ DOMAIN partial'[h][n] = 1..(Len(partial[h][n]) + 1)
              /\ partial'[h][n][Len(partial[h][n]) + 1] = files[source(h, n)][n][Len(partial[h][n]) + 1]
              /\ \A i \in DOMAIN partial[h][n] : partial'[h][n][i] = partial[h][n][i]
              /\ DOMAIN partial[h][n] = 1..Len(partial[h][n])
              /\ Len(partial[h][n]) \in Nat
  <1>1. ASSUME NEW k \in Hosts, NEW m \in Names, finalize_file(k, m)
        PROVE  partial'[h][n] = partial[h][n] \/ partial'[h][n] = <<>>
    BY <1>1 DEF finalize_file, TypeOK
  <1>2. ASSUME NEW k \in Hosts, NEW m \in Names, read_chunk(k, m), k # h \/ m # n
        PROVE  partial'[h][n] = partial[h][n]
    BY <1>2 DEF read_chunk, TypeOK
  <1>3. CASE read_chunk(h, n)
    <2>1. partial[h][n] \in Files
      BY DEF TypeOK
    <2>2. /\ source(h, n) \in Hosts /\ has(source(h, n), n)
          /\ Len(partial[h][n]) + 1 \in DOMAIN files[source(h, n)][n]
          /\ next_chunk(h, n) = files[source(h, n)][n][Len(partial[h][n]) + 1]
          /\ next_chunk(h, n) \in [made_by : Hosts, at : Nat]
      BY <1>3, NextChunk DEF read_chunk, Holds
    <2>3. partial'[h][n] = Append(partial[h][n], next_chunk(h, n))
      BY <1>3 DEF read_chunk, TypeOK
    <2>4. available_files[h][n] # Absent
      BY <1>3 DEF read_chunk, TypeOK
    <2>5. /\ Len(partial[h][n]) \in Nat /\ DOMAIN partial[h][n] = 1..Len(partial[h][n])
      BY <2>1, LenProperties DEF Files
    <2>6. /\ DOMAIN partial'[h][n] = 1..(Len(partial[h][n]) + 1)
          /\ partial'[h][n][Len(partial[h][n]) + 1] = next_chunk(h, n)
          /\ \A i \in 1..Len(partial[h][n]) : partial'[h][n][i] = partial[h][n][i]
      <3> DEFINE Chunk == [made_by : Hosts, at : Nat]
                 next == next_chunk(h, n)
      <3>1. partial[h][n] \in Seq(Chunk) /\ next \in Chunk
        BY <2>1, <2>2 DEF Files
      <3> HIDE DEF Chunk, next
      <3>2. /\ Append(partial[h][n], next) \in Seq(Chunk)
            /\ Len(Append(partial[h][n], next)) = Len(partial[h][n]) + 1
            /\ Append(partial[h][n], next)[Len(partial[h][n]) + 1] = next
            /\ \A i \in 1..Len(partial[h][n]) :
                  Append(partial[h][n], next)[i] = partial[h][n][i]
        BY <3>1, AppendProperties
      <3>3. DOMAIN Append(partial[h][n], next) = 1..(Len(partial[h][n]) + 1)
        BY <3>2, LenProperties
      <3> QED
        BY <2>3, <3>2, <3>3 DEF next
    <2> QED
      BY <1>3, <2>1, <2>2, <2>3, <2>4, <2>5, <2>6
  <1>4. \/ UNCHANGED partial
        \/ \E k \in Hosts, m \in Names : read_chunk(k, m) \/ finalize_file(k, m)
    BY DEF Next, vars, add_available_files, user_add, session_step, request_file,
           connection_lost, restart, leave
  <1> QED
    BY <1>1, <1>2, <1>3, <1>4

\* Nothing takes a name out of the history.
LEMMA InheritedGrows ==
    ASSUME TypeOK, [Next]_vars, NEW h \in Hosts, NEW n \in Names, n \notin inherited'[h]
    PROVE  n \notin inherited[h]
  <1>1. ASSUME NEW k \in Hosts, restart(k) PROVE n \notin inherited[h]
    <2>1. inherited' = [inherited EXCEPT ![k] = @ \cup {m \in Names : partial[k][m] # <<>>}]
      BY <1>1 DEF restart
    <2>2. inherited \in [Hosts -> SUBSET Names]
      BY DEF TypeOK
    <2> QED
      BY <2>1, <2>2
  <1>2. CASE UNCHANGED inherited
    BY <1>2
  <1> QED
    BY <1>1, <1>2 DEF Next, vars, add_available_files, user_add, session_step, request_file,
                      read_chunk, finalize_file, connection_lost, leave

\* A process goes on with its partial files where their source has more: the
\* entry keeps the source until the process ends, when the file is inherited.
LEMMA ContinuesStep == TypeOK /\ Holds /\ [Next]_vars => ContinuesSource'
  <1> SUFFICES ASSUME TypeOK, Holds, [Next]_vars, NEW h \in Hosts, NEW n \in Names,
                      n \notin inherited'[h], partial'[h][n] # <<>>
               PROVE  /\ available_files'[h][n] # Absent
                      /\ begins(partial'[h][n], files'[source(h, n)'][n])
    BY DEF ContinuesSource, source
  <1>1. n \notin inherited[h]
    BY InheritedGrows
  <1>2. partial[h][n] # <<>> => /\ available_files[h][n] # Absent
                                /\ begins(partial[h][n], files[source(h, n)][n])
    BY <1>1 DEF Holds, ContinuesSource
  <1>3. available_files[h][n] # Absent => available_files'[h][n] = available_files[h][n]
    <2>1. ASSUME NEW k \in Hosts, restart(k), available_files[h][n] # Absent
          PROVE  available_files'[h][n] = available_files[h][n]
      <3>1. UNCHANGED partial
        BY <2>1 DEF restart
      <3>2. k # h
        BY <2>1, <3>1 DEF restart, TypeOK
      <3> QED
        BY <2>1, <3>2 DEF restart, TypeOK
    <2>2. ASSUME NEW k \in Hosts, NEW g \in Hosts, add_available_files(k, g),
                 available_files[h][n] # Absent
          PROVE  available_files'[h][n] = available_files[h][n]
      BY <2>2 DEF add_available_files, available_or_new, TypeOK
    <2> QED
      BY <2>1, <2>2 DEF Next, vars, user_add, session_step, request_file, read_chunk,
                        finalize_file, connection_lost, leave
  <1>4. ASSUME available_files[h][n] # Absent
        PROVE  /\ source(h, n)' = source(h, n)
               /\ files'[source(h, n)][n] = files[source(h, n)][n]
    <2>1. source(h, n) \in Hosts /\ has(source(h, n), n)
      BY <1>4 DEF Holds, SourcesAreFiles, TypeOK, source
    <2> QED
      BY <1>3, <1>4, <2>1, FilesKept DEF source
  <1>5. CASE partial'[h][n] = partial[h][n]
    BY <1>2, <1>3, <1>4, <1>5
  <1>6. CASE partial'[h][n] # partial[h][n]
    <2> DEFINE i == Len(partial[h][n]) + 1
               file == files[source(h, n)][n]
    <2>1. /\ available_files[h][n] # Absent
          /\ i \in DOMAIN file
          /\ DOMAIN partial'[h][n] = 1..i
          /\ partial'[h][n][i] = file[i]
          /\ \A j \in DOMAIN partial[h][n] : partial'[h][n][j] = partial[h][n][j]
          /\ DOMAIN partial[h][n] = 1..Len(partial[h][n])
          /\ Len(partial[h][n]) \in Nat
      BY <1>6, PartialGrows
    <2>2. begins(partial[h][n], file)
      <3>1. CASE partial[h][n] = <<>>
        BY <3>1 DEF begins
      <3> QED
        BY <1>2, <3>1
    <2>3. begins(partial'[h][n], file)
      <3>1. \A j \in 1..i : j = i \/ j \in 1..Len(partial[h][n])
        BY <2>1
      <3> QED
        BY <2>1, <2>2, <3>1 DEF begins
    <2> QED
      BY <1>3, <1>4, <2>1, <2>3
  <1> QED
    BY <1>5, <1>6

\* Chunks are put where their source has them, and stay there.
LEMMA InPlaceStep == TypeOK /\ Holds /\ [Next]_vars => PartialsInPlace'
  <1> SUFFICES ASSUME TypeOK, Holds, [Next]_vars, NEW h \in Hosts, NEW n \in Names
               PROVE  in_place(h, n)'
    BY DEF PartialsInPlace
  <1>1. in_place(h, n)
    BY DEF Holds, PartialsInPlace
  <1>2. ASSUME NEW c, NEW i, \E g \in Hosts : has(g, n) /\ i \in DOMAIN files[g][n] /\ c = files[g][n][i]
        PROVE  \E g \in Hosts : has(g, n)' /\ i \in DOMAIN files'[g][n] /\ c = files'[g][n][i]
    BY <1>2, FilesKept
  <1>3. CASE partial'[h][n] = partial[h][n]
    BY <1>1, <1>2, <1>3 DEF in_place
  <1>4. CASE partial'[h][n] = <<>>
    BY <1>4 DEF in_place
  <1>5. CASE partial'[h][n] # partial[h][n] /\ partial'[h][n] # <<>>
    <2> DEFINE j == Len(partial[h][n]) + 1
    <2>1. /\ j \in DOMAIN files[source(h, n)][n]
          /\ has(source(h, n), n) /\ source(h, n) \in Hosts
          /\ DOMAIN partial'[h][n] = 1..j
          /\ partial'[h][n][j] = files[source(h, n)][n][j]
          /\ \A i \in DOMAIN partial[h][n] : partial'[h][n][i] = partial[h][n][i]
          /\ DOMAIN partial[h][n] = 1..Len(partial[h][n])
          /\ Len(partial[h][n]) \in Nat
      BY <1>5, PartialGrows
    <2>2. ASSUME NEW i \in DOMAIN partial'[h][n]
          PROVE  \E g \in Hosts : has(g, n) /\ i \in DOMAIN files[g][n] /\ partial'[h][n][i] = files[g][n][i]
      <3>1. CASE i = j
        BY <2>1, <3>1
      <3>2. CASE i # j
        <4>1. i \in DOMAIN partial[h][n]
          BY <2>1, <2>2, <3>2
        <4> QED
          BY <1>1, <2>1, <4>1 DEF in_place
      <3> QED
        BY <3>1, <3>2
    <2> QED
      BY <1>2, <2>2 DEF in_place
  <1> QED
    BY <1>3, <1>4, <1>5

-----------------------------------------------------------------------------
(* Copies *)

\* A finished file is as long as its source's, and one whose partial file was
\* not inherited is its source's file.
LEMMA Finalized ==
    ASSUME TypeOK, Holds, NEW h \in Hosts, NEW n \in Names, finalize_file(h, n)
    PROVE  /\ ~has(h, n) /\ files' = [files EXCEPT ![h][n] = partial[h][n]]
           /\ partial[h][n] \in Files
           /\ source(h, n) \in Hosts /\ has(source(h, n), n)
           /\ files[source(h, n)][n] \in Files
           /\ DOMAIN partial[h][n] = DOMAIN files[source(h, n)][n]
           /\ n \notin inherited[h] => partial[h][n] = files[source(h, n)][n]
  <1> DEFINE file == files[source(h, n)][n]
  <1>1. available_files[h][n] # Absent /\ source(h, n) \in Hosts /\ size(h, n) \in Nat
    BY DEF finalize_file, TypeOK, source, size
  <1>2. has(source(h, n), n) /\ Len(file) = size(h, n)
    BY <1>1 DEF Holds, SourcesAreFiles
  <1>3. file \in Files /\ partial[h][n] \in Files
    BY <1>1, <1>2 DEF TypeOK, has
  <1>4. Len(partial[h][n]) = Len(file)
    <2>1. Len(partial[h][n]) \in Nat /\ Len(partial[h][n]) <= size(h, n)
      BY <1>3 DEF finalize_file, Holds, ReceivesWhatLacks, Files
    <2> QED
      BY <1>1, <1>2, <2>1 DEF finalize_file, is_complete
  <1>5. DOMAIN partial[h][n] = DOMAIN file
    BY <1>3, <1>4, LenProperties DEF Files
  <1>6. ASSUME n \notin inherited[h] PROVE partial[h][n] = file
    <2>1. begins(partial[h][n], file)
      <3>1. CASE partial[h][n] = <<>>
        BY <3>1 DEF begins
      <3> QED
        BY <1>6, <3>1 DEF Holds, ContinuesSource
    <2>2. \A i \in 1..Len(partial[h][n]) : partial[h][n][i] = file[i]
      BY <1>3, <2>1, LenProperties DEF begins, Files
    <2> QED
      BY <1>3, <1>4, <2>2, SeqEqual DEF Files
  <1> QED
    BY <1>1, <1>2, <1>3, <1>5, <1>6 DEF finalize_file, Holds, ReceivesWhatLacks

\* A copy of a whole file is whole.
LEMMA CopiesStep == IInv /\ [Next]_vars => CopiesAreWholeWithin'
  <1> SUFFICES ASSUME IInv, [Next]_vars, NEW n \in Names,
                      \A h \in Hosts : n \notin inherited'[h],
                      NEW k \in Hosts, has(k, n)'
               PROVE  made_by_a_user(n, files'[k][n])
    BY DEF CopiesAreWholeWithin, made_by_a_user
  <1> USE DEF has
  <1>1. \A h \in Hosts : n \notin inherited[h]
    BY InheritedGrows DEF IInv
  <1>2. \A h \in Hosts : has(h, n) => made_by_a_user(n, files[h][n])
    BY <1>1 DEF IInv, CopiesAreWholeWithin
  <1>3. CASE has(k, n)
    BY <1>2, <1>3, FilesKept DEF IInv
  <1>4. CASE ~has(k, n)
    <2>1. ASSUME NEW h \in Hosts, NEW m \in Names, user_add(h, m)
          PROVE  made_by_a_user(n, files'[k][n])
      BY <1>4, <2>1 DEF user_add, IInv, TypeOK, made_by_a_user
    <2>2. ASSUME NEW h \in Hosts, NEW m \in Names, finalize_file(h, m)
          PROVE  made_by_a_user(n, files'[k][n])
      <3>1. h = k /\ m = n
        BY <1>4, <2>2 DEF finalize_file, IInv, TypeOK
      <3>2. /\ files' = [files EXCEPT ![k][n] = partial[k][n]]
            /\ source(k, n) \in Hosts /\ has(source(k, n), n)
            /\ partial[k][n] = files[source(k, n)][n]
        BY <1>1, <2>2, <3>1, Finalized DEF IInv
      <3>3. files'[k][n] = files[source(k, n)][n]
        BY <3>2 DEF IInv, TypeOK
      <3> QED
        BY <1>2, <3>2, <3>3
    <2>3. CASE UNCHANGED files
      BY <1>4, <2>3
    <2> QED
      BY <2>1, <2>2, <2>3 DEF Next, vars, add_available_files, session_step, request_file,
                              read_chunk, connection_lost, restart, leave
  <1> QED
    BY <1>3, <1>4

-----------------------------------------------------------------------------
(* The theorems *)

\* The invariant that carries the properties.
THEOREM InductiveInvariant == Spec => []IInv
  <1>1. Init => IInv
    BY InitIInv
  <1>2. IInv /\ [Next]_vars => IInv'
    BY TypeStep, SourcesStep, ReceivesStep, ContinuesStep, InPlaceStep, CopiesStep DEF IInv, Holds
  <1> QED
    BY <1>1, <1>2, PTL DEF Spec

\* Types hold for any number of hosts, names, faults and restarts.
THEOREM TypeCorrect == Spec => []TypeOK
  <1>1. IInv => TypeOK
    BY DEF IInv
  <1> QED
    BY <1>1, InductiveInvariant, PTL

\* Whatever breaks and whoever leaves, a name that no process took over from an
\* earlier one is everywhere a file some user shared (file_handler.cpp: the
\* source a name has is never exchanged while the process lives).
THEOREM CopiesAreWholeWithinAlways == Spec => []CopiesAreWholeWithin
  <1>1. IInv => CopiesAreWholeWithin
    BY DEF IInv
  <1> QED
    BY <1>1, InductiveInvariant, PTL

\* A step of Swarm adds a file, copies one, or leaves the files alone.
LEMMA StepReplicates == IInv /\ [Next]_vars => [R!Next]_files
  <1> SUFFICES ASSUME IInv, [Next]_vars PROVE [R!Next]_files
    OBVIOUS
  <1>1. ASSUME NEW h \in Hosts, NEW n \in Names, user_add(h, n) PROVE R!Next
    BY <1>1 DEF user_add, has, R!Next, R!Add, R!has
  <1>2. ASSUME NEW h \in Hosts, NEW n \in Names, finalize_file(h, n) PROVE R!Next
    <2>1. /\ ~has(h, n) /\ files' = [files EXCEPT ![h][n] = partial[h][n]]
          /\ partial[h][n] \in Files
          /\ source(h, n) \in Hosts /\ has(source(h, n), n)
          /\ DOMAIN partial[h][n] = DOMAIN files[source(h, n)][n]
      BY <1>2, Finalized DEF IInv
    <2>2. files'[h][n] = partial[h][n]
      BY <2>1 DEF IInv, TypeOK
    <2>3. partial[h][n] # Absent
      BY <2>1, SwarmAssumption
    <2>4. in_place(h, n)
      BY DEF IInv, Holds, PartialsInPlace
    <2>5. R!Copy(h, n)
      BY <2>1, <2>2, <2>3, <2>4 DEF R!Copy, R!has, has, in_place
    <2> QED
      BY <2>5 DEF R!Next
  <1>3. CASE UNCHANGED files
    BY <1>3
  <1> QED
    BY <1>1, <1>2, <1>3 DEF Next, vars, add_available_files, session_step, request_file,
                            read_chunk, connection_lost, restart, leave

\* Sessions, restarts and all, Swarm does to the files what Replication allows.
THEOREM SwarmImplementsReplication == Spec => ImplementsReplication
  <1>1. Init => R!Init
    BY DEF Init, R!Init
  <1> QED
    BY <1>1, StepReplicates, InductiveInvariant, PTL DEF Spec, ImplementsReplication, R!Spec

-----------------------------------------------------------------------------
(* What ReplicationProofs proves of Replication holds of Swarm *)

RP == INSTANCE ReplicationProofs

\* The names of RP and those of R stand for the same formulas.
LEMMA SameReplication ==
    /\ RP!Init <=> R!Init
    /\ [RP!Next]_files <=> [R!Next]_files
    /\ RP!FilesAreFromUsers <=> R!FilesAreFromUsers
  BY DEF RP!Init, R!Init, RP!Next, R!Next, RP!Add, R!Add, RP!Copy, R!Copy, RP!has, R!has,
         RP!FilesAreFromUsers, R!FilesAreFromUsers, RP!length_of_a_users_file,
         R!length_of_a_users_file, RP!chunk_of_a_user, R!chunk_of_a_user

\* Whatever is mixed with whatever after restarts, no chunk is in a file that is
\* not some user's, or at another place than there.
THEOREM NothingInventedAlways == Spec => []NothingInvented
  <1>1. R!Spec => RP!Spec
    BY SameReplication, PTL DEF R!Spec, RP!Spec
  <1>2. RP!Spec => []RP!FilesAreFromUsers
    BY RP!FilesAreAlwaysFromUsers
  <1> QED
    BY <1>1, <1>2, SameReplication, SwarmImplementsReplication, PTL
    DEF ImplementsReplication, NothingInvented

\* A file that a host has stays as it is, through all sessions and restarts.
THEOREM FilesAreKeptAlways ==
    Spec => [][\A h \in Hosts, n \in Names : has(h, n) => files'[h][n] = files[h][n]]_files
  <1>1. R!Spec => RP!Spec
    BY SameReplication, PTL DEF R!Spec, RP!Spec
  <1>2. RP!Spec => RP!FilesAreKept
    BY RP!FilesAreAlwaysKept
  <1>3. [\A h \in Hosts, n \in Names : RP!has(h, n) => files'[h][n] = files[h][n]]_files
        => [\A h \in Hosts, n \in Names : has(h, n) => files'[h][n] = files[h][n]]_files
    BY DEF RP!has, has
  <1> QED
    BY <1>1, <1>2, <1>3, SwarmImplementsReplication, PTL
    DEF ImplementsReplication, RP!FilesAreKept
=============================================================================
