------------------------- MODULE ReplicationProofs -------------------------
(***************************************************************************)
(* What follows from Replication, for any hosts, names and files: however  *)
(* often files are copied on, all that is in them is what users have, and  *)
(* nothing is lost. Swarm implements Replication, so both hold of it.      *)
(***************************************************************************)
EXTENDS Replication, TLAPS

\* There is a file or none for every host and name, and nothing else.
Table == files = [h \in Hosts |-> [n \in Names |-> files[h][n]]]

IInv == Table /\ FilesAreFromUsers

\* What users have is from users.
LEMMA OwnIsFromUser ==
    ASSUME NEW h \in Hosts, NEW n \in Names, Own[h][n] # Absent
    PROVE  /\ length_of_a_users_file(n, Own[h][n])
           /\ \A i \in DOMAIN Own[h][n] : chunk_of_a_user(n, i, Own[h][n][i])
  BY DEF length_of_a_users_file, chunk_of_a_user

LEMMA InitIInv == Init => IInv
  <1> SUFFICES ASSUME Init PROVE IInv
    OBVIOUS
  <1>1. Table
    BY DEF Init, Table
  <1>2. ASSUME NEW h \in Hosts, NEW n \in Names, has(h, n)
        PROVE  files[h][n] = Own[h][n] /\ Own[h][n] # Absent
    BY <1>2 DEF Init, has
  <1> QED
    BY <1>1, <1>2, OwnIsFromUser DEF IInv, FilesAreFromUsers

\* A step gives one host a file it did not have, and leaves the others alone.
LEMMA OneFileAppears ==
    ASSUME Table, NEW h \in Hosts, NEW n \in Names, Add(h, n) \/ Copy(h, n)
    PROVE  /\ ~has(h, n)
           /\ Table'
           /\ \A g \in Hosts, m \in Names :
                 g # h \/ m # n => files'[g][m] = files[g][m]
  <1>1. PICK content : ~has(h, n) /\ files' = [files EXCEPT ![h][n] = content]
    <2>1. CASE Add(h, n)
      BY <2>1 DEF Add
    <2>2. CASE Copy(h, n)
      BY <2>2 DEF Copy
    <2> QED
      BY <2>1, <2>2
  <1>2. files' = [g \in Hosts |-> [m \in Names |-> IF g = h /\ m = n THEN content
                                                   ELSE files[g][m]]]
    BY <1>1 DEF Table
  <1>3. \A g \in Hosts, m \in Names :
           files'[g][m] = IF g = h /\ m = n THEN content ELSE files[g][m]
    BY <1>2
  <1>4. files' = [g \in Hosts |-> [m \in Names |-> files'[g][m]]]
    BY <1>2, <1>3
  <1> QED
    BY <1>1, <1>3, <1>4 DEF Table

\* What the new file is made of.
LEMMA NewFileIsFromUsers ==
    ASSUME IInv, NEW h \in Hosts, NEW n \in Names, Add(h, n) \/ Copy(h, n)
    PROVE  /\ length_of_a_users_file(n, files'[h][n])
           /\ \A i \in DOMAIN files'[h][n] : chunk_of_a_user(n, i, files'[h][n][i])
  <1>1. CASE Add(h, n)
    <2>1. files'[h][n] = Own[h][n] /\ Own[h][n] # Absent
      BY <1>1 DEF Add, IInv, Table
    <2> QED
      BY <2>1, OwnIsFromUser
  <1>2. CASE Copy(h, n)
    <2>1. PICK g \in Hosts : has(g, n) /\ DOMAIN files'[h][n] = DOMAIN files[g][n]
      BY <1>2 DEF Copy
    <2>2. length_of_a_users_file(n, files'[h][n])
      BY <2>1 DEF IInv, FilesAreFromUsers, length_of_a_users_file
    <2>3. ASSUME NEW i \in DOMAIN files'[h][n]
          PROVE  chunk_of_a_user(n, i, files'[h][n][i])
      <3>1. PICK k \in Hosts : has(k, n) /\ i \in DOMAIN files[k][n]
                               /\ files'[h][n][i] = files[k][n][i]
        BY <1>2, <2>3 DEF Copy
      <3> QED
        BY <3>1 DEF IInv, FilesAreFromUsers
    <2> QED
      BY <2>2, <2>3
  <1> QED
    BY <1>1, <1>2

LEMMA StepKeepsIInv == IInv /\ [Next]_files => IInv'
  <1> SUFFICES ASSUME IInv, [Next]_files PROVE IInv'
    OBVIOUS
  <1>1. ASSUME NEW h \in Hosts, NEW n \in Names, Add(h, n) \/ Copy(h, n) PROVE IInv'
    <2>1. /\ Table'
          /\ \A g \in Hosts, m \in Names : g # h \/ m # n => files'[g][m] = files[g][m]
      BY <1>1, OneFileAppears DEF IInv
    <2>2. ASSUME NEW g \in Hosts, NEW m \in Names, has(g, m)'
          PROVE  /\ length_of_a_users_file(m, files'[g][m])
                 /\ \A i \in DOMAIN files'[g][m] : chunk_of_a_user(m, i, files'[g][m][i])
      <3>1. CASE g = h /\ m = n
        BY <1>1, <3>1, NewFileIsFromUsers
      <3>2. CASE g # h \/ m # n
        BY <2>1, <2>2, <3>2 DEF has, IInv, FilesAreFromUsers
      <3> QED
        BY <3>1, <3>2
    <2> QED
      BY <2>1, <2>2 DEF IInv, FilesAreFromUsers, length_of_a_users_file, chunk_of_a_user
  <1>2. CASE UNCHANGED files
    BY <1>2 DEF IInv, Table, FilesAreFromUsers, has, length_of_a_users_file, chunk_of_a_user
  <1> QED
    BY <1>1, <1>2 DEF Next

\* Copies of copies, put together from whichever hosts, hold nothing that is not
\* some user's, each chunk in its place.
THEOREM FilesAreAlwaysFromUsers == Spec => []FilesAreFromUsers
  <1>1. IInv => FilesAreFromUsers
    BY DEF IInv
  <1> QED
    BY <1>1, InitIInv, StepKeepsIInv, PTL DEF Spec

\* What a host has it keeps as it is.
THEOREM FilesAreAlwaysKept == Spec => FilesAreKept
  <1>1. IInv /\ [Next]_files =>
            [\A h \in Hosts, n \in Names : has(h, n) => files'[h][n] = files[h][n]]_files
    <2> SUFFICES ASSUME IInv, NEW h \in Hosts, NEW n \in Names, Add(h, n) \/ Copy(h, n),
                        NEW g \in Hosts, NEW m \in Names, has(g, m)
                 PROVE  files'[g][m] = files[g][m]
      BY DEF Next
    <2> QED
      BY OneFileAppears DEF IInv
  <1> QED
    BY <1>1, InitIInv, StepKeepsIInv, PTL DEF Spec, FilesAreKept
=============================================================================
