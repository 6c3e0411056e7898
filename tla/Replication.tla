---------------------------- MODULE Replication ----------------------------
(***************************************************************************)
(* What a network of mfsync hosts promises of its files, without sessions, *)
(* announcements or partial files: a name a host has no file under gets    *)
(* one, from its user or from the other hosts, and keeps it. A file from   *)
(* the others is as long as one they have, and every chunk of it is at the *)
(* place where one of them has it.                                         *)
(***************************************************************************)
EXTENDS Naturals, Sequences

CONSTANTS
    Hosts, Names,
    Own,      \* Own[h][n]: the file h's user has under name n, or Absent
    Absent    \* no file of that name

VARIABLE files  \* files[h][n]: the chunks of host h's file n, or Absent

has(h, n) == files[h][n] # Absent

Init == files \in [Hosts -> [Names -> UNION {{Own[h][n] : h \in Hosts} : n \in Names} \cup {Absent}]]
        /\ \A h \in Hosts, n \in Names : files[h][n] \in {Own[h][n], Absent}

Add(h, n) ==
    /\ ~has(h, n)
    /\ Own[h][n] # Absent
    /\ files' = [files EXCEPT ![h][n] = Own[h][n]]

Copy(h, n) ==
    LET content == files'[h][n]
    IN  /\ ~has(h, n)
        /\ files' = [files EXCEPT ![h][n] = content]
        /\ content # Absent
        /\ \E g \in Hosts : has(g, n) /\ DOMAIN content = DOMAIN files[g][n]
        /\ \A i \in DOMAIN content :
              \E g \in Hosts : has(g, n) /\ i \in DOMAIN files[g][n]
                                         /\ content[i] = files[g][n][i]

Next == \E h \in Hosts, n \in Names : Add(h, n) \/ Copy(h, n)

Spec == Init /\ [][Next]_files

\* A file is as long as one that some user has under its name.
length_of_a_users_file(n, file) ==
    \E g \in Hosts : Own[g][n] # Absent /\ DOMAIN file = DOMAIN Own[g][n]

\* Chunk i of a file is chunk i of a file that some user has under its name.
chunk_of_a_user(n, i, content) ==
    \E g \in Hosts : Own[g][n] # Absent /\ i \in DOMAIN Own[g][n] /\ content = Own[g][n][i]

\* Nothing comes from nowhere and nothing goes to another place: even a file
\* that was copied from several hosts, of copies of copies, is made of chunks
\* users have under its name, each where they have it.
FilesAreFromUsers ==
    \A h \in Hosts, n \in Names : has(h, n) =>
        /\ length_of_a_users_file(n, files[h][n])
        /\ \A i \in DOMAIN files[h][n] : chunk_of_a_user(n, i, files[h][n][i])

\* A file a host has is never changed or lost.
FilesAreKept ==
    [][\A h \in Hosts, n \in Names : has(h, n) => files'[h][n] = files[h][n]]_files

=============================================================================
