------------------------------ MODULE Transfer ------------------------------
(***************************************************************************)
(* One file on its way from a server_session to a client_session: the      *)
(* messages on the TCP connection, the stream_buffer_ behind               *)
(* async_read_until, the per-connection nonce counters, the file cipher's  *)
(* IV that lives as long as the process, resuming from the partial file,   *)
(* broken connections, restarts of either process and a source that is     *)
(* edited meanwhile. Attempts follow one another until the file is there.  *)
(*                                                                         *)
(* A sealed message is opened only by a handler whose counter equals the   *)
(* one it was sealed with; a chunk deciphered with another IV is garbage.  *)
(***************************************************************************)
EXTENDS Naturals, Sequences

CONSTANTS
    Size,         \* the length announced for the file, in chunks
    Absent,       \* no file
    Unset,        \* a static IV before its first use
    MaxFaults,    \* bound: broken connections and restarts of the server
    MaxCrashes,   \* bound: restarts of the client
    MaxEdits      \* bound: changes of the source

ASSUME TransferAssumption ==
    /\ Size \in Nat \ {0}
    /\ MaxFaults \in Nat /\ MaxCrashes \in Nat /\ MaxEdits \in Nat
    /\ Absent \notin Seq([at : Nat, version : Nat])
    /\ Absent \notin [length : Nat, version : Nat]
    /\ Unset \notin Nat

VARIABLES
    client,         \* the client session: "none", "handshake", "requested",
                    \* "receiving" or "received"
    server,         \* the server session: "none", "read_handshake", "read",
                    \* "read_confirmation" or "write_file"
    c2s, s2c,       \* bytes in flight, as messages and chunks
    stream_buffer,  \* what the client's async_read_until read beyond a message
    client_count, server_count,  \* the derived handlers' next nonce
    client_iv, server_iv,        \* static in decrypt_ and encrypt_file_to_buf
    bytes_written,  \* bytes_written_to_requested_
    ifstream,       \* the server's open file and position
    tmp, copy,      \* the client's partial file and finished file, or Absent
    source,         \* the server's file: [length, version], or Absent
    is_stored,      \* does the server's index list it
    version,        \* of the source: how often it was changed
    faults, crashes

client_vars == <<client, stream_buffer, client_count, bytes_written>>
server_vars == <<server, server_count, ifstream>>
iv_vars == <<client_iv, server_iv>>
source_vars == <<source, is_stored, version>>
file_vars == <<tmp, copy>>
bound_vars == <<faults, crashes>>
vars == <<client_vars, server_vars, c2s, s2c, iv_vars, file_vars, source_vars, bound_vars>>

chunk(i, v) == [at |-> i, version |-> v]
garbage == [at |-> 0, version |-> 0]

-----------------------------------------------------------------------------
(* Sealed messages *)

sealed(type, count, offset) == [type |-> type, count |-> count, offset |-> offset]

opens(message, count) == message.type # "chunk" /\ message.count = count

\* get_count returns the counter and advances it.
count_used(count) == count + 1

\* async_read_until takes whatever has arrived, at least up to the end of one
\* message; what follows it stays in stream_buffer_.
arrived(k) == stream_buffer \o SubSeq(s2c, 1, k)

-----------------------------------------------------------------------------
(* The end of a connection *)

client_ends == client' = "none"

server_ends == server' = "none"

\* A session that ends destroys its socket. What it has sent still arrives;
\* the other side then reads the end of the stream.
eof_at_client == server = "none" /\ s2c = <<>> /\ stream_buffer = <<>>

peer_closed ==
    \/ /\ client \in {"handshake", "requested", "receiving"}
       /\ eof_at_client
       /\ client_ends
       /\ UNCHANGED <<stream_buffer, client_count, bytes_written, server_vars, c2s, s2c,
                      iv_vars, file_vars, source_vars, bound_vars>>
    \/ /\ server # "none"
       /\ client = "none" /\ c2s = <<>>
       /\ server_ends
       /\ UNCHANGED <<client_vars, server_count, ifstream, c2s, s2c, iv_vars, file_vars,
                      source_vars, bound_vars>>

-----------------------------------------------------------------------------
(* The client session *)

\* The receiver starts a session as long as the file is not stored. The derived
\* handler is new: its counter starts at zero on both sides.
initialize_communication ==
    /\ client = "none" /\ server = "none"
    /\ copy = Absent
    /\ client' = "handshake"
    /\ server' = "read_handshake"
    /\ c2s' = <<[type |-> "handshake"]>>
    /\ s2c' = <<>>
    /\ stream_buffer' = <<>>
    /\ client_count' = 0
    /\ bytes_written' = 0
    /\ UNCHANGED <<server_count, ifstream, iv_vars, file_vars, source_vars, bound_vars>>

\* Sensitivity: the partial file is found, but not asked for its length.
offset_forgotten == 0

\* create_file: the offset to resume at.
offset == IF tmp = Absent THEN 0 ELSE Len(tmp)

\* handle_read_handshake and request_file.
handle_read_handshake ==
    /\ client = "handshake"
    /\ \E k \in 0..Len(s2c) : arrived(k) # <<>> /\
          LET message == Head(arrived(k))
          IN  /\ stream_buffer' = Tail(arrived(k))
              /\ s2c' = SubSeq(s2c, k + 1, Len(s2c))
              /\ IF opens(message, client_count)
                 THEN /\ client' = "requested"
                      /\ tmp' = IF tmp = Absent THEN <<>> ELSE tmp
                      /\ bytes_written' = offset
                      /\ c2s' = Append(c2s, sealed("file", count_used(client_count), offset))
                      /\ client_count' = count_used(count_used(client_count))
                 ELSE client_ends /\ UNCHANGED <<tmp, bytes_written, c2s, client_count>>
    /\ UNCHANGED <<server_vars, iv_vars, copy, source_vars, bound_vars>>

\* The confirmation is confirmed; only then may the server send.
handle_read_file_request_response ==
    /\ client = "requested"
    /\ \E k \in 0..Len(s2c) : arrived(k) # <<>> /\
          LET message == Head(arrived(k))
          IN  /\ stream_buffer' = Tail(arrived(k))
              /\ s2c' = SubSeq(s2c, k + 1, Len(s2c))
              /\ IF opens(message, client_count)
                 THEN /\ c2s' = Append(c2s, sealed("accepted", count_used(client_count), 0))
                      /\ client_count' = count_used(count_used(client_count))
                      /\ IF bytes_written = Size THEN client_ends ELSE client' = "receiving"
                 ELSE client_ends /\ UNCHANGED <<c2s, client_count>>
    /\ UNCHANGED <<bytes_written, server_vars, iv_vars, file_vars, source_vars, bound_vars>>

deciphered(message, iv) ==
    IF message.type = "chunk" /\ message.iv = iv THEN chunk(message.at, message.version)
    ELSE garbage

\* Sensitivity: only a chunk past the announced size ends the transfer.
is_complete_late(written) == written > Size

\* Sensitivity: one chunk short of the announced size counts as complete.
is_complete_early(written) == written + 1 >= Size

is_complete(written) == written >= Size

\* async_read takes bytes from the socket, never from stream_buffer_.
handle_read_file_chunk ==
    /\ client = "receiving"
    /\ s2c # <<>>
    /\ s2c' = Tail(s2c)
    /\ client_iv' = IF client_iv = Unset THEN client_count ELSE client_iv
    /\ client_count' = IF client_iv = Unset THEN count_used(client_count) ELSE client_count
    /\ tmp' = Append(SubSeq(tmp, 1, bytes_written), deciphered(Head(s2c), client_iv'))
    /\ bytes_written' = bytes_written + 1
    /\ client' = IF is_complete(bytes_written + 1) THEN "received" ELSE "receiving"
    /\ UNCHANGED <<stream_buffer, server_vars, c2s, server_iv, copy, source_vars, bound_vars>>

finalize_file ==
    /\ client = "received"
    /\ copy' = tmp
    /\ tmp' = Absent
    /\ client_ends
    /\ UNCHANGED <<stream_buffer, client_count, bytes_written, server_vars, c2s, s2c,
                   iv_vars, source_vars, bound_vars>>

client_step ==
    \/ handle_read_handshake \/ handle_read_file_request_response
    \/ handle_read_file_chunk \/ finalize_file

-----------------------------------------------------------------------------
(* The server session *)

\* Sensitivity: sealing the answer to the handshake does not count.
handshake_count_kept == 0

handshake_count == count_used(0)

respond_encrypted ==
    /\ server = "read_handshake"
    /\ c2s # <<>>
    /\ c2s' = Tail(c2s)
    /\ s2c' = Append(s2c, sealed("accepted", 0, 0))
    /\ server_count' = handshake_count
    /\ server' = "read"
    /\ UNCHANGED <<client_vars, ifstream, iv_vars, file_vars, source_vars, bound_vars>>

\* Sensitivity: the file follows the confirmation without waiting for its own.
after_confirmation_hasty == "write_file"

\* Sensitivity: the next message is taken for another request.
after_confirmation_header == "read"

after_confirmation == "read_confirmation"

\* A request for a file that is not in the index gets an error message without
\* an end mark: all the client sees of it is the end of the connection.
handle_read_header ==
    /\ server = "read"
    /\ c2s # <<>>
    /\ c2s' = Tail(c2s)
    /\ IF opens(Head(c2s), server_count) /\ is_stored
       THEN /\ s2c' = Append(s2c, sealed("accepted", count_used(server_count), 0))
            /\ server_count' = count_used(count_used(server_count))
            /\ server' = after_confirmation
            /\ ifstream' = [file |-> source, pos |-> Head(c2s).offset]
       ELSE server_ends /\ UNCHANGED <<s2c, server_count, ifstream>>
    /\ UNCHANGED <<client_vars, iv_vars, file_vars, source_vars, bound_vars>>

\* Sensitivity: opening the client's confirmation does not count.
confirmed_count_kept(count) == count

confirmed_count(count) == count_used(count)

\* read_file looks at the directory before it opens the file.
handle_read_confirmation ==
    /\ server = "read_confirmation"
    /\ c2s # <<>>
    /\ c2s' = Tail(c2s)
    /\ IF opens(Head(c2s), server_count)
       THEN /\ server_count' = confirmed_count(server_count)
            /\ is_stored' = (source # Absent)
            /\ server' = IF source # Absent THEN "write_file" ELSE "none"
            /\ ifstream' = [ifstream EXCEPT !.file = source]
       ELSE server_ends /\ UNCHANGED <<server_count, is_stored, ifstream>>
    /\ UNCHANGED <<client_vars, s2c, iv_vars, file_vars, source, version, bound_vars>>

\* The open file: the one opened or, if the edit was made in place, the new.
readable == {ifstream.file, source} \ {Absent}

write_file ==
    /\ server = "write_file"
    /\ \E file \in readable :
          IF ifstream.pos < file.length
          THEN /\ server_iv' = IF server_iv = Unset THEN server_count ELSE server_iv
               /\ server_count' = IF server_iv = Unset THEN count_used(server_count)
                                  ELSE server_count
               /\ s2c' = Append(s2c, [type |-> "chunk", iv |-> server_iv', at |-> ifstream.pos + 1,
                                      version |-> file.version])
               /\ ifstream' = [ifstream EXCEPT !.pos = @ + 1]
               /\ server' = server
          ELSE server_ends /\ UNCHANGED <<server_iv, server_count, s2c, ifstream>>
    /\ UNCHANGED <<client_vars, c2s, client_iv, file_vars, source_vars, bound_vars>>

server_step ==
    respond_encrypted \/ handle_read_header \/ handle_read_confirmation \/ write_file

-----------------------------------------------------------------------------
(* Failures and edits *)

\* The connection breaks; whatever was in flight is lost.
disconnected ==
    /\ client_ends /\ server_ends
    /\ c2s' = <<>> /\ s2c' = <<>>
    /\ UNCHANGED <<stream_buffer, client_count, bytes_written, server_count, ifstream>>

connection_lost ==
    /\ faults < MaxFaults
    /\ client # "none" /\ client # "received"
    /\ faults' = faults + 1
    /\ disconnected
    /\ UNCHANGED <<iv_vars, file_vars, source_vars, crashes>>

\* The restarted server scans its directory, and its IV is unset again.
restart_server ==
    /\ faults < MaxFaults
    /\ faults' = faults + 1
    /\ client # "received"
    /\ disconnected
    /\ server_iv' = Unset
    /\ is_stored' = (source # Absent)
    /\ UNCHANGED <<client_iv, file_vars, source, version, crashes>>

restart_client ==
    /\ crashes < MaxCrashes
    /\ crashes' = crashes + 1
    /\ disconnected
    /\ client_iv' = Unset
    /\ UNCHANGED <<server_iv, file_vars, source_vars, faults>>

\* Somebody rewrites, shortens, extends or removes the served file. The server's
\* index keeps the size it was announced with.
edit_source ==
    /\ version < MaxEdits
    /\ version' = version + 1
    /\ source' \in {[length |-> l, version |-> version'] : l \in {Size - 1, Size, Size + 1}}
                   \cup {Absent}
    /\ UNCHANGED <<client_vars, server_vars, c2s, s2c, iv_vars, file_vars, is_stored, bound_vars>>

\* Some other request or announcement makes the server look at its directory.
refresh_index ==
    /\ is_stored' = (source # Absent)
    /\ UNCHANGED <<client_vars, server_vars, c2s, s2c, iv_vars, file_vars, source, version,
                   bound_vars>>

-----------------------------------------------------------------------------

Init ==
    /\ client = "none" /\ server = "none"
    /\ c2s = <<>> /\ s2c = <<>> /\ stream_buffer = <<>>
    /\ client_count = 0 /\ server_count = 0
    /\ client_iv = Unset /\ server_iv = Unset
    /\ bytes_written = 0
    /\ source = [length |-> Size, version |-> 0]
    /\ ifstream = [file |-> source, pos |-> 0]
    /\ tmp = Absent /\ copy = Absent
    /\ is_stored = TRUE
    /\ version = 0 /\ faults = 0 /\ crashes = 0

Next ==
    \/ initialize_communication \/ client_step \/ server_step \/ peer_closed
    \/ connection_lost \/ restart_server \/ restart_client \/ edit_source \/ refresh_index

\* The receiver keeps starting sessions, and a handler that is ready runs.
Fairness ==
    /\ WF_vars(initialize_communication)
    /\ WF_vars(client_step)
    /\ WF_vars(server_step)
    /\ WF_vars(peer_closed)

Spec == Init /\ [][Next]_vars /\ Fairness

-----------------------------------------------------------------------------
(* Properties *)

count_limit == 5

chunks == [at : 0..Size + 1, version : 0..MaxEdits]
messages ==
    [type : {"handshake"}]
    \cup [type : {"accepted", "file"}, count : 0..count_limit, offset : 0..Size]
    \cup [type : {"chunk"}, iv : 0..count_limit, at : 1..Size + 1, version : 0..MaxEdits]

\* Every variable has its type; no session uses more than five nonces.
TypeOK ==
    /\ client \in {"none", "handshake", "requested", "receiving", "received"}
    /\ server \in {"none", "read_handshake", "read", "read_confirmation", "write_file"}
    /\ c2s \in Seq(messages) /\ s2c \in Seq(messages) /\ stream_buffer \in Seq(messages)
    /\ client_count \in 0..count_limit /\ server_count \in 0..count_limit
    /\ client_iv \in (0..count_limit) \cup {Unset} /\ server_iv \in (0..count_limit) \cup {Unset}
    /\ bytes_written \in 0..Size
    /\ tmp \in Seq(chunks) \cup {Absent} /\ copy \in Seq(chunks) \cup {Absent}
    /\ is_stored \in BOOLEAN
    /\ version \in 0..MaxEdits /\ faults \in 0..MaxFaults /\ crashes \in 0..MaxCrashes

\* The two counters of a connection stay in step although each side advances
\* its own for sealing and opening alike: no message that arrives fails to open.
CountersInStep ==
    /\ server \in {"read", "read_confirmation"} /\ c2s # <<>> => opens(Head(c2s), server_count)
    /\ client \in {"handshake", "requested"} /\ s2c # <<>> => opens(Head(s2c), client_count)

\* No byte of the file is read into stream_buffer_, from where no chunk is ever
\* taken: the round trip of confirmations keeps headers and file apart.
NothingLeftBehind == client = "receiving" => stream_buffer = <<>>

\* While the client waits, which it does without a timeout, what it waits for is
\* on its way, or the server has something to do for it, or has closed the
\* connection: the two never wait for each other, in whichever order messages,
\* edits of the file and refreshed indexes met.
NobodyWaitsForNothing ==
    client \in {"handshake", "requested", "receiving"} =>
        \/ s2c # <<>>
        \/ eof_at_client
        \/ server = "write_file" /\ readable # {}
        \/ server \in {"read_handshake", "read", "read_confirmation"} /\ c2s # <<>>

\* The IV each process keeps for ever from its first transfer is the other's
\* too, whichever of them was restarted, and after whichever attempts.
SameIV == client_iv # Unset /\ server_iv # Unset => client_iv = server_iv

Copy == INSTANCE FileCopy WITH partial <- IF tmp = Absent THEN <<>> ELSE tmp

\* Whatever happens to connections and processes, the partial file only grows by
\* the next chunk of the source and is published exactly when it is complete.
ImplementsFileCopy == Copy!Spec

\* So every copy has the announced length with every chunk at its place, and is
\* the source if nobody changed that.
CopyCorrect == Copy!CopyInPlace /\ Copy!CopyIsSource

\* A source that is left alone is copied in the end, however often (but finitely
\* often) connections break and the server restarts.
Copied == [](version = 0 /\ crashes = 0) => <>(copy # Absent)

=============================================================================
