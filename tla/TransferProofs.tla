--------------------------- MODULE TransferProofs ---------------------------
(***************************************************************************)
(* What holds of Transfer for every size and any number of broken          *)
(* connections, restarts and edits: the phases a conversation goes         *)
(* through, that its counters and ciphers agree, that no chunk is read     *)
(* past, and that what the two sessions do to the files is FileCopy.       *)
(***************************************************************************)
EXTENDS Transfer, SequenceTheorems, TLAPS

-----------------------------------------------------------------------------
(* The inductive invariant: where a conversation may be *)

\* The nonce that is next when the first chunk is sealed or opened: two for the
\* answer to the handshake and the request, two for the confirmations.
first_iv == 4

\* The source in one of its versions up to v.
source_until(v) == [length : 0..Size + 1, version : 0..v] \cup {Absent}

\* The chunk that follows "from" chunks of the file, in a version up to v.
next_chunk(from, v) ==
    [type : {"chunk"}, iv : {first_iv}, at : {from + 1}, version : 0..v]

\* A queue of chunks that continues a file of "from" chunks.
in_order(queue, from, v) ==
    \A i \in 1..Len(queue) : queue[i] \in next_chunk(from + i - 1, v)

HandshakeSent ==
    /\ client = "handshake" /\ server = "read_handshake"
    /\ c2s = <<[type |-> "handshake"]>> /\ s2c = <<>>
    /\ client_count = 0

HandshakeAnswered ==
    /\ client = "handshake" /\ server = "read"
    /\ c2s = <<>> /\ s2c = <<sealed("accepted", 0, 0)>>
    /\ client_count = 0 /\ server_count = 1

FileRequested ==
    /\ client = "requested" /\ server = "read"
    /\ c2s = <<sealed("file", 1, bytes_written)>> /\ s2c = <<>>
    /\ client_count = 2 /\ server_count = 1

FileOffered ==
    /\ client = "requested" /\ server = "read_confirmation"
    /\ c2s = <<>> /\ s2c = <<sealed("accepted", 2, 0)>>
    /\ client_count = 2 /\ server_count = 3
    /\ ifstream.pos = bytes_written

FileRefused ==
    /\ client = "requested" /\ server = "none"
    /\ c2s = <<>> /\ s2c = <<>>

FileConfirmed ==
    /\ client = "receiving" /\ server = "read_confirmation"
    /\ c2s = <<sealed("accepted", 3, 0)>> /\ s2c = <<>>
    /\ server_count = 3
    /\ ifstream.pos = bytes_written

FileSent ==
    /\ client \in {"receiving", "received"} /\ server \in {"write_file", "none"}
    /\ c2s = <<>> /\ in_order(s2c, bytes_written, version)
    /\ server = "write_file" => ifstream.pos = bytes_written + Len(s2c)

\* The client has left; the server may not have noticed.
ClientGone ==
    /\ client = "none"
    /\ server \in {"none", "read_confirmation", "write_file"}
    /\ server = "read_confirmation" =>
          c2s = <<sealed("accepted", 3, 0)>> /\ s2c = <<>> /\ server_count = 3

Conversation ==
    \/ HandshakeSent \/ HandshakeAnswered \/ FileRequested \/ FileOffered \/ FileRefused
    \/ FileConfirmed \/ FileSent \/ ClientGone

\* Whoever seals or opens its process's first chunk does so with the same nonce.
FirstIV ==
    /\ client_iv \in {Unset, first_iv} /\ server_iv \in {Unset, first_iv}
    /\ client \in {"receiving", "received"} /\ client_iv = Unset => client_count = first_iv
    /\ server = "write_file" /\ server_iv = Unset => server_count = first_iv

\* The files on either side. What is on disk is what the session counted.
Files ==
    /\ source \in source_until(version)
    /\ ifstream \in [file : source_until(version), pos : 0..Size + 1]
    /\ server = "write_file" => ifstream.file # Absent
    /\ client # "none" => copy = Absent
    /\ tmp # Absent => Len(tmp) <= Size
    /\ client \in {"requested", "receiving", "received"} =>
          tmp # Absent /\ Len(tmp) = bytes_written
    /\ client = "receiving" => bytes_written < Size
    /\ client = "received" => bytes_written = Size

IInv == TypeOK /\ stream_buffer = <<>> /\ Conversation /\ FirstIV /\ Files

-----------------------------------------------------------------------------
(* Messages and queues *)

\* A file that is there, however short, is told from one that is not.
LEMMA FileIsNotAbsent ==
    ASSUME NEW file \in Seq(chunks)
    PROVE  file # Absent
  <1>1. chunks \subseteq [at : Nat, version : Nat]
    BY TransferAssumption DEF chunks
  <1>2. file \in Seq([at : Nat, version : Nat])
    BY <1>1, SeqMonotonic
  <1> QED
    BY <1>2, TransferAssumption

\* A sealed message is a message.
LEMMA SealedMessage ==
    ASSUME NEW type \in {"accepted", "file"}, NEW count \in 0..count_limit,
           NEW from \in 0..Size
    PROVE  /\ sealed(type, count, from) \in messages
           /\ opens(sealed(type, count, from), count)
           /\ sealed(type, count, from).offset = from
  <1>1. sealed(type, count, from) \in [type : {"accepted", "file"}, count : 0..count_limit,
                                       offset : 0..Size]
    BY DEF sealed
  <1>2. type # "chunk"
    OBVIOUS
  <1> QED
    BY <1>1, <1>2 DEF messages, opens, sealed

\* The one message that is under way arrives alone.
LEMMA OneArrives ==
    ASSUME stream_buffer = <<>>, NEW m, s2c = <<m>>,
           NEW k \in 0..Len(s2c), arrived(k) # <<>>
    PROVE  /\ Head(arrived(k)) = m /\ Tail(arrived(k)) = <<>>
           /\ SubSeq(s2c, k + 1, Len(s2c)) = <<>>
  <1>1. <<m>> \in Seq({m}) /\ Len(<<m>>) = 1
    OBVIOUS
  <1>2. k # 0
    <2>1. SUFFICES ASSUME k = 0 PROVE FALSE
      OBVIOUS
    <2>2. SubSeq(s2c, 1, 0) = <<>>
      BY SubSeqEmpty
    <2> QED
      BY <2>1, <2>2 DEF arrived
  <1>3. k = 1
    BY <1>1, <1>2
  <1>4. SubSeq(s2c, 1, 1) = <<m>>
    BY <1>1, SubSeqFull
  <1>5. arrived(k) = <<m>>
    BY <1>1, <1>3, <1>4, ConcatEmptySeq DEF arrived
  <1>6. Head(<<m>>) = m /\ Tail(<<m>>) = <<>>
    OBVIOUS
  <1>7. SubSeq(s2c, k + 1, Len(s2c)) = <<>>
    <2>1. k + 1 \in Int /\ Len(s2c) \in Int /\ Len(s2c) < k + 1
      BY <1>1, <1>3
    <2> QED
      BY <2>1, SubSeqEmpty
  <1> QED
    BY <1>5, <1>6, <1>7

\* Nothing arrives when nothing is under way.
LEMMA NothingArrives ==
    ASSUME stream_buffer = <<>>, s2c = <<>>, NEW k \in 0..Len(s2c)
    PROVE  arrived(k) = <<>>
  <1>1. k = 0
    OBVIOUS
  <1>2. SubSeq(s2c, 1, 0) = <<>>
    BY SubSeqEmpty
  <1> QED
    BY <1>1, <1>2 DEF arrived

\* The head of a queue that is in order is the next chunk, and the rest
\* continues the file that has it.
LEMMA InOrderTail ==
    ASSUME NEW queue \in Seq(messages), queue # <<>>, NEW from \in Nat, NEW v \in Nat,
           in_order(queue, from, v)
    PROVE  /\ Head(queue) \in next_chunk(from, v)
           /\ in_order(Tail(queue), from + 1, v)
           /\ Tail(queue) \in Seq(messages)
           /\ Len(Tail(queue)) = Len(queue) - 1
  <1>1. /\ Tail(queue) \in Seq(messages) /\ Len(queue) \in Nat \ {0}
        /\ Len(Tail(queue)) = Len(queue) - 1
        /\ Head(queue) = queue[1]
    OBVIOUS
  <1>2. queue[1] \in next_chunk(from + 1 - 1, v)
    BY <1>1 DEF in_order
  <1>3. ASSUME NEW i \in 1..Len(Tail(queue))
        PROVE  Tail(queue)[i] \in next_chunk(from + 1 + i - 1, v)
    <2>1. Tail(queue)[i] = queue[i + 1] /\ i + 1 \in 1..Len(queue)
      BY <1>1
    <2>2. from + (i + 1) - 1 = from + 1 + i - 1
      OBVIOUS
    <2> QED
      BY <2>1, <2>2 DEF in_order
  <1> QED
    BY <1>1, <1>2, <1>3 DEF in_order

\* A chunk that follows the queue leaves it in order.
LEMMA InOrderAppend ==
    ASSUME NEW queue \in Seq(messages), NEW from \in Nat, NEW v \in Nat,
           in_order(queue, from, v),
           NEW c \in messages, c \in next_chunk(from + Len(queue), v)
    PROVE  in_order(Append(queue, c), from, v)
  <1>1. /\ Len(Append(queue, c)) = Len(queue) + 1 /\ Len(queue) \in Nat
        /\ Append(queue, c)[Len(queue) + 1] = c
        /\ \A i \in 1..Len(queue) : Append(queue, c)[i] = queue[i]
    OBVIOUS
  <1>2. ASSUME NEW i \in 1..Len(queue) + 1
        PROVE  Append(queue, c)[i] \in next_chunk(from + i - 1, v)
    <2>1. CASE i \in 1..Len(queue)
      BY <1>1, <2>1 DEF in_order
    <2>2. CASE i = Len(queue) + 1
      <3>1. from + i - 1 = from + Len(queue)
        BY <1>1, <2>2
      <3> QED
        BY <1>1, <2>2, <3>1
    <2> QED
      BY <1>1, <2>1, <2>2
  <1> QED
    BY <1>1, <1>2 DEF in_order

\* A queue that is in order stays so when the source changes.
LEMMA InOrderLater ==
    ASSUME NEW queue, NEW from, NEW v \in Nat, in_order(queue, from, v)
    PROVE  in_order(queue, from, v + 1)
  <1>1. ASSUME NEW n PROVE next_chunk(n, v) \subseteq next_chunk(n, v + 1)
    BY DEF next_chunk
  <1> QED
    BY <1>1 DEF in_order

\* Before anything has happened, the invariant holds.
LEMMA InitIInv == Init => IInv
  <1> SUFFICES ASSUME Init PROVE IInv
    OBVIOUS
  <1> USE TransferAssumption
  <1>1. TypeOK
    BY DEF Init, TypeOK, count_limit
  <1>2. Conversation /\ FirstIV
    BY DEF Init, Conversation, ClientGone, FirstIV
  <1>3. Files
    BY DEF Init, Files, source_until
  <1> QED
    BY <1>1, <1>2, <1>3 DEF Init, IInv

-----------------------------------------------------------------------------
(* The steps of the client keep the invariant *)

\* A handshake finds the server waiting for it.
LEMMA KeptByInitialize ==
    ASSUME IInv, initialize_communication
    PROVE  IInv'
  <1> USE TransferAssumption
  <1>1. TypeOK'
    <2>1. <<[type |-> "handshake"]>> \in Seq(messages)
      BY DEF messages
    <2> QED
      BY <2>1 DEF IInv, TypeOK, initialize_communication, iv_vars, file_vars, source_vars,
                  bound_vars, count_limit
  <1>2. Conversation'
    BY DEF initialize_communication, Conversation, HandshakeSent
  <1>3. FirstIV' /\ Files' /\ stream_buffer' = <<>>
    BY DEF IInv, FirstIV, Files, source_until, initialize_communication, iv_vars, file_vars,
           source_vars
  <1> QED
    BY <1>1, <1>2, <1>3 DEF IInv

\* The answer to the handshake opens, and the request asks for what is missing.
LEMMA KeptByReadHandshake ==
    ASSUME IInv, handle_read_handshake
    PROVE  IInv'
  <1> USE TransferAssumption
  <1>1. HandshakeAnswered \/ HandshakeSent
    BY DEF IInv, Conversation, handle_read_handshake, HandshakeSent, HandshakeAnswered,
           FileRequested, FileOffered, FileRefused, FileConfirmed, FileSent, ClientGone
  <1>2. PICK k \in 0..Len(s2c) :
           /\ arrived(k) # <<>>
           /\ stream_buffer' = Tail(arrived(k))
           /\ s2c' = SubSeq(s2c, k + 1, Len(s2c))
           /\ IF opens(Head(arrived(k)), client_count)
              THEN /\ client' = "requested"
                   /\ tmp' = IF tmp = Absent THEN <<>> ELSE tmp
                   /\ bytes_written' = offset
                   /\ c2s' = Append(c2s, sealed("file", count_used(client_count), offset))
                   /\ client_count' = count_used(count_used(client_count))
              ELSE client_ends /\ UNCHANGED <<tmp, bytes_written, c2s, client_count>>
    BY DEF handle_read_handshake
  <1>3. HandshakeAnswered
    BY <1>1, <1>2, NothingArrives DEF HandshakeSent, IInv
  <1>4. /\ Head(arrived(k)) = sealed("accepted", 0, 0)
        /\ stream_buffer' = <<>> /\ s2c' = <<>>
    BY <1>2, <1>3, OneArrives DEF HandshakeAnswered, IInv
  <1>5. opens(sealed("accepted", 0, 0), client_count)
    BY <1>3, SealedMessage DEF HandshakeAnswered, count_limit
  <1>6. offset \in 0..Size /\ (tmp # Absent => offset = Len(tmp)) /\ (tmp = Absent => offset = 0)
    BY DEF IInv, Files, TypeOK, offset
  <1>7. /\ client' = "requested" /\ client_count' = 2
        /\ tmp' = IF tmp = Absent THEN <<>> ELSE tmp
        /\ bytes_written' = offset
        /\ c2s' = <<sealed("file", 1, offset)>>
    BY <1>2, <1>3, <1>4, <1>5 DEF HandshakeAnswered, count_used
  <1>8. UNCHANGED <<server_vars, iv_vars, copy, source_vars, bound_vars>>
    BY DEF handle_read_handshake
  <1>9. TypeOK'
    <2>1. <<sealed("file", 1, offset)>> \in Seq(messages)
      BY <1>6, SealedMessage DEF count_limit
    <2> QED
      BY <1>4, <1>6, <1>7, <1>8, <2>1
      DEF IInv, TypeOK, server_vars, iv_vars, source_vars, bound_vars, count_limit
  <1>10. Conversation'
    BY <1>3, <1>4, <1>7, <1>8 DEF HandshakeAnswered, Conversation, FileRequested, server_vars
  <1>11. FirstIV'
    BY <1>3, <1>7, <1>8 DEF HandshakeAnswered, IInv, FirstIV, iv_vars, server_vars
  <1>12. Files'
    <2>0. <<>> \in Seq(chunks)
      OBVIOUS
    <2>1. tmp' # Absent /\ Len(tmp') = bytes_written'
      BY <1>6, <1>7, <2>0, FileIsNotAbsent
    <2> QED
      BY <1>3, <1>6, <1>7, <1>8, <2>1 DEF HandshakeAnswered, IInv, Files, source_vars, server_vars
  <1> QED
    BY <1>4, <1>9, <1>10, <1>11, <1>12 DEF IInv

\* The server's answer opens, and is confirmed; a file that is complete ends the
\* session there.
LEMMA KeptByReadResponse ==
    ASSUME IInv, handle_read_file_request_response
    PROVE  IInv'
  <1> USE TransferAssumption
  <1>1. FileRequested \/ FileOffered \/ FileRefused
    BY DEF IInv, Conversation, handle_read_file_request_response, HandshakeSent,
           HandshakeAnswered, FileConfirmed, FileSent, ClientGone
  <1>2. PICK k \in 0..Len(s2c) :
           /\ arrived(k) # <<>>
           /\ stream_buffer' = Tail(arrived(k))
           /\ s2c' = SubSeq(s2c, k + 1, Len(s2c))
           /\ IF opens(Head(arrived(k)), client_count)
              THEN /\ c2s' = Append(c2s, sealed("accepted", count_used(client_count), 0))
                   /\ client_count' = count_used(count_used(client_count))
                   /\ IF bytes_written = Size THEN client_ends ELSE client' = "receiving"
              ELSE client_ends /\ UNCHANGED <<c2s, client_count>>
    BY DEF handle_read_file_request_response
  <1>3. FileOffered
    BY <1>1, <1>2, NothingArrives DEF FileRequested, FileRefused, IInv
  <1>4. /\ Head(arrived(k)) = sealed("accepted", 2, 0)
        /\ stream_buffer' = <<>> /\ s2c' = <<>>
    BY <1>2, <1>3, OneArrives DEF FileOffered, IInv
  <1>5. opens(sealed("accepted", 2, 0), client_count)
    BY <1>3, SealedMessage DEF FileOffered, count_limit
  <1>6. /\ client' = IF bytes_written = Size THEN "none" ELSE "receiving"
        /\ client_count' = 4
        /\ c2s' = <<sealed("accepted", 3, 0)>>
    BY <1>2, <1>3, <1>4, <1>5 DEF FileOffered, count_used, client_ends
  <1>7. UNCHANGED <<bytes_written, server_vars, iv_vars, file_vars, source_vars, bound_vars>>
    BY DEF handle_read_file_request_response
  <1>8. TypeOK'
    <2>1. <<sealed("accepted", 3, 0)>> \in Seq(messages)
      BY SealedMessage DEF count_limit
    <2> QED
      BY <1>4, <1>6, <1>7, <2>1
      DEF IInv, TypeOK, server_vars, iv_vars, file_vars, source_vars, bound_vars, count_limit
  <1>9. Conversation'
    BY <1>3, <1>4, <1>6, <1>7
    DEF FileOffered, Conversation, FileConfirmed, ClientGone, server_vars
  <1>10. FirstIV'
    BY <1>3, <1>6, <1>7 DEF FileOffered, IInv, FirstIV, first_iv, iv_vars, server_vars
  <1>11. Files'
    BY <1>3, <1>6, <1>7
    DEF FileOffered, IInv, TypeOK, Files, source_vars, file_vars, server_vars
  <1> QED
    BY <1>4, <1>8, <1>9, <1>10, <1>11 DEF IInv

\* What a chunk that is received finds: the conversation is at the file, the
\* chunk is the next one, and both ciphers agree.
LEMMA ChunkReceived ==
    ASSUME IInv, handle_read_file_chunk
    PROVE  /\ FileSent
           /\ Head(s2c) \in next_chunk(bytes_written, version)
           /\ client_iv' = first_iv
           /\ \E v \in 0..version :
                 tmp' = Append(tmp, [at |-> Len(tmp) + 1, version |-> v])
  <1> USE TransferAssumption
  <1>1. client = "receiving" /\ s2c # <<>>
    BY DEF handle_read_file_chunk
  <1>2. FileSent
    BY <1>1 DEF IInv, Conversation, HandshakeSent, HandshakeAnswered, FileRequested,
                FileOffered, FileRefused, FileConfirmed, ClientGone
  <1>3. /\ bytes_written \in Nat /\ version \in Nat /\ s2c \in Seq(messages)
        /\ tmp # Absent /\ tmp \in Seq(chunks) /\ Len(tmp) = bytes_written
    BY <1>1 DEF IInv, TypeOK, Files
  <1>4. Head(s2c) \in next_chunk(bytes_written, version)
    BY <1>1, <1>2, <1>3, InOrderTail DEF FileSent
  <1>5. client_iv' = first_iv
    BY <1>1 DEF handle_read_file_chunk, IInv, FirstIV
  <1>6. SubSeq(tmp, 1, bytes_written) = tmp
    BY <1>3, SubSeqFull
  <1>7. deciphered(Head(s2c), client_iv') = [at |-> bytes_written + 1, version |-> Head(s2c).version]
    BY <1>4, <1>5 DEF next_chunk, deciphered, chunk
  <1>8. tmp' = Append(tmp, [at |-> Len(tmp) + 1, version |-> Head(s2c).version])
    BY <1>3, <1>6, <1>7 DEF handle_read_file_chunk
  <1>9. Head(s2c).version \in 0..version
    BY <1>4 DEF next_chunk
  <1> QED
    BY <1>2, <1>4, <1>5, <1>8, <1>9

LEMMA KeptByReadChunk ==
    ASSUME IInv, handle_read_file_chunk
    PROVE  IInv'
  <1> USE TransferAssumption
  <1>1. PICK v \in 0..version : tmp' = Append(tmp, [at |-> Len(tmp) + 1, version |-> v])
    BY ChunkReceived
  <1>2. /\ client = "receiving" /\ s2c # <<>> /\ s2c' = Tail(s2c)
        /\ client_count' = IF client_iv = Unset THEN client_count + 1 ELSE client_count
        /\ bytes_written' = bytes_written + 1
        /\ client' = IF bytes_written + 1 >= Size THEN "received" ELSE "receiving"
        /\ UNCHANGED <<stream_buffer, server_vars, c2s, server_iv, copy, source_vars,
                       bound_vars>>
    BY DEF handle_read_file_chunk, is_complete, count_used
  <1>3. /\ bytes_written \in 0..Size /\ bytes_written < Size /\ version \in 0..MaxEdits
        /\ s2c \in Seq(messages)
        /\ tmp # Absent /\ tmp \in Seq(chunks) /\ Len(tmp) = bytes_written
    BY <1>2 DEF IInv, TypeOK, Files
  <1>4. FileSent /\ client_iv' = first_iv
    BY ChunkReceived
  <1>5. /\ in_order(s2c', bytes_written', version)
        /\ s2c' \in Seq(messages) /\ Len(s2c') = Len(s2c) - 1 /\ Len(s2c) \in Nat
    BY <1>2, <1>3, <1>4, InOrderTail DEF FileSent
  <1>6. /\ tmp' \in Seq(chunks) /\ Len(tmp') = bytes_written'
        /\ tmp' # Absent
    <2>1. [at |-> Len(tmp) + 1, version |-> v] \in chunks
      BY <1>3 DEF chunks
    <2>2. tmp' \in Seq(chunks) /\ Len(tmp') = bytes_written'
      BY <1>1, <1>2, <1>3, <2>1
    <2> QED
      BY <2>2, FileIsNotAbsent
  <1>7. TypeOK'
    <2>1. client_count' \in 0..count_limit
      BY <1>2 DEF IInv, TypeOK, FirstIV, first_iv, count_limit
    <2>2. client_iv' \in 0..count_limit
      BY <1>4 DEF first_iv, count_limit
    <2> QED
      BY <1>2, <1>3, <1>5, <1>6, <2>1, <2>2
      DEF IInv, TypeOK, server_vars, source_vars, bound_vars
  <1>8. Conversation'
    BY <1>2, <1>3, <1>4, <1>5 DEF FileSent, Conversation, server_vars, source_vars
  <1>9. FirstIV'
    BY <1>2, <1>4 DEF IInv, FirstIV, FileSent, server_vars, first_iv
  <1>10. Files'
    BY <1>2, <1>3, <1>6 DEF IInv, Files, source_vars, server_vars
  <1> QED
    BY <1>2, <1>7, <1>8, <1>9, <1>10 DEF IInv

\* The file is renamed once its chunks are all there.
LEMMA KeptByFinalize ==
    ASSUME IInv, finalize_file
    PROVE  IInv'
  <1> USE TransferAssumption
  <1>1. FileSent
    BY DEF IInv, Conversation, finalize_file, HandshakeSent, HandshakeAnswered,
           FileRequested, FileOffered, FileRefused, FileConfirmed, ClientGone
  <1>2. /\ client' = "none" /\ tmp' = Absent /\ copy' = tmp
        /\ UNCHANGED <<stream_buffer, client_count, bytes_written, server_vars, c2s, s2c,
                       iv_vars, source_vars, bound_vars>>
    BY DEF finalize_file, client_ends
  <1>3. TypeOK'
    BY <1>2 DEF IInv, TypeOK, server_vars, iv_vars, source_vars, bound_vars
  <1>4. Conversation'
    BY <1>1, <1>2 DEF FileSent, Conversation, ClientGone, server_vars
  <1>5. FirstIV' /\ Files'
    BY <1>2 DEF IInv, FirstIV, Files, server_vars, iv_vars, source_vars
  <1> QED
    BY <1>2, <1>3, <1>4, <1>5 DEF IInv

-----------------------------------------------------------------------------
(* The steps of the server keep the invariant *)

LEMMA KeptByRespondEncrypted ==
    ASSUME IInv, respond_encrypted
    PROVE  IInv'
  <1> USE TransferAssumption
  <1>1. HandshakeSent
    BY DEF IInv, Conversation, respond_encrypted, HandshakeAnswered, FileRequested,
           FileOffered, FileRefused, FileConfirmed, FileSent, ClientGone
  <1>2. /\ c2s' = <<>> /\ s2c' = <<sealed("accepted", 0, 0)>>
        /\ server_count' = 1 /\ server' = "read"
        /\ UNCHANGED <<client_vars, ifstream, iv_vars, file_vars, source_vars, bound_vars>>
    BY <1>1 DEF respond_encrypted, HandshakeSent, handshake_count, count_used
  <1>3. TypeOK'
    <2>1. <<sealed("accepted", 0, 0)>> \in Seq(messages)
      BY SealedMessage DEF count_limit
    <2> QED
      BY <1>2, <2>1
      DEF IInv, TypeOK, client_vars, iv_vars, file_vars, source_vars, bound_vars, count_limit
  <1>4. Conversation'
    BY <1>1, <1>2 DEF HandshakeSent, Conversation, HandshakeAnswered, client_vars
  <1>5. FirstIV' /\ Files' /\ stream_buffer' = <<>>
    BY <1>2 DEF IInv, FirstIV, Files, client_vars, iv_vars, file_vars, source_vars
  <1> QED
    BY <1>3, <1>4, <1>5 DEF IInv

\* The request opens; what is offered is continued where the client asked.
LEMMA KeptByReadHeader ==
    ASSUME IInv, handle_read_header
    PROVE  IInv'
  <1> USE TransferAssumption
  <1>1. FileRequested
    BY DEF IInv, Conversation, handle_read_header, HandshakeSent, HandshakeAnswered,
           FileOffered, FileRefused, FileConfirmed, FileSent, ClientGone
  <1>2. bytes_written \in 0..Size
    BY DEF IInv, TypeOK
  <1>3. /\ opens(Head(c2s), server_count)
        /\ Head(c2s).offset = bytes_written
    BY <1>1, <1>2, SealedMessage DEF FileRequested, count_limit
  <1>4. /\ c2s' = <<>>
        /\ UNCHANGED <<client_vars, iv_vars, file_vars, source_vars, bound_vars>>
    BY <1>1 DEF handle_read_header, FileRequested
  <1>5. CASE is_stored
    <2>1. /\ s2c' = <<sealed("accepted", 2, 0)>>
          /\ server_count' = 3 /\ server' = "read_confirmation"
          /\ ifstream' = [file |-> source, pos |-> bytes_written]
      BY <1>1, <1>3, <1>5
      DEF handle_read_header, FileRequested, count_used, after_confirmation
    <2>2. TypeOK'
      <3>1. <<sealed("accepted", 2, 0)>> \in Seq(messages)
        BY SealedMessage DEF count_limit
      <3> QED
        BY <1>4, <2>1, <3>1
        DEF IInv, TypeOK, client_vars, iv_vars, file_vars, source_vars, bound_vars, count_limit
    <2>3. Conversation'
      BY <1>1, <1>4, <2>1 DEF FileRequested, Conversation, FileOffered, client_vars
    <2>4. FirstIV' /\ Files' /\ stream_buffer' = <<>>
      BY <1>2, <1>4, <2>1
      DEF IInv, FirstIV, Files, client_vars, iv_vars, file_vars, source_vars
    <2> QED
      BY <2>2, <2>3, <2>4 DEF IInv
  <1>6. CASE ~is_stored
    <2>1. server' = "none" /\ UNCHANGED <<s2c, server_count, ifstream>>
      BY <1>6 DEF handle_read_header, server_ends
    <2>2. TypeOK'
      BY <1>4, <2>1
      DEF IInv, TypeOK, client_vars, iv_vars, file_vars, source_vars, bound_vars, count_limit
    <2>3. Conversation'
      BY <1>1, <1>4, <2>1 DEF FileRequested, Conversation, FileRefused, client_vars
    <2>4. FirstIV' /\ Files' /\ stream_buffer' = <<>>
      BY <1>4, <2>1 DEF IInv, FirstIV, Files, client_vars, iv_vars, file_vars, source_vars
    <2> QED
      BY <2>2, <2>3, <2>4 DEF IInv
  <1> QED
    BY <1>5, <1>6

\* The confirmation opens even if the client has left meanwhile.
LEMMA KeptByReadConfirmation ==
    ASSUME IInv, handle_read_confirmation
    PROVE  IInv'
  <1> USE TransferAssumption
  <1>1. FileConfirmed \/ ClientGone
    BY DEF IInv, Conversation, handle_read_confirmation, HandshakeSent, HandshakeAnswered,
           FileRequested, FileOffered, FileRefused, FileSent
  <1>2. /\ c2s = <<sealed("accepted", 3, 0)>> /\ s2c = <<>> /\ server_count = 3
        /\ client \in {"none", "receiving"}
    BY <1>1 DEF handle_read_confirmation, FileConfirmed, ClientGone
  <1>3. opens(Head(c2s), server_count)
    BY <1>2, SealedMessage DEF count_limit
  <1>4. /\ c2s' = <<>> /\ server_count' = 4
        /\ server' = IF source # Absent THEN "write_file" ELSE "none"
        /\ is_stored' = (source # Absent)
        /\ ifstream' = [ifstream EXCEPT !.file = source]
        /\ UNCHANGED <<client_vars, s2c, iv_vars, file_vars, source, version, bound_vars>>
    BY <1>2, <1>3 DEF handle_read_confirmation, confirmed_count, count_used
  <1>5. TypeOK'
    BY <1>2, <1>4 DEF IInv, TypeOK, client_vars, iv_vars, file_vars, bound_vars, count_limit
  <1>6. ifstream \in [file : source_until(version), pos : 0..Size + 1]
    BY DEF IInv, Files
  <1>7. ifstream'.pos = ifstream.pos /\ ifstream' \in [file : source_until(version), pos : 0..Size + 1]
    BY <1>4, <1>6 DEF IInv, Files
  <1>8. Conversation'
    <2>1. CASE FileConfirmed
      <3>1. Len(s2c') = 0 /\ in_order(s2c', bytes_written', version')
        BY <1>2, <1>4 DEF in_order
      <3>2. bytes_written \in Nat
        BY DEF IInv, TypeOK
      <3> QED
        BY <1>4, <1>7, <2>1, <3>1, <3>2 DEF FileConfirmed, Conversation, FileSent, client_vars
    <2>2. CASE ClientGone
      BY <1>4, <2>2 DEF Conversation, ClientGone, client_vars
    <2> QED
      BY <1>1, <2>1, <2>2
  <1>9. FirstIV' /\ stream_buffer' = <<>>
    BY <1>4 DEF IInv, FirstIV, first_iv, client_vars, iv_vars
  <1>10. Files'
    BY <1>4, <1>7 DEF IInv, Files, client_vars, file_vars
  <1> QED
    BY <1>5, <1>8, <1>9, <1>10 DEF IInv

\* What is sent is the next chunk, sealed with the IV of all transfers.
LEMMA KeptByWriteFile ==
    ASSUME IInv, write_file
    PROVE  IInv'
  <1> USE TransferAssumption
  <1>1. FileSent \/ ClientGone
    BY DEF IInv, Conversation, write_file, HandshakeSent, HandshakeAnswered,
           FileRequested, FileOffered, FileRefused, FileConfirmed
  <1>2. UNCHANGED <<client_vars, c2s, client_iv, file_vars, source_vars, bound_vars>>
    BY DEF write_file
  <1>3. /\ ifstream \in [file : source_until(version), pos : 0..Size + 1]
        /\ source \in source_until(version) /\ version \in 0..MaxEdits
        /\ s2c \in Seq(messages) /\ bytes_written \in 0..Size
    BY DEF IInv, Files, TypeOK
  <1>4. PICK file \in readable :
          IF ifstream.pos < file.length
          THEN /\ server_iv' = IF server_iv = Unset THEN server_count ELSE server_iv
               /\ server_count' = IF server_iv = Unset THEN count_used(server_count)
                                  ELSE server_count
               /\ s2c' = Append(s2c, [type |-> "chunk", iv |-> server_iv', at |-> ifstream.pos + 1,
                                      version |-> file.version])
               /\ ifstream' = [ifstream EXCEPT !.pos = @ + 1]
               /\ server' = server
          ELSE server_ends /\ UNCHANGED <<server_iv, server_count, s2c, ifstream>>
    BY DEF write_file
  <1>5. file \in [length : 0..Size + 1, version : 0..version]
    BY <1>3 DEF readable, source_until
  <1>6. CASE ifstream.pos < file.length
    <2> DEFINE c == [type |-> "chunk", iv |-> first_iv, at |-> ifstream.pos + 1,
                     version |-> file.version]
    <2>0. /\ server_iv' = IF server_iv = Unset THEN server_count ELSE server_iv
          /\ server_count' = IF server_iv = Unset THEN count_used(server_count) ELSE server_count
          /\ s2c' = Append(s2c, [type |-> "chunk", iv |-> server_iv', at |-> ifstream.pos + 1,
                                 version |-> file.version])
          /\ ifstream' = [ifstream EXCEPT !.pos = @ + 1]
          /\ server' = server
      BY <1>4, <1>6
    <2>1. server_iv' = first_iv /\ server' = "write_file"
      BY <2>0 DEF write_file, IInv, FirstIV
    <2>2. s2c' = Append(s2c, c) /\ ifstream' = [ifstream EXCEPT !.pos = @ + 1]
      BY <2>0, <2>1
    <2>3. server_count' \in 0..count_limit
      BY <2>0 DEF write_file, IInv, FirstIV, TypeOK, first_iv, count_limit, count_used
    <2>4. c \in messages
      <3>1. ifstream.pos + 1 \in 1..Size + 1 /\ file.version \in 0..MaxEdits
        BY <1>3, <1>5, <1>6
      <3> QED
        BY <3>1 DEF messages, first_iv, count_limit
    <2>5. /\ s2c' \in Seq(messages) /\ Len(s2c') = Len(s2c) + 1 /\ Len(s2c) \in Nat
      BY <1>3, <2>2, <2>4
    <2>6. /\ ifstream'.pos = ifstream.pos + 1 /\ ifstream'.file = ifstream.file
          /\ ifstream' \in [file : source_until(version), pos : 0..Size + 1]
      <3> DEFINE F == source_until(version)
      <3>1. ifstream \in [file : F, pos : 0..Size + 1] /\ Size \in Nat
        BY <1>3, TransferAssumption
      <3>2. ifstream.pos \in 0..Size + 1 /\ file.length \in 0..Size + 1
        BY <3>1, <1>5
      <3>3. ifstream.pos + 1 \in 0..Size + 1
        BY <3>1, <3>2, <1>6
      <3> HIDE DEF F
      <3>4. /\ ifstream'.pos = ifstream.pos + 1 /\ ifstream'.file = ifstream.file
            /\ ifstream' \in [file : F, pos : 0..Size + 1]
        BY <3>1, <3>3, <2>2
      <3> QED
        BY <3>4 DEF F
    <2>7. TypeOK'
      BY <1>2, <2>1, <2>3, <2>5
      DEF IInv, TypeOK, client_vars, file_vars, source_vars, bound_vars, first_iv, count_limit
    <2>8. Conversation'
      <3>1. CASE FileSent
        <4>1. server = "write_file" /\ ifstream.pos = bytes_written + Len(s2c)
          BY <3>1 DEF write_file, FileSent
        <4>2. c \in next_chunk(bytes_written + Len(s2c), version)
          BY <1>5, <4>1 DEF next_chunk
        <4>3. in_order(s2c', bytes_written, version)
          BY <1>3, <2>2, <2>4, <3>1, <4>2, InOrderAppend DEF FileSent
        <4> QED
          BY <1>2, <1>3, <2>1, <2>5, <2>6, <3>1, <4>1, <4>3
          DEF FileSent, Conversation, client_vars, source_vars
      <3>2. CASE ClientGone
        BY <1>2, <2>1, <3>2 DEF Conversation, ClientGone, client_vars
      <3> QED
        BY <1>1, <3>1, <3>2
    <2>9. FirstIV' /\ stream_buffer' = <<>>
      BY <1>2, <2>1 DEF IInv, FirstIV, client_vars, first_iv
    <2>10. Files'
      <3>1. ifstream'.file # Absent
        BY <2>6 DEF write_file, IInv, Files
      <3> QED
        BY <1>2, <2>6, <3>1 DEF IInv, Files, client_vars, file_vars, source_vars
    <2> QED
      BY <2>7, <2>8, <2>9, <2>10 DEF IInv
  <1>7. CASE ~(ifstream.pos < file.length)
    <2>1. server' = "none" /\ UNCHANGED <<server_iv, server_count, s2c, ifstream>>
      BY <1>4, <1>7 DEF server_ends
    <2>2. TypeOK'
      BY <1>2, <2>1 DEF IInv, TypeOK, client_vars, file_vars, source_vars, bound_vars
    <2>3. Conversation'
      BY <1>1, <1>2, <2>1 DEF FileSent, ClientGone, Conversation, client_vars, source_vars
    <2>4. FirstIV' /\ Files' /\ stream_buffer' = <<>>
      BY <1>2, <2>1 DEF IInv, FirstIV, Files, client_vars, file_vars, source_vars
    <2> QED
      BY <2>2, <2>3, <2>4 DEF IInv
  <1> QED
    BY <1>6, <1>7

-----------------------------------------------------------------------------
(* Failures and edits keep the invariant *)

LEMMA KeptByPeerClosed ==
    ASSUME IInv, peer_closed
    PROVE  IInv'
  <1> USE TransferAssumption
  <1>1. /\ client' = "none" /\ client # "received"
        /\ server' = "none"
        /\ UNCHANGED <<stream_buffer, client_count, bytes_written, server_count, ifstream,
                       c2s, s2c, iv_vars, file_vars, source_vars, bound_vars>>
    BY DEF peer_closed, client_ends, server_ends, eof_at_client, client_vars, server_vars
  <1>2. TypeOK'
    BY <1>1 DEF IInv, TypeOK, iv_vars, file_vars, source_vars, bound_vars
  <1>3. Conversation' /\ FirstIV' /\ Files' /\ stream_buffer' = <<>>
    BY <1>1 DEF IInv, Conversation, ClientGone, FirstIV, Files, iv_vars, file_vars, source_vars
  <1> QED
    BY <1>2, <1>3 DEF IInv

\* A conversation that is cut off, on whichever side, leaves nothing behind but
\* the files and the ciphers.
LEMMA KeptByDisconnected ==
    ASSUME IInv, disconnected, UNCHANGED <<file_vars, source, version>>,
           client_iv' \in {client_iv, Unset}, server_iv' \in {server_iv, Unset},
           is_stored' \in BOOLEAN, faults' \in 0..MaxFaults, crashes' \in 0..MaxCrashes
    PROVE  IInv'
  <1> USE TransferAssumption
  <1>1. /\ client' = "none" /\ server' = "none" /\ c2s' = <<>> /\ s2c' = <<>>
        /\ UNCHANGED <<stream_buffer, client_count, bytes_written, server_count, ifstream>>
    BY DEF disconnected, client_ends, server_ends
  <1>2. TypeOK'
    BY <1>1 DEF IInv, TypeOK, file_vars
  <1>3. Conversation' /\ FirstIV' /\ Files' /\ stream_buffer' = <<>>
    BY <1>1 DEF IInv, Conversation, ClientGone, FirstIV, Files, file_vars
  <1> QED
    BY <1>2, <1>3 DEF IInv

LEMMA KeptByFailure ==
    ASSUME IInv, connection_lost \/ restart_server \/ restart_client
    PROVE  IInv'
  <1> USE TransferAssumption
  <1>1. faults \in 0..MaxFaults /\ crashes \in 0..MaxCrashes /\ is_stored \in BOOLEAN
    BY DEF IInv, TypeOK
  <1>2. /\ disconnected
        /\ UNCHANGED <<file_vars, source, version>>
        /\ client_iv' \in {client_iv, Unset} /\ server_iv' \in {server_iv, Unset}
        /\ is_stored' \in BOOLEAN
    BY <1>1 DEF connection_lost, restart_server, restart_client, iv_vars, source_vars
  <1>3. faults' \in 0..MaxFaults /\ crashes' \in 0..MaxCrashes
    BY <1>1 DEF connection_lost, restart_server, restart_client, bound_vars
  <1> QED
    BY <1>2, <1>3, KeptByDisconnected

\* A conversation goes on whatever is done to the source.
LEMMA KeptByEdit ==
    ASSUME IInv, edit_source
    PROVE  IInv'
  <1> USE TransferAssumption
  <1>1. /\ version < MaxEdits /\ version' = version + 1
        /\ UNCHANGED <<client_vars, server_vars, c2s, s2c, iv_vars, file_vars, is_stored,
                       bound_vars>>
    BY DEF edit_source
  <1>2. version \in 0..MaxEdits /\ version \in Nat
    BY DEF IInv, TypeOK
  <1>3. source' \in source_until(version')
    BY <1>1, <1>2 DEF edit_source, source_until
  <1>4. source_until(version) \subseteq source_until(version')
    BY <1>1, <1>2 DEF source_until
  <1>5. TypeOK'
    BY <1>1, <1>2
    DEF IInv, TypeOK, client_vars, server_vars, iv_vars, file_vars, bound_vars
  <1>6. Conversation'
    <2>1. in_order(s2c, bytes_written, version) => in_order(s2c', bytes_written', version')
      BY <1>1, <1>2, InOrderLater DEF client_vars
    <2> HIDE TransferAssumption
    <2> QED
      BY <1>1, <2>1
      DEF IInv, Conversation, HandshakeSent, HandshakeAnswered, FileRequested, FileOffered,
          FileRefused, FileConfirmed, FileSent, ClientGone, client_vars, server_vars
  <1>7. FirstIV' /\ stream_buffer' = <<>>
    BY <1>1 DEF IInv, FirstIV, client_vars, server_vars, iv_vars
  <1>8. Files'
    BY <1>1, <1>3, <1>4 DEF IInv, Files, client_vars, server_vars, file_vars
  <1> QED
    BY <1>5, <1>6, <1>7, <1>8 DEF IInv

\* Neither does the conversation depend on what the server lists.
LEMMA KeptIfOnlyIndexChanges ==
    ASSUME IInv, is_stored' \in BOOLEAN,
           UNCHANGED <<client_vars, server_vars, c2s, s2c, iv_vars, file_vars, source,
                       version, bound_vars>>
    PROVE  IInv'
  BY DEF IInv, TypeOK, Conversation, HandshakeSent, HandshakeAnswered, FileRequested,
         FileOffered, FileRefused, FileConfirmed, FileSent, ClientGone, FirstIV, Files,
         client_vars, server_vars, iv_vars, file_vars, bound_vars

LEMMA StepKeepsIInv == IInv /\ [Next]_vars => IInv'
  <1> SUFFICES ASSUME IInv, [Next]_vars PROVE IInv'
    OBVIOUS
  <1>1. CASE initialize_communication
    BY <1>1, KeptByInitialize
  <1>2. CASE client_step
    BY <1>2, KeptByReadHandshake, KeptByReadResponse, KeptByReadChunk, KeptByFinalize
    DEF client_step
  <1>3. CASE server_step
    BY <1>3, KeptByRespondEncrypted, KeptByReadHeader, KeptByReadConfirmation,
       KeptByWriteFile
    DEF server_step
  <1>4. CASE peer_closed
    BY <1>4, KeptByPeerClosed
  <1>5. CASE connection_lost \/ restart_server \/ restart_client
    BY <1>5, KeptByFailure
  <1>6. CASE edit_source
    BY <1>6, KeptByEdit
  <1>7. CASE refresh_index
    BY <1>7, KeptIfOnlyIndexChanges DEF refresh_index
  <1>8. CASE UNCHANGED vars
    <2>1. is_stored' \in BOOLEAN
      BY <1>8 DEF IInv, TypeOK, vars, source_vars
    <2> QED
      BY <1>8, <2>1, KeptIfOnlyIndexChanges DEF vars, source_vars
  <1> QED
    BY <1>1, <1>2, <1>3, <1>4, <1>5, <1>6, <1>7, <1>8 DEF Next

-----------------------------------------------------------------------------
(* Theorems *)

\* Every state of every conversation is one of the eight above, with its
\* counters, ciphers and files: what all the results below follow from.
THEOREM ConversationAlways == Spec => []IInv
  BY InitIInv, StepKeepsIInv, PTL DEF Spec

\* The types hold, and with them that no session uses more than five nonces.
THEOREM TypeCorrect == Spec => []TypeOK
  <1>1. IInv => TypeOK
    BY DEF IInv
  <1> QED
    BY <1>1, ConversationAlways, PTL

\* No message that arrives, on either side, in whichever attempt and after
\* whichever failures, fails to open.
THEOREM CountersAlwaysInStep == Spec => []CountersInStep
  <1>1. IInv => CountersInStep
    <2> SUFFICES ASSUME IInv PROVE CountersInStep
      OBVIOUS
    <2>0. bytes_written \in 0..Size
      BY DEF IInv, TypeOK
    <2>1. ASSUME server \in {"read", "read_confirmation"}, c2s # <<>>
          PROVE  \/ c2s = <<sealed("file", 1, bytes_written)>> /\ server_count = 1
                 \/ c2s = <<sealed("accepted", 3, 0)>> /\ server_count = 3
      BY <2>1 DEF IInv, Conversation, HandshakeSent, HandshakeAnswered, FileRequested,
         FileOffered, FileRefused, FileConfirmed, FileSent, ClientGone
    <2>2. ASSUME client \in {"handshake", "requested"}, s2c # <<>>
          PROVE  \/ s2c = <<sealed("accepted", 0, 0)>> /\ client_count = 0
                 \/ s2c = <<sealed("accepted", 2, 0)>> /\ client_count = 2
      BY <2>2 DEF IInv, Conversation, HandshakeSent, HandshakeAnswered, FileRequested,
         FileOffered, FileRefused, FileConfirmed, FileSent, ClientGone
    <2>3. /\ opens(sealed("file", 1, bytes_written), 1)
          /\ opens(sealed("accepted", 3, 0), 3)
          /\ opens(sealed("accepted", 0, 0), 0)
          /\ opens(sealed("accepted", 2, 0), 2)
      BY <2>0, TransferAssumption, SealedMessage DEF count_limit
    <2> QED
      BY <2>1, <2>2, <2>3 DEF CountersInStep
  <1> QED
    BY <1>1, ConversationAlways, PTL

\* No byte of a file is ever read into the buffer of the headers.
THEOREM NothingEverLeftBehind == Spec => []NothingLeftBehind
  <1>1. IInv => NothingLeftBehind
    BY DEF IInv, NothingLeftBehind
  <1> QED
    BY <1>1, ConversationAlways, PTL

\* Client and server never wait for each other: of the eight places there is none
\* in which nothing is in flight and neither has anything to do.
THEOREM NobodyEverWaitsForNothing == Spec => []NobodyWaitsForNothing
  <1>1. IInv => NobodyWaitsForNothing
    <2> SUFFICES ASSUME IInv, client \in {"handshake", "requested", "receiving"}, s2c = <<>>
                 PROVE  NobodyWaitsForNothing
      BY DEF NobodyWaitsForNothing
    <2>1. server = "none" => eof_at_client
      BY DEF IInv, eof_at_client
    <2>2. server = "write_file" => readable # {}
      BY DEF IInv, Files, readable
    <2>3. CASE server \in {"none", "write_file"}
      BY <2>1, <2>2, <2>3 DEF NobodyWaitsForNothing
    <2>4. CASE server \notin {"none", "write_file"}
      <3>1. HandshakeSent \/ FileRequested \/ FileConfirmed
        BY <2>4 DEF IInv, Conversation, HandshakeAnswered, FileOffered, FileRefused, FileSent,
           ClientGone
      <3>2. \A m : <<m>> # <<>>
        OBVIOUS
      <3> QED
        BY <3>1, <3>2 DEF HandshakeSent, FileRequested, FileConfirmed, NobodyWaitsForNothing
    <2> QED
      BY <2>3, <2>4
  <1> QED
    BY <1>1, ConversationAlways, PTL

\* Two processes that have transferred a file, with whomever they began, use the
\* same IV.
THEOREM AlwaysSameIV == Spec => []SameIV
  <1>1. IInv => SameIV
    BY DEF IInv, FirstIV, SameIV
  <1> QED
    BY <1>1, ConversationAlways, PTL

-----------------------------------------------------------------------------
(* Transfer implements FileCopy *)

\* The bytes received so far, whether the partial file exists or not.
received == IF tmp = Absent THEN <<>> ELSE tmp

\* An empty partial file and none at all are the same to FileCopy.
LEMMA OpenIsStutter ==
    ASSUME IInv, handle_read_handshake
    PROVE  UNCHANGED <<version, received, copy>>
  <1>1. tmp' \in {tmp, IF tmp = Absent THEN <<>> ELSE tmp} /\ UNCHANGED <<version, copy>>
    BY DEF handle_read_handshake, source_vars
  <1>2. <<>> # Absent
    <2>1. <<>> \in Seq(chunks)
      OBVIOUS
    <2> QED
      BY <2>1, FileIsNotAbsent
  <1> QED
    BY <1>1, <1>2 DEF received

LEMMA ChunkIsExtend ==
    ASSUME IInv, handle_read_file_chunk
    PROVE  Copy!Extend
  <1>1. PICK v \in 0..version : tmp' = Append(tmp, [at |-> Len(tmp) + 1, version |-> v])
    BY ChunkReceived
  <1>2. /\ tmp # Absent /\ tmp \in Seq(chunks) /\ Len(tmp) < Size
        /\ version \in 0..MaxEdits
    BY DEF handle_read_file_chunk, IInv, TypeOK, Files
  <1>3. tmp' # Absent
    <2>1. [at |-> Len(tmp) + 1, version |-> v] \in chunks
      BY <1>2, TransferAssumption DEF chunks
    <2>2. tmp' \in Seq(chunks)
      BY <1>1, <1>2, <2>1
    <2> QED
      BY <2>2, FileIsNotAbsent
  <1>4. UNCHANGED <<version, copy>>
    BY DEF handle_read_file_chunk, source_vars
  <1> QED
    BY <1>1, <1>2, <1>3, <1>4 DEF Copy!Extend

LEMMA FinalizeIsPublish ==
    ASSUME IInv, finalize_file
    PROVE  Copy!Publish
  <1>1. tmp # Absent /\ Len(tmp) = Size /\ copy = Absent
    BY DEF finalize_file, IInv, Files
  <1>2. copy' = tmp /\ tmp' = Absent /\ UNCHANGED version
    BY DEF finalize_file, source_vars
  <1> QED
    BY <1>1, <1>2 DEF Copy!Publish

\* Every step of the two sessions, every failure and every edit is a step of
\* FileCopy or none.
LEMMA StepIsFileCopyStep == IInv /\ [Next]_vars => [Copy!Next]_(Copy!vars)
  <1> SUFFICES ASSUME IInv, [Next]_vars PROVE [Copy!Next]_(Copy!vars)
    OBVIOUS
  <1>1. ASSUME UNCHANGED <<version, received, copy>> PROVE UNCHANGED Copy!vars
    BY <1>1 DEF received, Copy!vars
  <1>2. CASE handle_read_handshake
    BY <1>1, <1>2, OpenIsStutter
  <1>3. CASE handle_read_file_chunk
    BY <1>3, ChunkIsExtend DEF Copy!Next
  <1>4. CASE finalize_file
    BY <1>4, FinalizeIsPublish DEF Copy!Next
  <1>5. CASE edit_source
    BY <1>5 DEF edit_source, file_vars, Copy!Next, Copy!Change
  <1>6. CASE UNCHANGED <<version, tmp, copy>>
    BY <1>1, <1>6 DEF received
  <1>7. \/ handle_read_handshake \/ handle_read_file_chunk \/ finalize_file \/ edit_source
        \/ UNCHANGED <<version, tmp, copy>>
    BY DEF Next, vars, file_vars, source_vars, initialize_communication, client_step,
           handle_read_file_request_response, server_step, respond_encrypted,
           handle_read_header, handle_read_confirmation, write_file, peer_closed,
           connection_lost, restart_server, restart_client, refresh_index
  <1> QED
    BY <1>2, <1>3, <1>4, <1>5, <1>6, <1>7

\* Whatever happens to connections and processes, the partial file only grows by
\* the next chunk of the source and is published exactly when it is complete.
THEOREM TransferImplementsFileCopy == Spec => ImplementsFileCopy
  <1>1. Init => Copy!Init
    BY DEF Init, Copy!Init
  <1> QED
    BY <1>1, StepIsFileCopyStep, ConversationAlways, PTL DEF Spec, ImplementsFileCopy, Copy!Spec

-----------------------------------------------------------------------------
(* What FileCopyProofs proves of FileCopy holds of Transfer *)

CP == INSTANCE FileCopyProofs WITH partial <- IF tmp = Absent THEN <<>> ELSE tmp

\* The names of CP and those of Copy stand for the same formulas.
LEMMA SameFileCopy ==
    /\ CP!Init <=> Copy!Init
    /\ [CP!Next]_(CP!vars) <=> [Copy!Next]_(Copy!vars)
    /\ CP!CopyInPlace <=> Copy!CopyInPlace
    /\ CP!CopyIsSource <=> Copy!CopyIsSource
  BY DEF CP!Init, Copy!Init, CP!Next, Copy!Next, CP!vars, Copy!vars, CP!Change, Copy!Change,
         CP!Extend, Copy!Extend, CP!Publish, Copy!Publish, CP!CopyInPlace,
         Copy!CopyInPlace, CP!CopyIsSource, Copy!CopyIsSource

\* Every copy has the announced length and every chunk at its place, and is the
\* source if nobody changed that, however it came to be.
THEOREM CopyAlwaysCorrect == Spec => []CopyCorrect
  <1>1. Size \in Nat
    BY TransferAssumption
  <1>2. CP!Spec => [](CP!CopyInPlace /\ CP!CopyIsSource)
    BY <1>1, CP!CopyIsAlwaysInPlace, CP!CopyIsAlwaysSource, PTL
  <1>3. Copy!Spec => CP!Spec
    BY SameFileCopy, PTL DEF Copy!Spec, CP!Spec
  <1>4. CP!CopyInPlace /\ CP!CopyIsSource <=> CopyCorrect
    BY SameFileCopy DEF CopyCorrect
  <1> QED
    BY <1>2, <1>3, <1>4, TransferImplementsFileCopy, PTL DEF ImplementsFileCopy
=============================================================================
