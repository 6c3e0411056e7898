------------------------------ MODULE Receiver ------------------------------
(***************************************************************************)
(* The downloading side of mfsync: file_receive_handler's get_files loop,  *)
(* the request queue (concurrent::deque) and the life of its client        *)
(* sessions, composed with the file_handler they share (FileHandler.tla).  *)
(*                                                                         *)
(* get_files is one chain of timer callbacks, so its steps are sequential, *)
(* but they interleave with the sessions on the other io threads: the      *)
(* decision to queue a file is taken from two reads of the file_handler    *)
(* that do not hold its mutex (in_progress), a request waits in the queue, *)
(* and create_file decides again when the peer has answered.               *)
(*                                                                         *)
(* Peers are the environment: each shares a fixed catalog and may leave. A *)
(* connection may break, or go silent: the peer hangs or drops off the     *)
(* network without closing it, and nothing in the code bounds a read.      *)
(***************************************************************************)
EXTENDS Naturals, Sequences

CONSTANTS
    Names, Sizes, Hosts, Sessions, Capacity, Absent,
    Catalog,      \* [Hosts -> [Names -> Sizes or Absent]]: what each peer shares
    Invocations,  \* what "mfsync get" is given; {} asks for everything
    StartsWith,   \* pairs <<n, w>>: name n starts with target w
    Leaving,      \* peers that may go away for good
    MaxFaults,    \* bound: connections lost or gone silent
    MaxCrashes    \* bound: restarts of this process

VARIABLES
    root, disk, tmp, stored_files, available_files, locked_files, stream,
    init_thread, to_scan, storage_init_is_in_progress, touched

fh_vars == <<root, disk, tmp, stored_files, available_files, locked_files, stream,
             init_thread, to_scan, storage_init_is_in_progress, touched>>

FH == INSTANCE FileHandler

ASSUME ReceiverAssumption ==
    /\ FH!FileHandlerAssumption /\ Absent \notin Names
    /\ Catalog \in [Hosts -> [Names -> Sizes \cup {Absent}]]
    /\ StartsWith \subseteq Names \X UNION Invocations
    /\ Leaving \subseteq Hosts
    /\ MaxFaults \in Nat /\ MaxCrashes \in Nat

VARIABLES
    request_queue,      \* available_files waiting for a session
    phase,              \* each session slot's progress; "expired": no session
    requested,          \* the available_file a live session was started for
    pc,                 \* get_files: "wait", "fill" or "start"
    todo,               \* names of the snapshot still to be looked at
    checked,            \* the name exists_internal has just denied, or Absent
    slots,              \* slots start_new_session has yet to visit
    targets,            \* the files given on the command line
    files_to_request,   \* the targets not stored yet
    promise,            \* has promise_ been fulfilled: "mfsync get" returns
    online,             \* peers that are there
    faults, crashes

loop_vars == <<pc, todo, checked, slots, targets, files_to_request, promise>>
session_vars == <<phase, requested>>
env_vars == <<online, faults, crashes>>
vars == <<fh_vars, request_queue, loop_vars, session_vars, env_vars>>

expired(s) == phase[s] = "expired"
request_all == targets = {}

-----------------------------------------------------------------------------
(* get_files *)

\* The names a round looks at: all that is announced, or what starts with one
\* of the targets.
wanted(n) == request_all \/ \E w \in files_to_request : <<n, w>> \in StartsWith

get_files ==
    /\ pc = "wait"
    /\ \E s \in Sessions : expired(s)
    /\ pc' = "fill"
    /\ todo' = {n \in Names : available_files[n] # Absent /\ wanted(n)}
    /\ UNCHANGED <<fh_vars, request_queue, checked, slots, targets, files_to_request, promise,
                   session_vars, env_vars>>

\* Sensitivity: the queue is not searched for the name.
in_queue_never(n) == FALSE

in_queue(n) == \E i \in DOMAIN request_queue : request_queue[i].file_info.file_name = n

\* add_to_request_queue up to the first read of in_progress ...
check_exists(n) ==
    /\ pc = "fill" /\ checked = Absent
    /\ n \in todo
    /\ IF in_queue(n) \/ FH!exists_internal(n)
       THEN todo' = todo \ {n} /\ checked' = checked
       ELSE todo' = todo /\ checked' = n
    /\ UNCHANGED <<fh_vars, request_queue, pc, slots, targets, files_to_request, promise,
                   session_vars, env_vars>>

\* Sensitivity: new requests jump the queue.
push_front(q, file) == <<file>> \o q

push_back(q, file) == Append(q, file)

\* ... and from its second read to the push.
check_blocked ==
    /\ pc = "fill" /\ checked # Absent
    /\ LET file == available_files[checked]
       IN  request_queue' = IF FH!is_blocked_internal(file.file_info) THEN request_queue
                            ELSE push_back(request_queue, file)
    /\ todo' = todo \ {checked}
    /\ checked' = Absent
    /\ UNCHANGED <<fh_vars, pc, slots, targets, files_to_request, promise, session_vars,
                   env_vars>>

\* Sensitivity: a file whose partial file exists counts as stored.
is_stored_or_started(w) == w \in Names /\ (stored_files[w] # Absent \/ tmp[w] # Absent)

\* Sensitivity: an empty queue ends the round before the targets are looked at.
is_stored_if_busy(w) == request_queue # <<>> /\ w \in Names /\ FH!exists_internal(w)

\* A target is stored when a file of exactly that name is.
is_stored(w) == w \in Names /\ FH!exists_internal(w)

\* With nothing queued a round for all files ends; a round for given files
\* first forgets the targets that are stored by now.
filled ==
    /\ pc = "fill" /\ checked = Absent /\ todo = {}
    /\ files_to_request' = {w \in files_to_request : ~is_stored(w)}
    /\ promise' = (promise \/ (~request_all /\ files_to_request' = {}))
    /\ IF request_all /\ request_queue = <<>>
       THEN pc' = "wait" /\ slots' = {}
       ELSE pc' = "start" /\ slots' = Sessions
    /\ UNCHANGED <<fh_vars, request_queue, todo, checked, targets, session_vars, env_vars>>

\* start_new_session at slot s: an expired slot gets a session, which takes the
\* oldest request or, with an empty queue, expires at once.
start_new_session(s) ==
    /\ pc = "start"
    /\ s \in slots
    /\ slots' = slots \ {s}
    /\ pc' = IF slots = {s} THEN "wait" ELSE "start"
    /\ IF expired(s) /\ request_queue # <<>>
       THEN /\ request_queue' = Tail(request_queue)
            /\ requested' = [requested EXCEPT ![s] = Head(request_queue)]
            /\ phase' = [phase EXCEPT ![s] = "connecting"]
       ELSE UNCHANGED <<request_queue, session_vars>>
    /\ UNCHANGED <<fh_vars, todo, checked, targets, files_to_request, promise, env_vars>>

-----------------------------------------------------------------------------
(* Client sessions *)

expire(s) ==
    /\ phase' = [phase EXCEPT ![s] = "expired"]
    /\ requested' = [requested EXCEPT ![s] = Absent]

\* Sensitivity: the stream is closed and its lock stays.
drop_stream_locked(s) ==
    /\ stream' = [stream EXCEPT ![s] = Absent]
    /\ UNCHANGED <<root, disk, tmp, stored_files, available_files, locked_files,
                   init_thread, to_scan, storage_init_is_in_progress, touched>>

\* Sensitivity: something else still refers to the session.
drop_stream_held(s) == UNCHANGED fh_vars

\* The last reference to a session goes, and with it the stream it may hold.
drop_stream(s) ==
    IF stream[s] = Absent THEN UNCHANGED fh_vars ELSE FH!close_stream(s)

session_ends(s) ==
    /\ expire(s)
    /\ drop_stream(s)
    /\ UNCHANGED <<request_queue, loop_vars>>

reachable(s) == requested[s].source \in online

\* async_connect and the handshake.
connect(s) ==
    /\ phase[s] = "connecting" /\ reachable(s)
    /\ phase' = [phase EXCEPT ![s] = "connected"]
    /\ UNCHANGED <<fh_vars, request_queue, loop_vars, requested, env_vars>>

connect_fails(s) ==
    /\ phase[s] = "connecting" /\ ~reachable(s)
    /\ session_ends(s)
    /\ UNCHANGED env_vars

\* create_file returns no stream: the file exists, is locked, does not fit, or
\* is there without being indexed yet.
create_refused(file) ==
    \/ \E known \in FH!reads(stored_files) : file.file_info.file_name \in known
    \/ FH!is_blocked_internal(file.file_info)
    \/ ~FH!can_be_stored(file.file_info)
    \/ FH!path_exists(file.file_info.file_name)

request_file(s) ==
    /\ phase[s] = "connected"
    /\ \/ /\ FH!create_file(s, requested[s].file_info.file_name)
          /\ phase' = [phase EXCEPT ![s] = "requested"]
          /\ UNCHANGED <<request_queue, loop_vars, requested>>
       \/ create_refused(requested[s]) /\ session_ends(s)
    /\ UNCHANGED env_vars

\* bytes_left <= 0, of an unsigned bytes_left.
nothing_left(s) == stream[s].pos = stream[s].file_info.size

\* The peer confirms. read_file_chunk ends a session that has nothing to read:
\* it finalizes nothing.
confirm(s) ==
    /\ phase[s] = "requested" /\ reachable(s)
    /\ IF nothing_left(s)
       THEN session_ends(s)
       ELSE /\ phase' = [phase EXCEPT ![s] = "receiving"]
            /\ UNCHANGED <<fh_vars, request_queue, loop_vars, requested>>
    /\ UNCHANGED env_vars

read_chunk(s) ==
    /\ phase[s] = "receiving" /\ reachable(s)
    /\ FH!write_chunk(s)
    /\ UNCHANGED <<request_queue, loop_vars, session_vars, env_vars>>

\* A partial file longer than the announced size: bytes_left wraps around, the
\* peer has nothing at that offset and closes the connection.
read_past_end(s) ==
    /\ phase[s] = "receiving"
    /\ ~stream[s].complete /\ stream[s].pos > stream[s].file_info.size
    /\ session_ends(s)
    /\ UNCHANGED env_vars

finalize(s) ==
    /\ phase[s] = "receiving"
    /\ stream[s].complete
    /\ \/ /\ FH!finalize_file(s)
          /\ expire(s)
          /\ UNCHANGED <<request_queue, loop_vars>>
       \/ /\ \E known \in FH!reads(stored_files) : stream[s].file_info.file_name \in known
          /\ session_ends(s)
    /\ UNCHANGED env_vars

waits_for_peer(s) ==
    \/ phase[s] \in {"connected", "requested"}
    \/ phase[s] = "receiving" /\ ~stream[s].complete

\* The peer is gone and TCP has noticed. handle_error does nothing.
connection_closed(s) ==
    /\ waits_for_peer(s) /\ ~reachable(s)
    /\ session_ends(s)
    /\ UNCHANGED env_vars

session_step(s) ==
    \/ connect(s) \/ connect_fails(s) \/ request_file(s) \/ confirm(s)
    \/ read_chunk(s) \/ read_past_end(s) \/ finalize(s) \/ connection_closed(s)

-----------------------------------------------------------------------------
(* The storage thread, peers and failures *)

storage_thread ==
    /\ \/ FH!init_storage
       \/ \E n \in Names : FH!scan_entry(n)
       \/ FH!scan_done
    /\ UNCHANGED <<request_queue, loop_vars, session_vars, env_vars>>

\* A peer's announcement was heard and its file list fetched.
announce(h) ==
    /\ h \in online
    /\ FH!add_available_files(h, Catalog[h])
    /\ UNCHANGED <<request_queue, loop_vars, session_vars, env_vars>>

leave(h) ==
    /\ h \in Leaving \cap online
    /\ online' = online \ {h}
    /\ UNCHANGED <<fh_vars, request_queue, loop_vars, session_vars, faults, crashes>>

\* A connection breaks, or the peer refuses, although the peer stays.
connection_lost(s) ==
    /\ faults < MaxFaults
    /\ waits_for_peer(s) /\ reachable(s)
    /\ session_ends(s)
    /\ faults' = faults + 1
    /\ UNCHANGED <<online, crashes>>

\* Nothing more comes on a connection that stays open. The pending read has no
\* timeout: the session keeps its slot, and the stream and lock it may hold.
goes_silent(s) ==
    /\ faults < MaxFaults
    /\ phase[s] = "connecting" \/ waits_for_peer(s)
    /\ reachable(s)
    /\ phase' = [phase EXCEPT ![s] = "silent"]
    /\ faults' = faults + 1
    /\ UNCHANGED <<fh_vars, request_queue, loop_vars, requested, online, crashes>>

crash ==
    /\ crashes < MaxCrashes
    /\ FH!crash
    /\ request_queue' = <<>>
    /\ phase' = [s \in Sessions |-> "expired"]
    /\ requested' = [s \in Sessions |-> Absent]
    /\ pc' = "wait" /\ todo' = {} /\ checked' = Absent /\ slots' = {}
    /\ files_to_request' = targets
    /\ promise' = FALSE
    /\ crashes' = crashes + 1
    /\ UNCHANGED <<targets, online, faults>>

\* The sink of a chunk that does not fit throws out of the handler.
write_fails(s) ==
    /\ phase[s] = "receiving" /\ reachable(s)
    /\ ~stream[s].complete /\ FH!device_full
    /\ crash

-----------------------------------------------------------------------------

Init ==
    /\ FH!Init
    /\ root
    /\ request_queue = <<>>
    /\ phase = [s \in Sessions |-> "expired"]
    /\ requested = [s \in Sessions |-> Absent]
    /\ pc = "wait" /\ todo = {} /\ checked = Absent /\ slots = {}
    /\ targets \in Invocations
    /\ files_to_request = targets
    /\ promise = FALSE
    /\ online = Hosts
    /\ faults = 0 /\ crashes = 0

Next ==
    \/ get_files
    \/ \E n \in Names : check_exists(n)
    \/ check_blocked
    \/ filled
    \/ \E s \in Sessions : start_new_session(s)
    \/ \E s \in Sessions : session_step(s)
    \/ storage_thread
    \/ \E h \in Hosts : announce(h)
    \/ \E h \in Hosts : leave(h)
    \/ \E s \in Sessions : connection_lost(s)
    \/ \E s \in Sessions : goes_silent(s)
    \/ \E s \in Sessions : write_fails(s)
    \/ crash

\* The timer of get_files is re-armed at the end of every round, the io threads
\* run every handler that is ready, a peer that is there answers and goes on
\* announcing its list, and the storage thread runs to its end.
Fairness ==
    /\ WF_vars(get_files)
    /\ WF_vars(\E n \in Names : check_exists(n))
    /\ WF_vars(check_blocked)
    /\ WF_vars(filled)
    /\ WF_vars(\E s \in Sessions : start_new_session(s))
    /\ \A s \in Sessions : WF_vars(session_step(s))
    /\ WF_vars(storage_thread)
    /\ \A h \in Hosts : WF_vars(announce(h))

Spec == Init /\ [][Next]_vars /\ Fairness

-----------------------------------------------------------------------------
(* Properties *)

phases == {"expired", "connecting", "connected", "requested", "receiving", "silent"}

\* Every variable has its type; a slot has a request exactly while its session
\* lives, and a stream exactly while the session is past create_file (a silent
\* one may have stopped on either side of it).
TypeOK ==
    /\ FH!TypeOK
    /\ request_queue \in Seq(FH!available_file)
    /\ phase \in [Sessions -> phases]
    /\ requested \in [Sessions -> FH!available_file \cup {Absent}]
    /\ \A s \in Sessions : expired(s) <=> requested[s] = Absent
    /\ \A s \in Sessions :
          phase[s] # "silent" => (phase[s] \in {"requested", "receiving"} <=> stream[s] # Absent)
    /\ pc \in {"wait", "fill", "start"}
    /\ todo \subseteq Names /\ slots \subseteq Sessions
    /\ checked \in Names \cup {Absent}
    /\ targets \in Invocations
    /\ files_to_request \subseteq targets /\ promise \in BOOLEAN
    /\ online \subseteq Hosts
    /\ faults \in 0..MaxFaults /\ crashes \in 0..MaxCrashes

\* Everything the loop and its sessions do to the storage is something the
\* file_handler allows: what holds of FileHandler holds here.
ImplementsFileHandler == FH!Spec

\* A file waits in the queue at most once, so one dead announcement cannot
\* fill it.
QueueHasNoDuplicates ==
    \A i, j \in DOMAIN request_queue :
        request_queue[i].file_info.file_name = request_queue[j].file_info.file_name => i = j

\* A lock belongs to a session that lives and was started for just that file,
\* although its request has waited in the queue while lists went on arriving: no
\* way for a session to end leaves one behind to block the next attempt.
LocksHaveSessions ==
    \A lock \in locked_files :
        ~expired(lock.owner) /\ requested[lock.owner].file_info = lock.file

\* A file appears in the directory only whole, with the size announced for its
\* name, whichever part of it earlier attempts and processes have received, and
\* a file that is there is neither replaced nor removed.
OnlyWholeFilesAppear ==
    [][\A n \in Names : disk'[n] # disk[n] =>
          /\ disk[n] = Absent
          /\ available_files[n] # Absent
          /\ disk'[n] = available_files[n].file_info.size]_vars

\* All of n has been received, or more than any peer calls n, and it is not in
\* the directory; no session is about to put it there.
all_received(n) ==
    /\ tmp[n] # Absent /\ disk[n] = Absent
    /\ \A h \in Hosts : Catalog[h][n] # Absent => tmp[n] >= Catalog[h][n]
    /\ \A s \in Sessions : FH!writes_to(s, n) => ~stream[s].complete

\* A download that got all its chunks in a session that did not get to
\* finalize_file is over for good: no later session, whoever serves it, finds
\* anything to write, finalizes it or starts it again, restarts included. What
\* InterruptedIsContinued runs into is not a matter of bad luck.
AllReceivedIsStuck ==
    [][\A n \in Names : all_received(n) => all_received(n)' /\ tmp'[n] = tmp[n]]_vars

\* "mfsync get" returns only when every file it was given is completely there.
PromiseMeansStored == promise => \A w \in targets : w \in Names /\ disk[w] # Absent

offered(n) == available_files[n] # Absent /\ available_files[n].source \in online

held_in_silence(n) == \E s \in Sessions : phase[s] = "silent" /\ FH!writes_to(s, n)

\* A file whose announcing peer stays is eventually stored, whatever happens to
\* other peers and although connections break, without a slot or a lock being
\* lost on the way. A connection that goes silent costs the file it has locked
\* and no other.
OfferedIsRetrieved ==
    \A n \in Names :
        <>[](offered(n) /\ wanted(n) /\ ~held_in_silence(n)) => <>(disk[n] # Absent)

\* A download that was interrupted is eventually continued to its end as long
\* as the file is offered.
InterruptedIsContinued ==
    \A n \in Names : ~<>[](tmp[n] # Absent /\ offered(n) /\ wanted(n))

\* The README's reason to exist: a file some peer keeps sharing is eventually
\* stored even if the host it was first heard from is gone.
SharedIsRetrieved ==
    \A n \in Names :
        [](\E h \in online : Catalog[h][n] # Absent) => <>(disk[n] # Absent)

\* "mfsync get" returns once everything it was asked for is stored.
GetReturns ==
    (targets # {} /\
     <>[](\A w \in targets : \A n \in Names : <<n, w>> \in StartsWith => disk[n] # Absent))
    => <>promise

=============================================================================
