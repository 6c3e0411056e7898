# A TLA+ verification project for mfsync

mfsync synchronises directories between hosts of a network: every host announces
itself over multicast, asks the hosts it hears for the list of their files over an
encrypted TCP session, and downloads what it does not have. This directory holds TLA+
models of that program, written from its C++ sources, the TLC configurations that
check them on small instances, and TLAPS proofs for every size.

`PROJECT.json` lists the runs, the mutants that show each property can fail, the source
lines behind every definition, the findings, the hazards and the theorems.

## The system

| part | state it keeps | operations | hard because |
| --- | --- | --- | --- |
| `file_handler` | storage directory, `stored_files_`, `available_files_`, `locked_files_`, init flags | `init_storage`, `add_available_files`, `create_file`, `finalize_file`, `read_file`, `in_progress`, `is_stored` | the storage thread scans without the mutex; some reads take no lock; locks compare name and size, partial files are found by name; users change the directory |
| `ofstream_wrapper` | an open partial file, a weak token | open, write, destructor | the destructor is the only thing that releases a lock on the many paths that drop a session |
| `file_receive_handler`, `concurrent::deque` | `request_queue_`, session slots (`weak_ptr`s), `files_to_request_`, the promise `main` waits for | `get_files` every 50 ms, `start_new_session` | checks now, uses later; a fixed number of slots; requests that can never succeed |
| `client_session` | `requested_`, stream, derived crypto handler, `stream_buffer_`, bytes written | handshake, request, confirm, chunks, finalize | resuming, every error path just returns, no timeouts |
| `server_session` | requested file, input stream, derived crypto handler | handshake, file list, request, confirmation, chunks | the file changes between the check and the reading |
| `crypto_handler` | the key file; allowed keys; per session: shared key and nonce counter; per process: two static IVs | `init`, `derive`, `encrypt`, `decrypt`, `encrypt_file_to_buf`, `decrypt_file_to_buf` | the key is made when it is missing and written in place; both sides count for sealing and opening alike; the IVs outlive sessions |
| `file_sender`, `file_fetcher` | a socket, a timer, a chain of callbacks | announce, receive | datagrams; an error ends the chain; a session per announcement |
| `server` | acceptor | listen, accept | the port may be taken; an error ends the chain |
| `protocol` | none | messages to and from JSON | an error reply without an end mark |
| `main` | which parts and threads run | start, wait, stop, the ways out in between | the storage thread races with everything started after it; threads use main's locals; each way out destroys what was started before it |
| `progress_handler` | bars, a thread, `running_` | start, stop, destructor | the destructor waits for a thread only `stop` ends |

The parts meet in four places. The storage thread, the `get_files` loop and all sessions
call one `file_handler`. Processes of different hosts meet on TCP connections (a client
session with a server session) and over multicast (a sender with every fetcher). Those of
one machine share the key file and the ports. The user meets all of them in the storage
directory.

What makes each part correct: *file_handler*: one writer per partial file, no lock
without a stream, an index that tells the truth, no file of the user replaced, nothing
received thrown away. *Receiver*: every offered file is stored in the end, `get` returns
when and only when its files are there, no request is queued twice. *Sessions*: nonces and
IVs agree, no chunk is lost or misplaced, resuming continues where it stopped. *Discovery*:
offers come from mutually trusting hosts that had the file; what is kept is heard of.
*All hosts together*: every file anywhere is a file some user shared, whole, and it reaches
every host that stays. *main*: one identity per machine, no thread outlives what it uses,
a process that is done ends.

## Modules

| module | models |
| --- | --- |
| `FileHandler` | the storage and everything that acts on it |
| `FileHandlerProofs` | theorems about it |
| `Receiver` | the download loop, its queue and its sessions, composed with `FileHandler` (`FH == INSTANCE FileHandler`) |
| `ReceiverProofs` | theorems about it, composed with those of `FileHandlerProofs` |
| `Transfer` | one file between a server session and a client session, message by message |
| `TransferProofs` | theorems about it, the refinement among them |
| `FileCopy` | what a transfer promises: the abstract specification `Transfer` implements |
| `FileCopyProofs` | theorems about that promise |
| `Discovery` | announcements, file list sessions and trust between several hosts |
| `Offers` | what discovery promises: the abstract specification `Discovery` implements |
| `DiscoveryProofs` | theorems about `Discovery`, the refinement among them |
| `Swarm` | several hosts that synchronise: whose chunks a file ends up with, and whom it reaches |
| `Replication` | what such a network promises: the abstract specification `Swarm` implements |
| `ReplicationProofs` | theorems about that promise |
| `SwarmProofs` | theorems about `Swarm`, the refinement among them |
| `Main` | processes on one machine: the key file, starting, waiting, stopping, threads |
| `MainProofs` | theorems about it |
| `MCFileHandler`, `MCReceiver`, `MCTransfer`, `MCDiscovery`, `MCSwarm`, `MCMain` | instances for TLC |

Definitions whose comment begins with "Sensitivity:" are faulty variants of the definition
after them; nothing uses them but the mutants of `PROJECT.json`.

### FileHandler

`disk` and `tmp` are the finished and the partial (`<name>.mfsync`) files by length;
`stored_files` and `available_files` are the two `std::set`s, which are ordered by name
only and so are functions of the name: `insert` keeps the entry that is there
(`available_or_new`). `locked_files` holds the lock entries whose token is still true,
`stream` the open `ofstream_wrapper` of each session.

* Calls that hold `mutex_` are one action each. `update_stored_files` is part of the
  actions whose code calls it (`add_available_files`, `finalize_file`, `read_file`).
* `init_storage` runs on its own thread and without the mutex: it is a sequence of
  `scan_entry` steps, one per file, between `init_storage` and `scan_done`. While it
  runs, the `std::set` is read and written concurrently. The model gives that undefined
  behaviour its realistic outcomes: a search may miss any entry (`reads`), an insert of
  another thread may lose any entry (`inserts`).
* `write_chunk` and `close_stream` are what a session does to the stream it holds; a
  session may be dropped at any time.
* `Capacity` is the room on the device. `can_be_stored` compares the whole announced size
  with what is free, once, when the file is created; finished files, partial files and the
  user's files use it up, and a chunk that finds the device full is not written: the sink
  throws, in a handler, which ends the process (`crash`).
* `storage_init_is_in_progress` is the flag of an update in progress, which the early
  return for a missing directory leaves set: from then on (`stuck`) no update reads the
  directory again until the process ends.
* `user_*` change the directory under the program. `touched` remembers the names the user
  changed while the program had them indexed or was writing them: the two properties
  about the user's files excuse those, since the code cannot know.
* `crash` ends and restarts the process at any point; the directory stays.

### Receiver

One round of `get_files` is the sequence `get_files`, then per announced name
`check_exists` and `check_blocked` (the two unlocked reads of `in_progress`), `filled`,
and one `start_new_session` per slot; sessions, the storage thread, announcements and
failures interleave with all of them. A session goes "connecting", "connected",
"requested", "receiving"; every path that returns without arming another handler is
`session_ends`, which destroys the stream and so releases the lock. Peers are an
environment with a fixed catalogue; they may leave. A connection may break, which ends its
session, or go silent (`goes_silent`), which does not: no read has a timeout, so the slot
stays taken and the file locked. Which files are asked for (`targets`) is chosen in `Init`
among the command lines of the instance. `write_fails` is `crash` at the moment the device
is full.

### Transfer and FileCopy

The two endpoints of one connection at a time, with the bytes in flight as two sequences
and `stream_buffer` for what `async_read_until` reads beyond a message. A sealed message
carries the nonce it was sealed with and is opened only by a handler whose counter has
that value. A chunk carries the IV it was enciphered with; deciphered with another it is
`garbage`. The client's and the server's IV are set once per process. Attempts follow one
another until the file is there; `FileCopy` sees only that a partial file grows by the next
chunk of some version of the source and becomes the copy when it is complete.

### Discovery and Offers

Hosts with a mode (`Sharing`, `Fetching`), their directories and indexes, and the three
chains of callbacks that re-arm themselves: sending, receiving, accepting. A directory may
be missing (`root`), removed or made while the program runs; an update that does not find
it leaves the index as it is for good (`flag_after_update`), as in `FileHandler`. A download
is one step here (`finalize_file`), which joins the index, refreshed or not. A datagram that
was sent may arrive at any time and any number of times, or never. A list session goes
"connected" (completed by the kernel), "handshake" (accepted), "accepted", "answered". A
host hears its own announcements, because a multicast socket loops back by default. A
host in mode `fetch` is one that gets and whose directory stays empty. `Offers` is what
remains of all this to a host that only looks at its `available_files_`: now and then a list
is there, whole and in one step, of a host it trusts and that trusts it, naming files that
host has had. `shared` and `removed` are history: which host has had which file, and which
files left a directory while its process ran. `Receiver` (`announce`) and `Swarm` take lists to be such steps.

### Swarm and Replication

The other modules look at one host, one connection or one list. `Swarm` puts hosts together
and keeps of each step what decides a file's content: a list is one step, a confirmed
request one, a chunk one. A file is its sequence of chunks, each with the user it comes
from, so a mixture of two files can be told from either. A host serves what it has
finished, so copies are copied on. `available_files` keeps the first source and size; it
is lost with the process, and partial files are not. `Replication` knows only files: a
name gets one from the user, or one put together of chunks that hosts have in that place,
and keeps it.

### Main

`pc` is where `main` is; each action is the code between two points at which another
thread or process can make a difference. Processes share `~/.mfsync`, the key file
(`Torn` between truncating and writing it) and the ports. The threads are the bars', the
storage thread and the workers, which are always started and joined together. An
invocation says what `main` asks of its arguments: the mode, whether they make it return
early, whether bars are shown, the port, whether the wait ends. `crash` strikes anywhere,
the point between opening and writing the key file included. An exception that unwinds past
the joinable storage thread ends the process (`std::terminate`); without one `main` catches
it and returns.

## Runs

| run | shows |
| --- | --- |
| `filehandler` | the seven properties of the storage, among them what an index is that has stopped following its directory; two names, two lengths, two sessions, a device on which not everything fits |
| `receiver_sync` | the loop and its sessions implement `FileHandler`; no file waits twice; a lock is that of a live session started for just that file; a file appears only whole, and stays, and never once it got all its chunks without being finalized. Two sessions, two peers that announce one name with two sizes, a lost or silent connection, a leaving peer, a restart, a device that fills up |
| `receiver_live` | every file whose announcing peer stays is stored in the end, and a silent connection costs the one file it holds; `mfsync get a b` returns when, and only when, both are complete. Two sessions, a peer that leaves, a lost or silent connection |
| `transfer` | nonces, IVs, buffering, resuming; no moment at which each side waits for the other; three chunks, two connection failures, a client restart, two edits of the source |
| `discovery` | trust, truth and arrival of offers, that a host becomes its own source of removed files only, and that an index changes as `Offers` allows; three hosts, one of which hears itself, two concurrent list sessions, one failure of any kind, one change of a directory by a user |
| `swarm` | files come only from files and stay; even a mixture contains only chunks users shared under its name, each in its place; within the life of a process a copy is one source's; it reaches every host that stays. Four hosts, two files of one name, one that leaves, a lost connection, a restart |
| `main` | one identity, a key once made stays in the key file, no thread outlives main, a process that is done ends; two processes, two starts each, a crash, a command line for every path |
| `receiver_restart`, `receiver_gone`, `discovery_again`, `swarm_mixed`, `main_hang` | disagreements with the documentation, below |

Bounds. Two names and two lengths are the least with which a name can be announced with
two sizes and one download can disturb another; two sessions are the least that can race.
Three chunks have a first, a middle and a last one. In `swarm` the two files of one name
have two and three chunks, so a mixture of either order is possible, and of the four hosts
two have to get a file, one of them perhaps from the other. Two processes with two starts each are
the least with which a key can be torn by one, met by the other, and loaded again. `Capacity`
is chosen so that something does not fit (`filehandler`, `receiver_sync`), or so that
everything does (`receiver_live`). `MaxFaults`, `MaxCrashes`, `MaxEdits`
and `MaxErrors` count failures: each can strike at any step, and twice where a second
attempt must survive a first failure (`transfer`). `Slots` bounds list sessions; the code
does not. `receiver_live` starts on an empty directory (`EmptySpec`), to spare the states in
which less is left to retrieve. `discovery` starts with the file at the sharing host and not
at the getting one (`SomeSpec`); the synchronising host may have it, lack it, or lack its
directory. The state spaces are finite otherwise, without state constraints. Symmetry is
used in the runs without liveness properties. The theorems hold without bounds.

Deadlock is checked except in `transfer`, which ends when the copy is made, in the two
runs of `Main`, where processes may be started no more, and in `discovery_again`, whose
hosts stop when their chains have ended.

Fairness. The program is a set of callbacks on an `io_context` with a worker thread per
core: a handler that is ready runs, a timer fires (`wait` re-arms it at the end of each
round), so every step of the program is weakly fair. The storage thread runs to its end. A
peer that is there answers, and announces its list every five seconds. `Discovery` assumes
in addition strong fairness of arrival: of the datagrams a host keeps sending some arrive.
In `Swarm` hosts that are there go on listing and asking (what `Announced` and
`OfferedIsRetrieved` show of `Discovery` and `Receiver`), and a transfer goes on. In `Main`
every thread goes on, and nobody need start a process. Nothing is assumed about users,
failures, or hosts that leave.

## What the runs found

* `receiver_restart`: a process that ends after the last chunk and before `finalize_file`
  leaves a complete partial file. `read_file_chunk` returns at once when there is nothing
  left to read and finalizes nothing, so the download is repeated for ever and never
  completed (README: "File transmissions can be interrupted and continued any time"). That
  is for good: `AllReceivedIsStuck`, checked in `receiver_sync` and proved for every instance.
* `receiver_gone`: `available_files_` keeps the first source a name was announced with.
  When that host is gone the file is not asked of another one (README: "a file that is
  shared once [...] even if the original host is gone"). Proved of every instance of
  `Discovery`: until the process ends, the entry stays (`FirstSourceIsKept`).
* `discovery_again`: one error in a send, a receive or an accept ends announcing, listening
  or accepting for good.
* `swarm_mixed`: a partial file remembers neither its source nor its size. After a restart
  a download is continued from whichever host is heard first; if that host's file of the
  name is another one, the result is the beginning of one file and the end of the other.
  The comparison of checksums that would notice is switched off. The mixture is shared on.
* `main_hang`: `mfsync` with a mode it does not know, without a destination or with a wrong
  address prints so and never ends: the bars' thread has been started, and
  `~progress_handler` joins it although nobody called `stop`. With `--verbose` there is no
  such thread, and it ends. Proved for every instance: nothing but a signal ends that wait
  (`HangIsPermanent`), and no process that went through `stop` comes to it
  (`StoppedProcessNeverHangs`).

Known besides, each from reading and visible in one step of the models, and not given a
run: an empty file that is announced is never retrieved, since nothing is read and so
nothing finalized (`confirm`); `mfsync get dir` retrieves what is below `dir` and never
returns, since no stored file is named `dir` (`filled`, `is_stored`); a host in mode `sync`
that hears itself after its user removed a file becomes its own source of it, since the list
it sends is not refreshed and the list it stores is compared with a refreshed index
(`send_list`, `refreshed`), though of no other file (`OwnSourceWasRemoved`); on a device that
is nearly full an interrupted download is refused for ever, since the whole file would have
to fit once more (`can_be_stored`). Outside the models, `--multicast-port` assigns the TCP port.

## What is proved

With TLAPS, for every set of names, sizes, hosts and sessions, from
`FileHandlerAssumption` (lengths are naturals; `Absent` is none of the values it stands
beside): `Spec => []TypeOK`, `[]OneWriter`, `[]LocksAreStreams`, `[]StoredMatchesDisk`,
`[]StreamIsTmp` and the action properties `NoOverwrite`, `PartialKept` and
`StuckIndexStaysStuck`. `TypeOK` says of a stream that its offset is a number, and the
announced size once the session has stopped reading chunks; that the offset is the length
of the partial file is `StreamIsTmp`.

None of these is inductive alone. `IInv` adds three facts. `RequestsAreAvailable`: a
stream writes the file `available_files` has under its name, with that size; this is
why two streams of one name have equal `file_information` and the lock by name and size
excludes the second. `StreamIsTmp`: a stream's position is its partial file's length;
so what `finalize_file` publishes has the size the
index gets, also in an index that is `stuck`. `StreamNotOnDisk`: while a name is written its finished file is not there,
unless the user put it there; so `rename` replaces nothing. The step proof has one lemma
per action that touches streams, one for the others, and one for the disk.

`ReceiverProofs`, from `ReceiverAssumption`: `[]TypeOK`, `[]QueueHasNoDuplicates`,
`[]PromiseMeansStored`, and that `Receiver` implements `FileHandler`
(`Spec => FH!Spec`), for any catalogue, sessions and targets. `LoopInv` is inductive: it
adds to the types that the names of the queue differ, and that a name still to be looked at
is announced and one just checked is not in the queue (`Announced`). The refinement is a lemma per action: each step is one of `FileHandler`'s, or
leaves its variables alone. What `FileHandlerProofs` proves then holds of the receiver
(`FHP == INSTANCE FileHandlerProofs`; the `Same...` lemmas identify the formulas of the two
instances), which is how `PromiseMeansStored` is proved: the loop crosses off a
target when the index has it, and what the index has was on disk when it was crossed off.

`SwarmProofs`, from `SwarmAssumption`: `[]TypeOK`, `[]CopiesAreWholeWithin` and the
refinement `Spec => R!Spec`. `IInv` says that entries name hosts that have a file of that
size (`SourcesAreFiles`), that a session receives only what its host lacks
(`ReceivesWhatLacks`), that a partial file of a name no process has inherited is the
beginning of its source's file (`ContinuesSource`), and that every chunk of any partial
file is in the place some host has it in (`PartialsInPlace`). The last survives restarts
and gives the refinement; the one before does not, and that is the finding.

`MainProofs`, from `MainAssumption`: `[]TypeOK`, `[]OneIdentity`, `[]NothingOutlivesMain`.
`IInv` adds that unless two processes raced at most one is making a key, and only while there
is none others could have loaded (`OneMaker`), that what is in the key file is the key of
every process past it (`Identity`), and which threads can exist at which place
(`ThreadsHavePlaces`).

`DiscoveryProofs`, from `DiscoveryAssumption` (the modes and the trust are about the hosts,
the bounds are naturals, `Absent` is no host): `[]TypeOK`, `[]OnlyTrusted`,
`[]OffersWereShared` and `[]OwnSourceWasRemoved`. An offer is the last step of a session, and what makes it trustworthy
and true was decided by earlier steps at two hosts. `IInv` keeps those decisions:
`SessionsAreTrusted` (the client trusted the server when it connected, and from "accepted"
on the server trusts the client), `ListsWereShared` (a list in flight names files its
server has had) and `IndexWasShared` (so do the directory and the index). Trust does not
change while a process runs, and having had a file is never undone, so no interleaved
session, edit or restart takes either back. `OwnInv` is what hosts know of themselves: what
is indexed is in the directory or was removed while the process ran (`IndexWasThere`), and
a list on its way from a host to itself names files that are indexed still, or were removed
(`OwnListsWereThere`); so of such a list only removed files can be missing when it arrives,
whether the index is refreshed then or stuck. The same decisions give the refinement
`Spec => O!Spec` (`DiscoveryImplementsOffers`): the arrival of a list is a `List` of the
host the session was opened to, whatever its index or the client's refreshed directory left
out of it, and every other step but an edit, a download and a restart leaves `shared` and the offers
alone.

`TransferProofs`, from `TransferAssumption` (a file has at least one chunk,
the bounds are naturals, and `Absent` and `Unset` are none of the values they stand
beside): `[]TypeOK`, `[]CountersInStep`, `[]NothingLeftBehind`, `[]SameIV`, the refinement
`Spec => Copy!Spec`, and `[]CopyCorrect`. That a message opens cannot be seen from its
receiver: the nonce it was sealed with was decided by the sender some steps before. So
`IInv` says where a conversation can be. There are eight places (`Conversation`), from
`HandshakeSent` to `ClientGone`, each with what is in flight in both directions and both
counters as far as they matter: there is never more than one message in flight until the
file is confirmed, and from then on only chunks, which continue the partial file in order.
Nothing weaker is inductive. `CountersInStep` alone says nothing of the message a session
has yet to send, and the buffer stays empty (`stream_buffer = <<>>`) only because the server
is silent until the client has confirmed. `FirstIV` says why IVs that live as long as their
process agree between processes started at different times: every conversation comes to
its first chunk with the same counter, 4, so whichever transfer a process begins with, it
sets the same IV. `Files` ties the counter of the client to its partial file and the
position of the server's stream to both, which is the refinement: whatever arrives is the
next chunk of some version. `FileCopyProofs` proves, for every `Size`, that the chunks of a
`FileCopy` are in place and that its copy is complete, in place, and the source if nobody
changed it; `CP == INSTANCE FileCopyProofs` carries that over to `Transfer`, and
`CopyCorrect` follows. `[]NobodyWaitsForNothing`, the safety part of `Copied`, is read off
the eight places: in each the message the client waits for is in flight, or what makes the
server send it is, or the server has a file open to send from, or the client will read the
end of the connection.

`ReplicationProofs`: in the abstract network every file has the length of one users have
under its name and only chunks they have there, each in its place (`FilesAreFromUsers`,
inductive as it is), and is never changed or lost (`FilesAreKept`). `SwarmProofs` carries
both over by its refinement: `[]NothingInvented` is what remains true of the mixtures that
`swarm_mixed` finds.

Further in `ReceiverProofs`: `[]LocksHaveSessions` needs that what a session or the queue
asks for is what is announced under that name (`RequestsAreAnnounced`), which holds because
`available_files_` keeps its first entry, so lists that arrive while a request waits do
not change what it will lock. `OnlyWholeFilesAppear` and `ReceivedIsKept` combine
`FileHandler`'s invariant, which holds of the receiver by the refinement, with the absence
of users from it (`Untouched`); so does `IndexIsTrueWhenAlone`. `AllReceivedIsStuck` needs
that every size in an index is in some peer's catalogue (`SizesAreAnnounced`): a stream on
such a file is at the end of it or beyond (`StreamIsTmp`), so no chunk is written, and
`complete` is set by chunks alone. In `MainProofs`, `KeyKept` follows from `OneMaker`: a process
that writes the key file does so only while there is none others could have loaded.

Every invariant, action property and refinement that a passing run checks is proved. Left to
TLC: the six properties under fairness (`OfferedIsRetrieved`, `GetReturns`, `Copied`,
`Announced`, `Spreads`, `EndsAfterWait`), since the prover has no support for liveness
under fairness, and the five counterexamples.

## What is left out

* A user is assumed to leave `*.mfsync` files alone and not to remove the directory while
  something is being written or scanned. A symlink or a directory is not a file.
* Checksums (switched off in the code), wording, the bars and what they count.
* In `FileHandler` and `Receiver` a peer's file has the announced length; `Transfer` edits
  the source. In `Transfer` a server session ends before the next attempt begins.
* In `Swarm` users do not change files while they are shared, and names are only added; the
  other modules have them do it. A silent connection, a full device and the trust between
  hosts are left to the modules of one host.
* `Main` keeps one wait for both kinds (a time, a future), and leaves out what an exception
  in a worker does: it ends the process (`crash`).
* TLS (deprecated in the README), the ciphers and the key agreement, JSON, the
  parsing of options.

## Plan

1. Done: the storage, the receiver, the transfer, discovery, the swarm, `main` with the key
   file; proofs of every safety property the runs check and of the four refinements
   (`Receiver` of `FileHandler`, `Transfer` of `FileCopy`, `Swarm` of `Replication`,
   `Discovery` of `Offers`).
2. Worth doing next: safety facts on which the other liveness properties rest, as
   `NobodyWaitsForNothing` is for `Copied` (that a file that is offered and not there is always
   queued, asked for, or about to be), and one module that composes `Offers` with `Receiver`
   in place of the fixed catalogues.
3. `Split`: the splitting of long lists (which nothing calls yet) as a pure function
   against its definition.
