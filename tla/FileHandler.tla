---------------------------- MODULE FileHandler ----------------------------
(***************************************************************************)
(* mfsync's file_handler: the storage directory, the two in-memory indexes *)
(* (what is stored, what peers offer), the list of names being written and *)
(* the open ofstream_wrappers, under every interleaving of                 *)
(*   - the storage thread, which runs init_storage WITHOUT mutex_,         *)
(*   - the io threads, whose calls take mutex_ and are atomic here,        *)
(*   - the user, who works in the directory with other programs, and       *)
(*   - a process that dies and is started again.                           *)
(* A file's content is its length in chunks: everything the file_handler   *)
(* decides, it decides from names and lengths. The device holds Capacity   *)
(* chunks, which finished and partial files and the user's share.          *)
(***************************************************************************)
EXTENDS Naturals, Functions

CONSTANTS
    Names,     \* file names, relative to the storage directory
    Sizes,     \* lengths a file can have, in chunks
    Hosts,     \* peers that announce files
    Sessions,  \* client sessions that may hold an output stream
    Capacity,  \* chunks the device of the storage directory can hold
    Absent     \* no such file, entry or stream

file_information == [file_name : Names, size : Sizes]

available_file == [file_info : file_information, source : Hosts]

\* An open ofstream_wrapper. "complete" is the point after which the session
\* no longer reads chunks but calls finalize_file.
ofstream_wrapper == [file_info : file_information, pos : Nat, complete : BOOLEAN]

ASSUME FileHandlerAssumption ==
    /\ Sizes \subseteq Nat /\ Capacity \in Nat
    /\ Absent \notin Nat
    /\ Absent \notin available_file
    /\ Absent \notin ofstream_wrapper

VARIABLES
    root,              \* does the directory storage_path_ exist
    disk,              \* finished files in it: length or Absent
    tmp,               \* partial files "<name>.mfsync": length or Absent
    stored_files,      \* the index of stored files: size or Absent
    available_files,   \* what peers offer: an available_file or Absent
    locked_files,      \* the entries whose token is still true
    stream,            \* the open output stream of each session, or Absent
    init_thread,       \* the storage thread: "start", "scan" or "done"
    to_scan,           \* files its directory iterator has yet to reach
    storage_init_is_in_progress,
    touched            \* history: names the user changed under the program

disk_vars == <<root, disk, tmp>>
index_vars == <<stored_files, available_files, storage_init_is_in_progress>>
write_vars == <<locked_files, stream>>
init_vars == <<init_thread, to_scan>>
vars == <<disk_vars, index_vars, write_vars, init_vars, touched>>

NoFile == [n \in Names |-> Absent]
on_disk(d) == {n \in Names : d[n] # Absent}
open_sessions == {s \in Sessions : stream[s] # Absent}

\* What the files d and the partial files t take of the device.
space_used(d, t) == SumFunctionOnSet(d, on_disk(d)) + SumFunctionOnSet(t, on_disk(t))

writes_to(s, n) == stream[s] # Absent /\ stream[s].file_info.file_name = n

-----------------------------------------------------------------------------
(* The index of stored files *)

\* The names a membership test on stored_files can report. While the storage
\* thread inserts without the mutex, a concurrent reader may miss entries.
reads(S) == IF init_thread = "scan" THEN SUBSET on_disk(S) ELSE {on_disk(S)}

\* The set left behind by an insert that raced with the storage thread's
\* inserts: links to any of the entries may be lost.
inserts(S) ==
    IF init_thread = "scan"
    THEN {[n \in Names |-> IF n \in lost THEN Absent ELSE S[n]] : lost \in SUBSET Names}
    ELSE {S}

exists_internal(n) == stored_files[n] # Absent

\* Sensitivity: a pass that met no directory does not stop the next one.
can_update_anyway == init_thread = "done"

can_update == init_thread = "done" /\ ~storage_init_is_in_progress

\* One pass over the directory d: entries whose file is gone are erased, files
\* without an entry get one, and an entry that exists keeps its size.
scanned(S, d) ==
    [n \in Names |-> IF d[n] = Absent THEN Absent
                     ELSE IF S[n] # Absent THEN S[n] ELSE d[n]]

update_stored_files(S, d) == IF can_update /\ root THEN scanned(S, d) ELSE S

\* The early return for a missing directory leaves the flag set for good.
progress_flag_after_update ==
    storage_init_is_in_progress \/ (can_update /\ ~root)

-----------------------------------------------------------------------------
(* The storage thread *)

init_storage ==
    /\ init_thread = "start"
    /\ storage_init_is_in_progress' = TRUE
    /\ init_thread' = IF root THEN "scan" ELSE "done"
    /\ to_scan' = on_disk(disk)
    /\ UNCHANGED <<disk_vars, stored_files, available_files, write_vars, touched>>

\* The iterator may also reach a file that appeared after it was opened.
scan_entry(n) ==
    /\ init_thread = "scan"
    /\ disk[n] # Absent
    /\ to_scan' = to_scan \ {n}
    /\ stored_files' = IF stored_files[n] # Absent THEN stored_files
                       ELSE [stored_files EXCEPT ![n] = disk[n]]
    /\ UNCHANGED <<disk_vars, available_files, storage_init_is_in_progress,
                   write_vars, init_thread, touched>>

scan_done ==
    /\ init_thread = "scan"
    /\ to_scan \cap on_disk(disk) = {}
    /\ init_thread' = "done"
    /\ to_scan' = {}
    /\ storage_init_is_in_progress' = FALSE
    /\ UNCHANGED <<disk_vars, stored_files, available_files, write_vars, touched>>

-----------------------------------------------------------------------------
(* The io threads *)

\* Sensitivity: the newest announcement of a name replaces the older one.
available_or_new_replacing(n, h, size) ==
    [file_info |-> [file_name |-> n, size |-> size], source |-> h]

\* std::set::insert: the entry a name has keeps its size and its source.
available_or_new(n, h, size) ==
    IF available_files[n] # Absent THEN available_files[n]
    ELSE [file_info |-> [file_name |-> n, size |-> size], source |-> h]

\* The file list of host h has arrived; list[n] is the size it gives n.
add_available_files(h, list) ==
    /\ stored_files' = update_stored_files(stored_files, disk)
    /\ storage_init_is_in_progress' = progress_flag_after_update
    /\ \E known \in reads(stored_files') :
          available_files' =
              [n \in Names |-> IF list[n] = Absent \/ n \in known THEN available_files[n]
                               ELSE available_or_new(n, h, list[n])]
    /\ UNCHANGED <<disk_vars, write_vars, init_vars, touched>>

\* Sensitivity: the token of an earlier attempt is not consulted.
is_blocked_internal_never(info) == FALSE

is_blocked_internal(info) == \E lock \in locked_files : lock.file = info

\* The free space is compared with the whole announced size, whatever part of
\* it is there already and whatever other downloads have still to write.
can_be_stored(info) == space_used(disk, tmp) + info.size <= Capacity

\* Sensitivity: the stored files are trusted to be indexed already.
path_exists_never(n) == FALSE

path_exists(n) == disk[n] # Absent

\* Sensitivity: an existing partial file is opened with truncation.
open_tmp_truncating(n) == 0

\* Sensitivity: the length is asked for without asking whether there is a file.
open_tmp_unchecked(n) == tmp[n]

\* The length of the partial file once it is open, the offset to resume at.
open_tmp(n) == IF tmp[n] # Absent THEN tmp[n] ELSE 0

\* requested_file is built from an entry of available_files. storage_path_ is
\* set and its directory exists: otherwise can_be_stored throws.
create_file(s, n) ==
    /\ stream[s] = Absent
    /\ available_files[n] # Absent
    /\ init_thread # "start" /\ root
    /\ \E known \in reads(stored_files) : n \notin known
    /\ ~is_blocked_internal(available_files[n].file_info)
    /\ can_be_stored(available_files[n].file_info)
    /\ ~path_exists(n)
    /\ tmp' = [tmp EXCEPT ![n] = open_tmp(n)]
    /\ stream' = [stream EXCEPT ![s] = [file_info |-> available_files[n].file_info,
                                        pos |-> open_tmp(n), complete |-> FALSE]]
    /\ locked_files' = locked_files \cup {[file |-> available_files[n].file_info, owner |-> s]}
    /\ UNCHANGED <<root, disk, index_vars, init_vars, touched>>

\* Sensitivity: one chunk short of the announced size counts as complete.
is_complete_early(written, size) == written + 1 >= size

is_complete(written, size) == written >= size

device_full == space_used(disk, tmp) >= Capacity

\* A decrypted chunk is written and flushed. The peer's file has the length it
\* announced, so there is no chunk past that length to write.
write_chunk(s) ==
    /\ stream[s] # Absent
    /\ ~device_full
    /\ ~stream[s].complete
    /\ stream[s].pos < stream[s].file_info.size
    /\ LET info == stream[s].file_info
           written == stream[s].pos + 1
       IN  /\ stream' = [stream EXCEPT ![s] =
                   [file_info |-> info, pos |-> written,
                    complete |-> is_complete(written, info.size)]]
           /\ tmp' = [tmp EXCEPT ![info.file_name] = written]
    /\ UNCHANGED <<root, disk, index_vars, locked_files, init_vars, touched>>

\* Sensitivity: the destructor leaves the token true.
unlocked_leaking(s) == locked_files

unlocked(s) == {lock \in locked_files : lock.owner # s}

\* The session is dropped and its ofstream_wrapper destroyed.
close_stream(s) ==
    /\ stream[s] # Absent
    /\ stream' = [stream EXCEPT ![s] = Absent]
    /\ locked_files' = unlocked(s)
    /\ UNCHANGED <<disk_vars, index_vars, init_vars, touched>>

\* The successful path; the caller then returns and drops the stream. When
\* finalize_file returns false the session ends as in close_stream.
finalize_file(s) ==
    /\ stream[s] # Absent
    /\ stream[s].complete
    /\ LET info == stream[s].file_info
           n == info.file_name
       IN  /\ \E known \in reads(stored_files) : n \notin known
           /\ is_blocked_internal(info)
           /\ locked_files' = {lock \in locked_files : lock.file # info}
           /\ disk' = [disk EXCEPT ![n] = tmp[n]]
           /\ tmp' = [tmp EXCEPT ![n] = Absent]
           /\ \E S \in inserts(IF stored_files[n] # Absent THEN stored_files
                               ELSE [stored_files EXCEPT ![n] = info.size]) :
                 stored_files' = update_stored_files(S, disk')
           /\ storage_init_is_in_progress' = progress_flag_after_update
    /\ stream' = [stream EXCEPT ![s] = Absent]
    /\ UNCHANGED <<root, available_files, init_vars, touched>>

\* Serving a file refreshes the index first.
read_file ==
    /\ stored_files' = update_stored_files(stored_files, disk)
    /\ storage_init_is_in_progress' = progress_flag_after_update
    /\ UNCHANGED <<disk_vars, available_files, write_vars, init_vars, touched>>

-----------------------------------------------------------------------------
(* The user, and the life of the process *)

in_use(n) == stored_files[n] # Absent \/ \E s \in Sessions : writes_to(s, n)

touch(n) == touched' = IF in_use(n) THEN touched \cup {n} ELSE touched

user_add(n, size) ==
    /\ root
    /\ disk[n] = Absent
    /\ space_used(disk, tmp) + size <= Capacity
    /\ disk' = [disk EXCEPT ![n] = size]
    /\ touch(n)
    /\ UNCHANGED <<root, tmp, index_vars, write_vars, init_vars>>

user_remove(n) ==
    /\ disk[n] # Absent
    /\ disk' = [disk EXCEPT ![n] = Absent]
    /\ touch(n)
    /\ UNCHANGED <<root, tmp, index_vars, write_vars, init_vars>>

user_mkdir ==
    /\ ~root
    /\ root' = TRUE
    /\ UNCHANGED <<disk, tmp, index_vars, write_vars, init_vars, touched>>

\* The user leaves the directory alone while something is written into it.
user_rmdir ==
    /\ root
    /\ open_sessions = {}
    /\ init_thread # "scan"
    /\ root' = FALSE
    /\ disk' = NoFile
    /\ tmp' = NoFile
    /\ touched' = touched \cup {n \in Names : in_use(n)}
    /\ UNCHANGED <<index_vars, write_vars, init_vars>>

\* The process ends, at any point, and is started again on the same directory:
\* a signal, the end of --wait-until, or an exception in an io thread such as
\* the one can_be_stored throws without a storage directory, or the one thrown
\* by the sink of a chunk that finds the device full.
crash ==
    /\ stored_files' = NoFile
    /\ available_files' = NoFile
    /\ locked_files' = {}
    /\ stream' = [s \in Sessions |-> Absent]
    /\ init_thread' = "start"
    /\ to_scan' = {}
    /\ storage_init_is_in_progress' = FALSE
    /\ touched' = {}
    /\ UNCHANGED disk_vars

-----------------------------------------------------------------------------

Init ==
    /\ root \in BOOLEAN
    /\ disk \in [Names -> Sizes \cup {Absent}]
    /\ ~root => disk = NoFile
    /\ tmp = NoFile
    /\ space_used(disk, tmp) <= Capacity
    /\ stored_files = NoFile
    /\ available_files = NoFile
    /\ locked_files = {}
    /\ stream = [s \in Sessions |-> Absent]
    /\ init_thread = "start"
    /\ to_scan = {}
    /\ storage_init_is_in_progress = FALSE
    /\ touched = {}

Next ==
    \/ init_storage
    \/ \E n \in Names : scan_entry(n)
    \/ scan_done
    \/ \E h \in Hosts, list \in [Names -> Sizes \cup {Absent}] : add_available_files(h, list)
    \/ \E s \in Sessions, n \in Names : create_file(s, n)
    \/ \E s \in Sessions : write_chunk(s)
    \/ \E s \in Sessions : finalize_file(s)
    \/ \E s \in Sessions : close_stream(s)
    \/ read_file
    \/ \E n \in Names, size \in Sizes : user_add(n, size)
    \/ \E n \in Names : user_remove(n)
    \/ user_mkdir
    \/ user_rmdir
    \/ crash

Spec == Init /\ [][Next]_vars

-----------------------------------------------------------------------------
(* Properties *)

Length == Nat \cup {Absent}

\* Every variable has its type; the offset to resume at is a number whether there
\* is a partial file or not, and a session that has stopped reading chunks has
\* written exactly the announced size.
TypeOK ==
    /\ root \in BOOLEAN
    /\ disk \in [Names -> Length]
    /\ tmp \in [Names -> Length]
    /\ stored_files \in [Names -> Length]
    /\ available_files \in [Names -> available_file \cup {Absent}]
    /\ \A n \in Names : available_files[n] # Absent => available_files[n].file_info.file_name = n
    /\ locked_files \subseteq [file : file_information, owner : Sessions]
    /\ stream \in [Sessions -> ofstream_wrapper \cup {Absent}]
    /\ \A s \in open_sessions : stream[s].complete => stream[s].pos = stream[s].file_info.size
    /\ init_thread \in {"start", "scan", "done"}
    /\ to_scan \subseteq Names
    /\ storage_init_is_in_progress \in BOOLEAN
    /\ touched \subseteq Names

\* Two sessions never write the same partial file. locked_files compares name
\* and size while get_tmp_path uses the name alone, so this rests on every
\* request for a name carrying the size of the first announcement.
OneWriter ==
    \A s, t \in Sessions, n \in Names : writes_to(s, n) /\ writes_to(t, n) => s = t

\* The live locks are exactly the open streams: none outlives its session, and
\* no session writes without one.
LocksAreStreams ==
    locked_files = {[file |-> stream[s].file_info, owner |-> s] : s \in open_sessions}

\* A file the index lists with a size is on disk with that length, unless the
\* user changed it: what is announced to peers can be served.
StoredMatchesDisk ==
    \A n \in Names \ touched : stored_files[n] # Absent => disk[n] = stored_files[n]

\* The program never replaces a file the user had in the directory before the
\* download of that name began, indexed or not.
NoOverwrite ==
    [][\A n \in Names \ touched : disk[n] # Absent => disk'[n] \in {disk[n], Absent}]_vars

\* The storage thread is done and the flag of an update in progress is set: an
\* update has met no directory.
stuck == init_thread = "done" /\ storage_init_is_in_progress

\* From then on, until the process ends, the index follows the directory no more,
\* come back or not: nothing leaves it, and of what appears in the directory only
\* the program's own downloads join it, with the length they have there.
StuckIndexStaysStuck ==
    [][stuck /\ init_thread' # "start" =>
          /\ stuck'
          /\ \A n \in Names : stored_files'[n] # stored_files[n] =>
                 stored_files[n] = Absent /\ stored_files'[n] = disk'[n]]_vars

\* What has been received of a file is never thrown away, through crashes and
\* restarts: a partial file only grows or becomes the finished file.
PartialKept ==
    [][\A n \in Names : tmp[n] # Absent /\ root' =>
          \/ tmp'[n] # Absent /\ tmp'[n] >= tmp[n]
          \/ tmp'[n] = Absent /\ disk'[n] = tmp[n]]_vars

=============================================================================
