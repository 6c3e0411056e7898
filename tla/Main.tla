-------------------------------- MODULE Main --------------------------------
(***************************************************************************)
(* The life of mfsync processes on one machine: main, from the key file to *)
(* the last destructor, with the threads it starts and joins. Processes    *)
(* share the directory ~/.mfsync with the key file, and the TCP ports.     *)
(* What the running parts do meanwhile is the subject of the other modules.*)
(***************************************************************************)
EXTENDS Naturals

CONSTANTS
    Processes,
    Invocations,  \* command lines: records of the fields in "invocation"
    Ports,
    Absent,       \* no file, key or listener
    Torn,         \* a key file that is opened for writing and still empty
    MaxStarts,    \* bound: starts of one process
    MaxCrashes    \* bound: processes killed by a signal

modes == {"sync", "share", "fetch", "get", "none"}

\* stops: where an argument makes main return early. "config": --public-key or
\* an unreadable config file; "arguments": mode, destination or an address.
invocation == [mode : modes, stops : {"never", "config", "arguments"},
               quiet : BOOLEAN,     \* neither --verbose nor --trace: bars are shown
               port : Ports,
               ends : BOOLEAN]      \* --wait-until, or all targets of a "get" arrive

Keys == Processes \X (1..MaxStarts)

ASSUME MainAssumption ==
    /\ Invocations \subseteq invocation /\ Invocations # {}
    /\ MaxStarts \in Nat /\ MaxCrashes \in Nat
    /\ Absent \notin Keys /\ Torn \notin Keys /\ Absent # Torn
    /\ Absent \notin Processes

VARIABLES
    pc,           \* where main is
    args,         \* its command line
    key,          \* key_pair_ of its crypto_handler, or Absent
    progress,     \* the progress_handler's thread: "none", "running" or "ended"
    running_,     \* the flag that thread looks at
    storage,      \* the storage thread, as progress
    workers,      \* the threads in io_service.run, as progress
    stopped,      \* io_service.stop() was called
    config_root,  \* does ~/.mfsync exist
    key_file,     \* what is in key.bin: Absent, Torn or a key
    listener,     \* the process that listens on a port, or Absent
    starts, crashes,
    raced         \* history: two processes made a key at the same time

thread_vars == <<progress, running_, storage, workers, stopped>>
file_vars == <<config_root, key_file>>
bound_vars == <<starts, crashes>>
vars == <<pc, args, key, thread_vars, file_vars, listener, bound_vars, raced>>

goes_to(p, from, to) ==
    /\ pc[p] = from
    /\ pc' = [pc EXCEPT ![p] = to]

shares(p) == args[p].mode \in {"sync", "share"}
fetches(p) == args[p].mode # "share"

\* The threads of a process that has none.
no_threads(p) ==
    /\ progress' = [progress EXCEPT ![p] = "none"]
    /\ storage' = [storage EXCEPT ![p] = "none"]
    /\ workers' = [workers EXCEPT ![p] = "none"]

closed(p) == [port \in Ports |-> IF listener[port] = p THEN Absent ELSE listener[port]]

-----------------------------------------------------------------------------
(* The key *)

start(p) ==
    /\ starts[p] < MaxStarts
    /\ goes_to(p, "off", "start")
    /\ args' \in {[args EXCEPT ![p] = i] : i \in Invocations}
    /\ key' = [key EXCEPT ![p] = Absent]
    /\ running_' = [running_ EXCEPT ![p] = TRUE]
    /\ stopped' = [stopped EXCEPT ![p] = FALSE]
    /\ starts' = [starts EXCEPT ![p] = @ + 1]
    /\ UNCHANGED <<progress, storage, workers, file_vars, listener, crashes, raced>>

check_config_root(p) ==
    /\ goes_to(p, "start", IF config_root THEN "load_key" ELSE "create_config_root")
    /\ UNCHANGED <<args, key, thread_vars, file_vars, listener, bound_vars, raced>>

\* create_directory reports a directory that is there by now as a failure.
create_config_root(p) ==
    /\ goes_to(p, "create_config_root", IF config_root THEN "off" ELSE "load_key")
    /\ config_root' = TRUE
    /\ UNCHANGED <<args, key, thread_vars, key_file, listener, bound_vars, raced>>

makes_key(p) == pc[p] \in {"save_key", "write_key"}

\* Sensitivity: every start makes a key pair of its own.
no_key_file_ever == TRUE

no_key_file == key_file = Absent

\* Sensitivity: what is in the file is taken for a key.
is_torn_never == FALSE

is_torn == key_file = Torn

\* Loading a torn key file throws; main catches, prints and returns.
load_from_file(p) ==
    \/ /\ no_key_file
       /\ goes_to(p, "load_key", "save_key")
       /\ key' = [key EXCEPT ![p] = <<p, starts[p]>>]
       /\ raced' = (raced \/ \E q \in Processes \ {p} : makes_key(q))
       /\ UNCHANGED <<args, thread_vars, file_vars, listener, bound_vars>>
    \/ /\ ~no_key_file /\ is_torn
       /\ goes_to(p, "load_key", "off")
       /\ UNCHANGED <<args, key, thread_vars, file_vars, listener, bound_vars, raced>>
    \/ /\ ~no_key_file /\ ~is_torn
       /\ goes_to(p, "load_key", "config")
       /\ key' = [key EXCEPT ![p] = key_file]
       /\ UNCHANGED <<args, thread_vars, file_vars, listener, bound_vars, raced>>

\* save_to_file opens the file, which truncates it, and then writes.
save_to_file(p) ==
    /\ goes_to(p, "save_key", "write_key")
    /\ key_file' = Torn
    /\ UNCHANGED <<args, key, thread_vars, config_root, listener, bound_vars, raced>>

write_key(p) ==
    /\ goes_to(p, "write_key", "config")
    /\ key_file' = key[p]
    /\ UNCHANGED <<args, key, thread_vars, config_root, listener, bound_vars, raced>>

-----------------------------------------------------------------------------
(* Starting the parts *)

\* --public-key, or a config file that cannot be read.
read_config(p) ==
    /\ goes_to(p, "config", IF args[p].stops = "config" THEN "off" ELSE "arguments")
    /\ UNCHANGED <<args, key, thread_vars, file_vars, listener, bound_vars, raced>>

\* The bars are started first; then the arguments are looked at.
check_arguments(p) ==
    /\ goes_to(p, "arguments",
               IF args[p].stops = "arguments" THEN "return" ELSE "init_storage")
    /\ progress' = [progress EXCEPT ![p] = IF args[p].quiet THEN "running" ELSE "none"]
    /\ UNCHANGED <<args, key, running_, storage, workers, stopped, file_vars, listener,
                   bound_vars, raced>>

start_storage(p) ==
    /\ goes_to(p, "init_storage", "listen")
    /\ storage' = [storage EXCEPT ![p] = IF args[p].mode = "fetch" THEN "none" ELSE "running"]
    /\ UNCHANGED <<args, key, progress, running_, workers, stopped, file_vars, listener,
                   bound_vars, raced>>

\* A port that is taken is reported and otherwise ignored.
start_listening(p) ==
    /\ goes_to(p, "listen", "fetch")
    /\ listener' = IF shares(p) /\ listener[args[p].port] = Absent
                   THEN [listener EXCEPT ![args[p].port] = p] ELSE listener
    /\ UNCHANGED <<args, key, thread_vars, file_vars, bound_vars, raced>>

\* The fetcher's constructor throws when it cannot join the group. Unwinding
\* then meets the storage thread: a joinable thread that is destroyed ends the
\* process. In mode fetch there is none, and main returns.
start_fetcher(p) ==
    \/ /\ goes_to(p, "fetch", "run")
       /\ UNCHANGED <<args, key, thread_vars, file_vars, listener, bound_vars, raced>>
    \/ /\ fetches(p) /\ storage[p] # "none"
       /\ goes_to(p, "fetch", "off")
       /\ no_threads(p)
       /\ listener' = closed(p)
       /\ UNCHANGED <<args, key, running_, stopped, file_vars, bound_vars, raced>>
    \/ /\ fetches(p) /\ storage[p] = "none"
       /\ goes_to(p, "fetch", "return")
       /\ UNCHANGED <<args, key, thread_vars, file_vars, listener, bound_vars, raced>>

run(p) ==
    /\ goes_to(p, "run", "wait")
    /\ workers' = [workers EXCEPT ![p] = "running"]
    /\ UNCHANGED <<args, key, progress, running_, storage, stopped, file_vars, listener,
                   bound_vars, raced>>

-----------------------------------------------------------------------------
(* Stopping them *)

wait(p) ==
    /\ args[p].ends
    /\ goes_to(p, "wait", "join_storage")
    /\ UNCHANGED <<args, key, thread_vars, file_vars, listener, bound_vars, raced>>

\* Sensitivity: the storage thread is not waited for.
may_join_now(thread, p) == TRUE

may_join(thread, p) == thread[p] # "running"

join_storage(p) ==
    /\ may_join(storage, p)
    /\ goes_to(p, "join_storage", "stop")
    /\ UNCHANGED <<args, key, thread_vars, file_vars, listener, bound_vars, raced>>

\* Sensitivity: nobody tells the bars to stop.
progress_goes_on(p) == running_

progress_stopped(p) == [running_ EXCEPT ![p] = FALSE]

stop(p) ==
    /\ goes_to(p, "stop", "join_workers")
    /\ running_' = progress_stopped(p)
    /\ stopped' = [stopped EXCEPT ![p] = TRUE]
    /\ UNCHANGED <<args, key, progress, storage, workers, file_vars, listener, bound_vars, raced>>

join_workers(p) ==
    /\ may_join(workers, p)
    /\ goes_to(p, "join_workers", "return")
    /\ UNCHANGED <<args, key, thread_vars, file_vars, listener, bound_vars, raced>>

\* The destructors, in reverse order: the server's acceptor is closed, and the
\* progress_handler joins its thread.
return(p) ==
    /\ may_join(progress, p)
    /\ goes_to(p, "return", "off")
    /\ no_threads(p)
    /\ listener' = closed(p)
    /\ UNCHANGED <<args, key, running_, stopped, file_vars, bound_vars, raced>>

main(p) ==
    \/ check_config_root(p) \/ create_config_root(p) \/ load_from_file(p) \/ save_to_file(p)
    \/ write_key(p) \/ read_config(p) \/ check_arguments(p) \/ start_storage(p)
    \/ start_listening(p) \/ start_fetcher(p) \/ run(p) \/ wait(p) \/ join_storage(p)
    \/ stop(p) \/ join_workers(p) \/ return(p)

-----------------------------------------------------------------------------
(* The other threads, and signals *)

progress_loop(p) ==
    /\ progress[p] = "running" /\ ~running_[p]
    /\ progress' = [progress EXCEPT ![p] = "ended"]
    /\ UNCHANGED <<pc, args, key, running_, storage, workers, stopped, file_vars, listener,
                   bound_vars, raced>>

storage_done(p) ==
    /\ storage[p] = "running"
    /\ storage' = [storage EXCEPT ![p] = "ended"]
    /\ UNCHANGED <<pc, args, key, progress, running_, workers, stopped, file_vars, listener,
                   bound_vars, raced>>

worker_done(p) ==
    /\ workers[p] = "running" /\ stopped[p]
    /\ workers' = [workers EXCEPT ![p] = "ended"]
    /\ UNCHANGED <<pc, args, key, progress, running_, storage, stopped, file_vars, listener,
                   bound_vars, raced>>

crash(p) ==
    /\ crashes < MaxCrashes
    /\ pc[p] # "off"
    /\ pc' = [pc EXCEPT ![p] = "off"]
    /\ no_threads(p)
    /\ listener' = closed(p)
    /\ crashes' = crashes + 1
    /\ UNCHANGED <<args, key, running_, stopped, file_vars, starts, raced>>

-----------------------------------------------------------------------------

Init ==
    /\ pc = [p \in Processes |-> "off"]
    /\ args = [p \in Processes |-> CHOOSE i \in Invocations : TRUE]
    /\ key = [p \in Processes |-> Absent]
    /\ progress = [p \in Processes |-> "none"]
    /\ running_ = [p \in Processes |-> TRUE]
    /\ storage = [p \in Processes |-> "none"]
    /\ workers = [p \in Processes |-> "none"]
    /\ stopped = [p \in Processes |-> FALSE]
    /\ config_root = FALSE
    /\ key_file = Absent
    /\ listener = [port \in Ports |-> Absent]
    /\ starts = [p \in Processes |-> 0]
    /\ crashes = 0
    /\ raced = FALSE

Next ==
    \E p \in Processes :
        \/ start(p) \/ main(p)
        \/ progress_loop(p) \/ storage_done(p) \/ worker_done(p)
        \/ crash(p)

\* Every thread goes on; nobody need start a process again.
Fairness ==
    \A p \in Processes : /\ WF_vars(main(p))
                         /\ WF_vars(progress_loop(p))
                         /\ WF_vars(storage_done(p))
                         /\ WF_vars(worker_done(p))

Spec == Init /\ [][Next]_vars /\ Fairness

-----------------------------------------------------------------------------
(* Properties *)

keyless == {"off", "start", "create_config_root", "load_key"}
early == keyless \cup {"save_key", "write_key"}
places == early \cup {"config", "arguments", "init_storage", "listen", "fetch", "run", "wait",
                      "join_storage", "stop", "join_workers", "return"}
thread == {"none", "running", "ended"}

\* Every variable has its type; a process has been started, and has a key once
\* it has looked for one.
TypeOK ==
    /\ pc \in [Processes -> places]
    /\ args \in [Processes -> Invocations]
    /\ key \in [Processes -> Keys \cup {Absent}]
    /\ progress \in [Processes -> thread] /\ storage \in [Processes -> thread]
    /\ workers \in [Processes -> thread]
    /\ running_ \in [Processes -> BOOLEAN] /\ stopped \in [Processes -> BOOLEAN]
    /\ config_root \in BOOLEAN
    /\ key_file \in Keys \cup {Absent, Torn}
    /\ listener \in [Ports -> Processes \cup {Absent}]
    /\ starts \in [Processes -> 0..MaxStarts] /\ crashes \in 0..MaxCrashes
    /\ raced \in BOOLEAN
    /\ \A p \in Processes :
          /\ pc[p] # "off" => starts[p] > 0
          /\ pc[p] \notin keyless => key[p] # Absent

up(p) == pc[p] \notin early

\* A machine has one identity: the key a process works with is the one in the
\* key file, which the next process will load and the trust of others is in;
\* processes that are up together therefore share it. Only two processes that
\* both start when there is no key yet can break this.
OneIdentity == ~raced => \A p \in Processes : up(p) => key[p] = key_file

\* A key that is in the key file stays there for good: no later start, however
\* the processes before it ended, makes another in its place (the same race
\* excepted), so what peers trust does not change.
KeyKept == [][~raced' /\ key_file \in Keys => key_file' = key_file]_vars

\* The storage thread and the workers use what main's destructors destroy; they
\* have ended when these run, whichever way main came to its end.
NothingOutlivesMain ==
    \A p \in Processes : pc[p] \in {"return", "off"} =>
        storage[p] # "running" /\ workers[p] # "running"

\* A process whose wait is over ends.
EndsAfterWait == \A p \in Processes : pc[p] = "join_storage" ~> pc[p] = "off"

\* So does one that returns early because of its arguments.
EndsAfterReturn == \A p \in Processes : pc[p] = "return" ~> pc[p] = "off"

=============================================================================
