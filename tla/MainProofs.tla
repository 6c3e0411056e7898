----------------------------- MODULE MainProofs -----------------------------
(***************************************************************************)
(* What holds of Main for any number of processes, command lines, starts   *)
(* and crashes: types, one identity per machine, and that no thread works  *)
(* with what main has destroyed.                                           *)
(***************************************************************************)
EXTENDS Main, TLAPS

\* While one process makes the key nobody else does, and the file is in the
\* state it expects: this is what a race takes away.
OneMaker ==
    \A p \in Processes :
        /\ makes_key(p) => \A q \in Processes \ {p} : ~makes_key(q)
        /\ pc[p] = "save_key" => key_file = Absent
        /\ pc[p] = "write_key" => key_file = Torn

Identity == ~raced => OneMaker /\ \A p \in Processes : up(p) => key[p] = key_file

\* Where main may be while a thread runs.
ThreadsHavePlaces ==
    \A p \in Processes :
        /\ storage[p] = "running" => pc[p] \in {"listen", "fetch", "run", "wait", "join_storage"}
        /\ workers[p] = "running" => pc[p] \in {"wait", "join_storage", "stop", "join_workers"}
        /\ pc[p] = "join_workers" => storage[p] # "running"

IInv == TypeOK /\ Identity /\ ThreadsHavePlaces

\* The invariant holds before any process is started.
LEMMA InitIInv == Init => IInv
  <1> SUFFICES ASSUME Init PROVE IInv
    OBVIOUS
  <1>1. (CHOOSE i \in Invocations : TRUE) \in Invocations
    BY MainAssumption
  <1>2. TypeOK
    <2>1. args \in [Processes -> Invocations]
      BY <1>1 DEF Init
    <2>2. starts \in [Processes -> 0..MaxStarts] /\ crashes \in 0..MaxCrashes
      BY MainAssumption DEF Init
    <2> QED
      BY <2>1, <2>2 DEF Init, TypeOK, early, keyless, places, thread
  <1>3. Identity /\ ThreadsHavePlaces
    BY DEF Init, Identity, OneMaker, makes_key, up, early, keyless, ThreadsHavePlaces
  <1> QED
    BY <1>2, <1>3 DEF IInv

-----------------------------------------------------------------------------
(* Types *)

\* Every action keeps every variable in its type.
LEMMA TypeStep == TypeOK /\ [Next]_vars => TypeOK'
  <1> SUFFICES ASSUME TypeOK, [Next]_vars PROVE TypeOK'
    OBVIOUS
  <1> USE MainAssumption DEF TypeOK, goes_to, places, early, keyless, thread, thread_vars, file_vars, bound_vars
  <1>1. CASE UNCHANGED vars
    BY <1>1 DEF vars
  <1>2. ASSUME NEW p \in Processes, start(p) PROVE TypeOK'
    <2>1. PICK i \in Invocations : args' = [args EXCEPT ![p] = i]
      BY <1>2 DEF start
    <2> QED
      BY <1>2, <2>1 DEF start
  <1>3. ASSUME NEW p \in Processes, check_config_root(p) PROVE TypeOK'
    BY <1>3 DEF check_config_root
  <1>4. ASSUME NEW p \in Processes, create_config_root(p) PROVE TypeOK'
    BY <1>4 DEF create_config_root
  <1>5. ASSUME NEW p \in Processes, load_from_file(p) PROVE TypeOK'
    <2>1. CASE no_key_file
      <3>0. pc[p] = "load_key"
        BY <1>5 DEF load_from_file
      <3>1. starts[p] \in 1..MaxStarts
        <4>1. starts[p] \in 0..MaxStarts
          <5>1. starts \in [Processes -> 0..MaxStarts]
            OBVIOUS
          <5> HIDE DEF TypeOK
          <5> QED
            BY <5>1
        <4>2. starts[p] > 0
          BY <3>0
        <4> HIDE DEF TypeOK
        <4> QED
          BY <4>1, <4>2
      <3>2. <<p, starts[p]>> \in Keys /\ <<p, starts[p]>> # Absent
        BY <3>1 DEF Keys
      <3> QED
        BY <1>5, <2>1, <3>2 DEF load_from_file
    <2>2. CASE ~no_key_file
      BY <1>5, <2>2 DEF load_from_file, no_key_file, is_torn
    <2> QED
      BY <2>1, <2>2
  <1>6. ASSUME NEW p \in Processes, save_to_file(p) PROVE TypeOK'
    BY <1>6 DEF save_to_file
  <1>7. ASSUME NEW p \in Processes, write_key(p) PROVE TypeOK'
    BY <1>7 DEF write_key
  <1>8. ASSUME NEW p \in Processes, read_config(p) PROVE TypeOK'
    BY <1>8 DEF read_config
  <1>9. ASSUME NEW p \in Processes, check_arguments(p) PROVE TypeOK'
    BY <1>9 DEF check_arguments
  <1>10. ASSUME NEW p \in Processes, start_storage(p) PROVE TypeOK'
    BY <1>10 DEF start_storage
  <1>11. ASSUME NEW p \in Processes, start_listening(p) PROVE TypeOK'
    BY <1>11 DEF start_listening, closed
  <1>12. ASSUME NEW p \in Processes, start_fetcher(p) PROVE TypeOK'
    BY <1>12 DEF start_fetcher, closed, no_threads
  <1>13. ASSUME NEW p \in Processes, run(p) PROVE TypeOK'
    BY <1>13 DEF run
  <1>14. ASSUME NEW p \in Processes, wait(p) PROVE TypeOK'
    BY <1>14 DEF wait
  <1>15. ASSUME NEW p \in Processes, join_storage(p) PROVE TypeOK'
    BY <1>15 DEF join_storage
  <1>16. ASSUME NEW p \in Processes, stop(p) PROVE TypeOK'
    BY <1>16 DEF stop, progress_stopped
  <1>17. ASSUME NEW p \in Processes, join_workers(p) PROVE TypeOK'
    BY <1>17 DEF join_workers
  <1>18. ASSUME NEW p \in Processes, return(p) PROVE TypeOK'
    BY <1>18 DEF return, closed, no_threads
  <1>19. ASSUME NEW p \in Processes, progress_loop(p) PROVE TypeOK'
    BY <1>19 DEF progress_loop
  <1>20. ASSUME NEW p \in Processes, storage_done(p) PROVE TypeOK'
    BY <1>20 DEF storage_done
  <1>21. ASSUME NEW p \in Processes, worker_done(p) PROVE TypeOK'
    BY <1>21 DEF worker_done
  <1>22. ASSUME NEW p \in Processes, crash(p) PROVE TypeOK'
    BY <1>22 DEF crash, closed, no_threads
  <1> QED
    BY <1>1, <1>2, <1>3, <1>4, <1>5, <1>6, <1>7, <1>8, <1>9, <1>10, <1>11, <1>12, <1>13, <1>14, <1>15, <1>16, <1>17, <1>18, <1>19, <1>20, <1>21, <1>22 DEF Next, main

-----------------------------------------------------------------------------
(* One identity *)

\* Identity survives a step that leaves the key file alone and takes nobody into
\* the places where a key is made, or from outside to where it is used.
LEMMA KeysUntouched ==
    ASSUME Identity, UNCHANGED <<key_file, raced>>,
           \A p \in Processes :
              \/ pc'[p] \in keyless
              \/ /\ key'[p] = key[p]
                 /\ pc'[p] = pc[p] \/ (up(p) /\ pc'[p] \notin early)
    PROVE  Identity'
  BY DEF Identity, OneMaker, makes_key, up, early, keyless

\* Every action keeps the identity: only the four that deal with the key file
\* need an argument of their own.
LEMMA IdentityStep == TypeOK /\ Identity /\ [Next]_vars => Identity'
  <1> SUFFICES ASSUME TypeOK, Identity, [Next]_vars PROVE Identity'
    OBVIOUS
  <1> USE MainAssumption DEF TypeOK, goes_to, places, early, keyless, up
  <1>1. CASE UNCHANGED vars
    BY <1>1, KeysUntouched DEF vars, file_vars
  <1>2. ASSUME NEW p \in Processes, start(p) PROVE Identity'
    BY <1>2, KeysUntouched DEF start, file_vars
  <1>3. ASSUME NEW p \in Processes, check_config_root(p) PROVE Identity'
    BY <1>3, KeysUntouched DEF check_config_root, file_vars
  <1>4. ASSUME NEW p \in Processes, create_config_root(p) PROVE Identity'
    BY <1>4, KeysUntouched DEF create_config_root, file_vars
  <1>5. ASSUME NEW p \in Processes, read_config(p) PROVE Identity'
    BY <1>5, KeysUntouched DEF read_config, file_vars
  <1>6. ASSUME NEW p \in Processes, check_arguments(p) PROVE Identity'
    BY <1>6, KeysUntouched DEF check_arguments, file_vars
  <1>7. ASSUME NEW p \in Processes, start_storage(p) PROVE Identity'
    BY <1>7, KeysUntouched DEF start_storage, file_vars
  <1>8. ASSUME NEW p \in Processes, start_listening(p) PROVE Identity'
    BY <1>8, KeysUntouched DEF start_listening, file_vars
  <1>9. ASSUME NEW p \in Processes, run(p) PROVE Identity'
    BY <1>9, KeysUntouched DEF run, file_vars
  <1>10. ASSUME NEW p \in Processes, wait(p) PROVE Identity'
    BY <1>10, KeysUntouched DEF wait, file_vars
  <1>11. ASSUME NEW p \in Processes, join_storage(p) PROVE Identity'
    BY <1>11, KeysUntouched DEF join_storage, file_vars
  <1>12. ASSUME NEW p \in Processes, stop(p) PROVE Identity'
    BY <1>12, KeysUntouched DEF stop, file_vars
  <1>13. ASSUME NEW p \in Processes, join_workers(p) PROVE Identity'
    BY <1>13, KeysUntouched DEF join_workers, file_vars
  <1>14. ASSUME NEW p \in Processes, return(p) PROVE Identity'
    BY <1>14, KeysUntouched DEF return, file_vars
  <1>15. ASSUME NEW p \in Processes, progress_loop(p) PROVE Identity'
    BY <1>15, KeysUntouched DEF progress_loop, file_vars
  <1>16. ASSUME NEW p \in Processes, storage_done(p) PROVE Identity'
    BY <1>16, KeysUntouched DEF storage_done, file_vars
  <1>17. ASSUME NEW p \in Processes, worker_done(p) PROVE Identity'
    BY <1>17, KeysUntouched DEF worker_done, file_vars
  <1>18. ASSUME NEW p \in Processes, crash(p) PROVE Identity'
    BY <1>18, KeysUntouched DEF crash, file_vars
  <1>19. ASSUME NEW p \in Processes, start_fetcher(p) PROVE Identity'
    BY <1>19, KeysUntouched DEF start_fetcher, file_vars
  <1>20. ASSUME NEW p \in Processes, load_from_file(p) PROVE Identity'
    <2>1. CASE no_key_file
      <3> SUFFICES ASSUME ~raced' PROVE Identity'
        BY DEF Identity
      <3>1. goes_to(p, "load_key", "save_key") /\ key' = [key EXCEPT ![p] = <<p, starts[p]>>]
            /\ key_file' = key_file
        BY <1>20, <2>1 DEF load_from_file, no_key_file, file_vars
      <3>2. raced' = (raced \/ \E q \in Processes \ {p} : makes_key(q))
        BY <1>20, <2>1 DEF load_from_file, no_key_file
      <3>3. ~raced /\ \A q \in Processes \ {p} : ~makes_key(q)
        BY <3>2
      <3> QED
        BY <2>1, <3>1, <3>3 DEF no_key_file, Identity, OneMaker, makes_key
    <2>2. CASE ~no_key_file
      BY <1>20, <2>2 DEF load_from_file, no_key_file, file_vars, Identity, OneMaker, makes_key
    <2> QED
      BY <2>1, <2>2
  <1>21. ASSUME NEW p \in Processes, save_to_file(p) PROVE Identity'
    BY <1>21 DEF save_to_file, Identity, OneMaker, makes_key
  <1>22. ASSUME NEW p \in Processes, write_key(p) PROVE Identity'
    BY <1>22 DEF write_key, Identity, OneMaker, makes_key
  <1> QED
    BY <1>1, <1>2, <1>3, <1>4, <1>5, <1>6, <1>7, <1>8, <1>9, <1>10, <1>11, <1>12, <1>13, <1>14, <1>15, <1>16, <1>17, <1>18, <1>19, <1>20, <1>21, <1>22 DEF Next, main

-----------------------------------------------------------------------------
(* Threads *)

\* The joins keep the threads where they may be; unwinding without a join ends
\* the process, and its threads with it.
LEMMA ThreadsStep == TypeOK /\ ThreadsHavePlaces /\ [Next]_vars => ThreadsHavePlaces'
  <1> SUFFICES ASSUME TypeOK, ThreadsHavePlaces, [Next]_vars PROVE ThreadsHavePlaces'
    OBVIOUS
  <1> USE DEF TypeOK, ThreadsHavePlaces, goes_to, thread_vars
  <1>1. CASE UNCHANGED vars
    BY <1>1 DEF vars
  <1>2. ASSUME NEW p \in Processes, start(p) PROVE ThreadsHavePlaces'
    BY <1>2 DEF start
  <1>3. ASSUME NEW p \in Processes, check_config_root(p) PROVE ThreadsHavePlaces'
    BY <1>3 DEF check_config_root
  <1>4. ASSUME NEW p \in Processes, create_config_root(p) PROVE ThreadsHavePlaces'
    BY <1>4 DEF create_config_root
  <1>5. ASSUME NEW p \in Processes, load_from_file(p) PROVE ThreadsHavePlaces'
    BY <1>5 DEF load_from_file
  <1>6. ASSUME NEW p \in Processes, save_to_file(p) PROVE ThreadsHavePlaces'
    BY <1>6 DEF save_to_file
  <1>7. ASSUME NEW p \in Processes, write_key(p) PROVE ThreadsHavePlaces'
    BY <1>7 DEF write_key
  <1>8. ASSUME NEW p \in Processes, read_config(p) PROVE ThreadsHavePlaces'
    BY <1>8 DEF read_config
  <1>9. ASSUME NEW p \in Processes, check_arguments(p) PROVE ThreadsHavePlaces'
    BY <1>9 DEF check_arguments
  <1>10. ASSUME NEW p \in Processes, start_storage(p) PROVE ThreadsHavePlaces'
    BY <1>10 DEF start_storage
  <1>11. ASSUME NEW p \in Processes, start_listening(p) PROVE ThreadsHavePlaces'
    BY <1>11 DEF start_listening
  <1>12. ASSUME NEW p \in Processes, start_fetcher(p) PROVE ThreadsHavePlaces'
    BY <1>12 DEF start_fetcher, no_threads
  <1>13. ASSUME NEW p \in Processes, run(p) PROVE ThreadsHavePlaces'
    BY <1>13 DEF run
  <1>14. ASSUME NEW p \in Processes, wait(p) PROVE ThreadsHavePlaces'
    BY <1>14 DEF wait
  <1>15. ASSUME NEW p \in Processes, join_storage(p) PROVE ThreadsHavePlaces'
    BY <1>15 DEF join_storage, may_join
  <1>16. ASSUME NEW p \in Processes, stop(p) PROVE ThreadsHavePlaces'
    BY <1>16 DEF stop
  <1>17. ASSUME NEW p \in Processes, join_workers(p) PROVE ThreadsHavePlaces'
    BY <1>17 DEF join_workers, may_join
  <1>18. ASSUME NEW p \in Processes, return(p) PROVE ThreadsHavePlaces'
    BY <1>18 DEF return, no_threads, may_join
  <1>19. ASSUME NEW p \in Processes, progress_loop(p) PROVE ThreadsHavePlaces'
    BY <1>19 DEF progress_loop
  <1>20. ASSUME NEW p \in Processes, storage_done(p) PROVE ThreadsHavePlaces'
    BY <1>20 DEF storage_done
  <1>21. ASSUME NEW p \in Processes, worker_done(p) PROVE ThreadsHavePlaces'
    BY <1>21 DEF worker_done
  <1>22. ASSUME NEW p \in Processes, crash(p) PROVE ThreadsHavePlaces'
    BY <1>22 DEF crash, no_threads
  <1> QED
    BY <1>1, <1>2, <1>3, <1>4, <1>5, <1>6, <1>7, <1>8, <1>9, <1>10, <1>11, <1>12, <1>13, <1>14, <1>15, <1>16, <1>17, <1>18, <1>19, <1>20, <1>21, <1>22 DEF Next, main

-----------------------------------------------------------------------------
(* The theorems *)

\* The invariant that carries all three properties.
THEOREM InductiveInvariant == Spec => []IInv
  <1>1. Init => IInv
    BY InitIInv
  <1>2. IInv /\ [Next]_vars => IInv'
    BY TypeStep, IdentityStep, ThreadsStep DEF IInv
  <1> QED
    BY <1>1, <1>2, PTL DEF Spec

\* Types hold for every number of processes, starts and crashes.
THEOREM TypeCorrect == Spec => []TypeOK
  <1>1. IInv => TypeOK
    BY DEF IInv
  <1> QED
    BY <1>1, InductiveInvariant, PTL

\* Every process works with the key that is in the key file (crypto.cpp), unless
\* two first starts overlapped: whatever crashes, and however often.
THEOREM OneIdentityAlways == Spec => []OneIdentity
  <1>1. IInv => OneIdentity
    BY DEF IInv, Identity, OneIdentity
  <1> QED
    BY <1>1, InductiveInvariant, PTL

\* Only save_to_file and the write after it change the key file, and both expect
\* it without a key unless two first starts overlapped.
THEOREM KeyKeptAlways == Spec => KeyKept
  <1>1. ASSUME IInv, [Next]_vars, ~raced', key_file \in Keys
        PROVE  key_file' = key_file
    <2>1. ~raced
      <3>1. raced' = raced \/ \E p \in Processes : load_from_file(p)
        BY <1>1 DEF Next, main, vars, start, check_config_root, create_config_root,
           save_to_file, write_key, read_config, check_arguments, start_storage,
           start_listening, start_fetcher, run, wait, join_storage, stop, join_workers,
           return, progress_loop, storage_done, worker_done, crash
      <3> QED
        BY <1>1, <3>1 DEF load_from_file
    <2>2. key_file \notin {Absent, Torn}
      BY <1>1, MainAssumption
    <2>3. \A p \in Processes : ~save_to_file(p) /\ ~write_key(p)
      BY <1>1, <2>1, <2>2 DEF save_to_file, write_key, goes_to, IInv, Identity, OneMaker
    <2> QED
      BY <1>1, <2>3 DEF Next, main, vars, file_vars, start, check_config_root,
         create_config_root, load_from_file, read_config, check_arguments, start_storage,
         start_listening, start_fetcher, run, wait, join_storage, stop, join_workers,
         return, progress_loop, storage_done, worker_done, crash
  <1>2. IInv /\ [Next]_vars => [~raced' /\ key_file \in Keys => key_file' = key_file]_vars
    BY <1>1
  <1> QED
    BY <1>2, InductiveInvariant, PTL DEF Spec, KeyKept

\* No thread of main.cpp works with what main's end destroys.
THEOREM NothingOutlivesMainAlways == Spec => []NothingOutlivesMain
  <1>1. IInv => NothingOutlivesMain
    BY DEF IInv, ThreadsHavePlaces, NothingOutlivesMain
  <1> QED
    BY <1>1, InductiveInvariant, PTL

-----------------------------------------------------------------------------
(* The join at the end of main *)

\* main waits in the progress_handler's destructor for a thread nobody has told
\* to stop.
hung(p) == pc[p] = "return" /\ progress[p] = "running" /\ running_[p]

\* Once main has stopped the bars and the io_context, neither goes on.
StopIsForGood == \A p \in Processes : stopped[p] => ~running_[p]

\* Only stop sets either flag, and it sets both; start resets both.
LEMMA StopStep == TypeOK /\ StopIsForGood /\ [Next]_vars => StopIsForGood'
  <1> SUFFICES ASSUME TypeOK, StopIsForGood, [Next]_vars PROVE StopIsForGood'
    OBVIOUS
  <1>1. running_ \in [Processes -> BOOLEAN] /\ stopped \in [Processes -> BOOLEAN]
    BY DEF TypeOK
  <1>2. ASSUME NEW p \in Processes, start(p) PROVE StopIsForGood'
    BY <1>1, <1>2 DEF start, StopIsForGood
  <1>3. ASSUME NEW p \in Processes, stop(p) PROVE StopIsForGood'
    BY <1>1, <1>3 DEF stop, progress_stopped, StopIsForGood
  <1>4. CASE UNCHANGED <<running_, stopped>>
    BY <1>4 DEF StopIsForGood
  <1>5. \/ UNCHANGED <<running_, stopped>>
        \/ \E p \in Processes : start(p) \/ stop(p)
    BY DEF Next, main, vars, thread_vars, check_config_root, create_config_root,
       load_from_file, save_to_file, write_key, read_config, check_arguments, start_storage,
       start_listening, start_fetcher, run, wait, join_storage, join_workers, return,
       progress_loop, storage_done, worker_done, crash
  <1> QED
    BY <1>2, <1>3, <1>4, <1>5

\* A process that comes to its end through stop never hangs: what keeps
\* EndsAfterReturn from holding can only happen to one that returns before.
THEOREM StoppedProcessNeverHangs == Spec => [](\A p \in Processes : hung(p) => ~stopped[p])
  <1>1. Init => StopIsForGood
    BY DEF Init, StopIsForGood
  <1>2. StopIsForGood => \A p \in Processes : hung(p) => ~stopped[p]
    BY DEF StopIsForGood, hung
  <1> QED
    BY <1>1, <1>2, StopStep, TypeCorrect, PTL DEF Spec

\* A process that hangs in that join does so until somebody ends it: no step of
\* its own or of another process leads out (main.cpp:211, progress_handler.h).
THEOREM HangIsPermanent ==
    Spec => [][\A p \in Processes : hung(p) => hung(p)' \/ (pc'[p] = "off" /\ crashes' # crashes)]_vars
  <1>1. ASSUME TypeOK, [Next]_vars, NEW p \in Processes, hung(p)
        PROVE  hung(p)' \/ (pc'[p] = "off" /\ crashes' # crashes)
    <2>0. /\ progress \in [Processes -> thread] /\ running_ \in [Processes -> BOOLEAN]
          /\ pc \in [Processes -> places] /\ crashes \in Nat
      BY <1>1, MainAssumption DEF TypeOK
    <2>1. CASE UNCHANGED <<pc, progress, running_>>
      BY <1>1, <2>1 DEF hung
    <2>2. ASSUME NEW q \in Processes, start(q) \/ main(q), q # p PROVE hung(p)'
      <3>1. pc'[p] = pc[p]
        BY <2>0, <2>2 DEF main, start, goes_to, check_config_root, create_config_root,
           load_from_file, save_to_file, write_key, read_config, check_arguments,
           start_storage, start_listening, start_fetcher, run, wait, join_storage, stop,
           join_workers, return
      <3>2. progress'[p] = progress[p]
        BY <2>0, <2>2 DEF main, start, thread_vars, check_config_root, create_config_root,
           load_from_file, save_to_file, write_key, read_config, check_arguments,
           start_storage, start_listening, start_fetcher, run, wait, join_storage, stop,
           join_workers, return, no_threads
      <3>3. running_'[p] = running_[p]
        BY <2>0, <2>2 DEF main, start, thread_vars, check_config_root, create_config_root,
           load_from_file, save_to_file, write_key, read_config, check_arguments,
           start_storage, start_listening, start_fetcher, run, wait, join_storage, stop,
           progress_stopped, join_workers, return
      <3> QED
        BY <1>1, <3>1, <3>2, <3>3 DEF hung
    <2>3. ~start(p) /\ ~main(p)
      BY <1>1 DEF hung, main, start, goes_to, check_config_root, create_config_root,
         load_from_file, save_to_file, write_key, read_config, check_arguments,
         start_storage, start_listening, start_fetcher, run, wait, join_storage, stop,
         join_workers, return, may_join
    <2>4. ASSUME NEW q \in Processes, progress_loop(q) PROVE hung(p)'
      BY <1>1, <2>0, <2>4 DEF progress_loop, hung
    <2>5. ASSUME NEW q \in Processes, storage_done(q) \/ worker_done(q) PROVE hung(p)'
      BY <1>1, <2>5 DEF storage_done, worker_done, hung
    <2>6. ASSUME NEW q \in Processes, crash(q)
          PROVE  hung(p)' \/ (pc'[p] = "off" /\ crashes' # crashes)
      <3>1. CASE q = p
        BY <2>0, <2>6, <3>1 DEF crash
      <3>2. CASE q # p
        BY <1>1, <2>0, <2>6, <3>2 DEF crash, no_threads, hung
      <3> QED
        BY <3>1, <3>2
    <2> QED
      BY <1>1, <2>1, <2>2, <2>3, <2>4, <2>5, <2>6 DEF Next, vars, thread_vars
  <1>2. TypeOK /\ [Next]_vars =>
            [\A p \in Processes : hung(p) => hung(p)' \/ (pc'[p] = "off" /\ crashes' # crashes)]_vars
    BY <1>1
  <1> QED
    BY <1>2, TypeCorrect, PTL DEF Spec
=============================================================================
