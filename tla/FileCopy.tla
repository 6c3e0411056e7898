------------------------------ MODULE FileCopy ------------------------------
(***************************************************************************)
(* What a transfer promises, without sessions, messages or keys: a local   *)
(* partial file grows chunk by chunk, each chunk being the source's at     *)
(* that place in some version the source has had, and becomes the copy     *)
(* when it has the announced length. Nothing else ever happens to either.  *)
(***************************************************************************)
EXTENDS Naturals, Sequences

CONSTANTS
    Size,    \* the announced length, in chunks
    Absent   \* no copy yet

VARIABLES
    version,  \* of the source: how often it was changed
    partial,  \* the chunks received, in order
    copy      \* the finished file

vars == <<version, partial, copy>>

Init ==
    /\ version = 0
    /\ partial = <<>>
    /\ copy = Absent

Change ==
    /\ version' = version + 1
    /\ UNCHANGED <<partial, copy>>

Extend ==
    /\ Len(partial) < Size
    /\ \E v \in 0..version :
          partial' = Append(partial, [at |-> Len(partial) + 1, version |-> v])
    /\ UNCHANGED <<version, copy>>

Publish ==
    /\ copy = Absent
    /\ Len(partial) = Size
    /\ copy' = partial
    /\ partial' = <<>>
    /\ UNCHANGED version

Next == Change \/ Extend \/ Publish

Spec == Init /\ [][Next]_vars

\* A finished copy has the announced length and every chunk at its place.
CopyInPlace ==
    copy # Absent => /\ Len(copy) = Size
                     /\ \A i \in 1..Size : copy[i].at = i

\* If the source never changed, the copy is the source.
CopyIsSource ==
    version = 0 /\ copy # Absent =>
        copy = [i \in 1..Size |-> [at |-> i, version |-> 0]]

=============================================================================
