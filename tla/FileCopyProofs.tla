--------------------------- MODULE FileCopyProofs ---------------------------
(***************************************************************************)
(* What follows from FileCopy, for every size and any number of changes:   *)
(* the copy is in place, and is the source if the source never changed.    *)
(* Transfer implements FileCopy (property ImplementsFileCopy), so both     *)
(* hold of client_session and server_session, resumes included.            *)
(***************************************************************************)
EXTENDS FileCopy, TLAPS

chunks == [at : Nat, version : Nat]

\* file is the beginning of some mix of the versions up to v.
in_place(file, v) ==
    /\ file \in Seq(chunks)
    /\ \A i \in 1..Len(file) : file[i].at = i /\ file[i].version <= v

\* What is received is in place from the first chunk on, not only when it is
\* published.
IInv ==
    /\ version \in Nat
    /\ in_place(partial, version)
    /\ Len(partial) <= Size
    /\ copy # Absent => in_place(copy, version) /\ Len(copy) = Size

\* A change of the source takes nothing back from what was received.
LEMMA ChangeKeepsPlace ==
    ASSUME NEW v \in Nat, NEW file, in_place(file, v)
    PROVE  in_place(file, v + 1)
  <1>1. ASSUME NEW i \in 1..Len(file)
        PROVE  file[i].at = i /\ file[i].version <= v + 1
    <2>1. file[i] \in chunks
      BY DEF in_place
    <2>2. file[i].version \in Nat
      BY <2>1 DEF chunks
    <2> QED
      BY <2>2 DEF in_place
  <1> QED
    BY <1>1 DEF in_place

\* The next chunk, whichever version it is of, goes to its place.
LEMMA ExtendKeepsPlace ==
    ASSUME NEW v \in Nat, NEW file, in_place(file, v), NEW w \in 0..v
    PROVE  in_place(Append(file, [at |-> Len(file) + 1, version |-> w]), v)
  <1> DEFINE last == [at |-> Len(file) + 1, version |-> w]
  <1>1. file \in Seq(chunks) /\ Len(file) \in Nat
    BY DEF in_place
  <1>2. last \in chunks
    BY <1>1 DEF chunks
  <1>3. /\ Append(file, last) \in Seq(chunks)
        /\ Len(Append(file, last)) = Len(file) + 1
    BY <1>1, <1>2
  <1>4. ASSUME NEW i \in 1..Len(file) + 1
        PROVE  Append(file, last)[i].at = i /\ Append(file, last)[i].version <= v
    <2>1. CASE i \in 1..Len(file)
      <3>1. Append(file, last)[i] = file[i]
        BY <1>1, <1>2, <2>1
      <3> QED
        BY <2>1, <3>1 DEF in_place
    <2>2. CASE i = Len(file) + 1
      <3>1. Append(file, last)[i] = last
        BY <1>1, <1>2, <2>2
      <3> QED
        BY <2>2, <3>1
    <2> QED
      BY <1>1, <2>1, <2>2
  <1> QED
    BY <1>3, <1>4 DEF in_place

LEMMA InitIsGood ==
    ASSUME Size \in Nat, Init
    PROVE  IInv
  BY DEF Init, IInv, in_place

LEMMA StepKeepsIInv ==
    ASSUME Size \in Nat, IInv, [Next]_vars
    PROVE  IInv'
  <1> USE DEF IInv
  <1>1. CASE Change
    <2>1. version' = version + 1 /\ partial' = partial /\ copy' = copy
      BY <1>1 DEF Change
    <2>2. in_place(partial', version')
      BY <2>1, ChangeKeepsPlace
    <2>3. copy # Absent => in_place(copy', version')
      BY <2>1, ChangeKeepsPlace
    <2> QED
      BY <2>1, <2>2, <2>3
  <1>2. CASE Extend
    <2>1. PICK v \in 0..version :
             partial' = Append(partial, [at |-> Len(partial) + 1, version |-> v])
      BY <1>2 DEF Extend
    <2>2. in_place(partial', version)
      BY <2>1, ExtendKeepsPlace
    <2>3. Len(partial') <= Size
      <3>1. Len(partial) \in Nat /\ Len(partial') = Len(partial) + 1
        BY <2>1 DEF in_place
      <3> QED
        BY <1>2, <3>1 DEF Extend
    <2> QED
      BY <1>2, <2>2, <2>3 DEF Extend, in_place
  <1>3. CASE Publish
    <2>1. copy' = partial /\ partial' = <<>> /\ version' = version /\ Len(partial) = Size
      BY <1>3 DEF Publish
    <2> QED
      BY <2>1 DEF in_place
  <1>4. CASE UNCHANGED vars
    BY <1>4 DEF vars, in_place
  <1> QED
    BY <1>1, <1>2, <1>3, <1>4 DEF Next

\* In every state what was received is in place: the strengthening the two
\* theorems below need.
THEOREM EverythingInPlace ==
    ASSUME Size \in Nat
    PROVE  Spec => []IInv
  BY InitIsGood, StepKeepsIInv, PTL DEF Spec

\* However often the transfer was interrupted, resumed where it stopped and the
\* source changed, the finished file has the announced length and no chunk is
\* lost, doubled or out of place.
THEOREM CopyIsAlwaysInPlace ==
    ASSUME Size \in Nat
    PROVE  Spec => []CopyInPlace
  <1>1. IInv => CopyInPlace
    BY DEF IInv, in_place, CopyInPlace
  <1> QED
    BY <1>1, EverythingInPlace, PTL

\* If nobody changed the source, the finished file is the source.
THEOREM CopyIsAlwaysSource ==
    ASSUME Size \in Nat
    PROVE  Spec => []CopyIsSource
  <1>1. ASSUME IInv, version = 0, copy # Absent
        PROVE  copy = [i \in 1..Size |-> [at |-> i, version |-> 0]]
    <2>1. copy \in Seq(chunks) /\ Len(copy) = Size
      BY <1>1 DEF IInv, in_place
    <2>2. copy = [i \in 1..Size |-> copy[i]]
      BY <2>1
    <2>3. ASSUME NEW i \in 1..Size
          PROVE  copy[i] = [at |-> i, version |-> 0]
      <3>1. copy[i] \in chunks
        BY <2>1
      <3>2. copy[i].at = i /\ copy[i].version <= 0
        BY <1>1, <2>1 DEF IInv, in_place
      <3> QED
        BY <3>1, <3>2 DEF chunks
    <2> QED
      BY <2>2, <2>3
  <1>2. IInv => CopyIsSource
    BY <1>1 DEF CopyIsSource
  <1> QED
    BY <1>2, EverythingInPlace, PTL
=============================================================================
