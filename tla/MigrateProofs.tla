---------------------------- MODULE MigrateProofs ----------------------------
(***************************************************************************)
(* Theorems about Migrate, for any number of runners, builds and files:    *)
(* each file is applied once and in order, the record agrees with the      *)
(* schema, and a runner that is done is up to date.                        *)
(***************************************************************************)
EXTENDS Migrate, TLAPS

\* The runners that have read which versions are recorded.
Informed == {"applying", "recording", "committing"}

\* What a runner has not seen applied is still to do, and nothing else is.
TodoCovers ==
    \A r \in Runners : pc[r] \in Informed =>
        Embedded(r) \ recorded \subseteq todo[r] /\ todo[r] \subseteq Embedded(r)

\* The open transactions are for different files, each its runner's next.
OneEach ==
    /\ \A r, s \in Runners : tx[r] # 0 /\ tx[r] = tx[s] => r = s
    /\ \A r \in Runners : tx[r] # 0 => IsNext(r, tx[r])

\* What is about to be committed is not there yet.
CommitsNew == \A r \in Runners : pc[r] = "committing" => tx[r] \notin recorded

IInv == TypeOK /\ AppliedOnce /\ TodoCovers /\ OneEach /\ CommitsNew /\ NoGap /\ UpToDate

-----------------------------------------------------------------------------
\* The invariant holds in the initial state.
LEMMA InitIInv == Init => IInv
<1> SUFFICES ASSUME Init PROVE IInv
  OBVIOUS
<1> USE DEF Init
<1>1. TypeOK
  BY DEF TypeOK, Running
<1>2. AppliedOnce
  BY DEF AppliedOnce
<1>3. TodoCovers
  BY DEF TodoCovers, Informed
<1>4. OneEach /\ CommitsNew
  BY DEF OneEach, CommitsNew
<1>5. NoGap /\ UpToDate
  BY DEF NoGap, UpToDate
<1> QED
  BY <1>1, <1>2, <1>3, <1>4, <1>5 DEF IInv

\* Steps that only move a runner, to a place that promises nothing new, or end
\* its transaction.
LEMMA MoveStep ==
    ASSUME IInv, NEW r \in Runners,
           Start(r) \/ CreateTable(r) \/ Record(r) \/ Finish(r) \/ Refused(r) \/ Stop(r)
    PROVE  IInv'
<1> USE MigrateConstants DEF IInv
<1>0. UNCHANGED <<todo, recorded, applied>>
  BY DEF Start, CreateTable, Record, Finish, Refused, Stop
<1>1. /\ \A s \in Runners \ {r} : pc'[s] = pc[s] /\ tx'[s] = tx[s]
      /\ tx'[r] \in {0, tx[r]}
  BY DEF TypeOK, Start, CreateTable, Record, Finish, Refused, Stop, Fail, Goto
<1>2. TypeOK'
  BY DEF TypeOK, Start, CreateTable, Record, Finish, Refused, Stop, Fail, Goto, Running
<1>3. AppliedOnce' /\ NoGap'
  BY <1>0 DEF AppliedOnce, NoGap
<1>4. TodoCovers'
  <2>1. pc'[r] \in Informed => pc[r] \in Informed
    BY DEF TypeOK, Start, CreateTable, Record, Finish, Refused, Stop, Fail, Goto, Informed
  <2> QED
    BY <2>1, <1>0, <1>1 DEF TodoCovers, Embedded
<1>5. OneEach'
  BY <1>0, <1>1 DEF OneEach, IsNext
<1>6. CommitsNew'
  <2>1. pc'[r] = "committing" => tx'[r] \notin recorded
    BY DEF TypeOK, Start, CreateTable, Record, Finish, Refused, Stop, Fail, Goto
  <2> QED
    BY <2>1, <1>0, <1>1 DEF CommitsNew
<1>7. UpToDate'
  <2>1. pc'[r] = "done" => Embedded(r) \subseteq recorded
    <3>1. pc'[r] = "done" => pc[r] = "applying" /\ todo[r] = {}
      BY DEF TypeOK, Start, CreateTable, Record, Finish, Refused, Stop, Fail, Goto
    <3> QED
      BY <3>1 DEF TodoCovers, Informed
  <2> QED
    BY <2>1, <1>0, <1>1 DEF UpToDate, Embedded
<1> QED
  BY <1>2, <1>3, <1>4, <1>5, <1>6, <1>7

\* What a runner reads is complete when it reads it.
LEMMA ReadStep == ASSUME IInv, NEW r \in Runners, ReadApplied(r) PROVE IInv'
<1> USE MigrateConstants DEF IInv
<1>1. /\ pc' = [pc EXCEPT ![r] = "applying"]
      /\ todo' = [todo EXCEPT ![r] = Embedded(r) \ recorded]
      /\ UNCHANGED <<tx, recorded, applied>>
      /\ pc[r] = "reading"
  BY DEF ReadApplied, Goto
<1>2. tx[r] = 0
  BY <1>1 DEF TypeOK
<1>3. TypeOK'
  BY <1>1, <1>2 DEF TypeOK, Running, Embedded
<1>4. AppliedOnce' /\ NoGap'
  BY <1>1 DEF AppliedOnce, NoGap
<1>5. TodoCovers'
  BY <1>1 DEF TodoCovers, TypeOK, Embedded, Informed
<1>6. OneEach'
  BY <1>1, <1>2 DEF OneEach, IsNext, TypeOK
<1>7. CommitsNew' /\ UpToDate'
  BY <1>1 DEF CommitsNew, UpToDate, TypeOK, Embedded
<1> QED
  BY <1>3, <1>4, <1>5, <1>6, <1>7

\* Begin and the SQL of a file: a transaction opens for one that nobody else has.
LEMMA ApplyStep ==
    ASSUME IInv, NEW r \in Runners, NEW f \in Files, Apply(r, f) PROVE IInv'
<1> USE MigrateConstants DEF IInv
<1>1. /\ pc' = [pc EXCEPT ![r] = "recording"] /\ tx' = [tx EXCEPT ![r] = f]
      /\ UNCHANGED <<todo, recorded, applied>>
      /\ pc[r] = "applying" /\ IsNext(r, f) /\ Unlocked(r, f)
  BY DEF Apply, Goto
<1>2. TypeOK'
  BY <1>1 DEF TypeOK, Running
<1>3. AppliedOnce' /\ NoGap'
  BY <1>1 DEF AppliedOnce, NoGap
<1>4. TodoCovers'
  BY <1>1 DEF TodoCovers, TypeOK, Embedded, Informed
<1>5. OneEach'
  BY <1>1 DEF OneEach, IsNext, Unlocked, TypeOK
<1>6. CommitsNew' /\ UpToDate'
  BY <1>1 DEF CommitsNew, UpToDate, TypeOK, Embedded
<1> QED
  BY <1>2, <1>3, <1>4, <1>5, <1>6

\* A committed file was missing, was its runner's next, and is nobody else's.
LEMMA CommitStep ==
    ASSUME IInv, NEW r \in Runners, Commit(r) \/ CommitUnheard(r) PROVE IInv'
<1> USE MigrateConstants DEF IInv
<1> DEFINE f == tx[r]
<1>1. /\ pc[r] = "committing"
      /\ recorded' = recorded \cup {f}
      /\ applied' = [applied EXCEPT ![f] = @ + 1]
      /\ tx' = [tx EXCEPT ![r] = 0]
      /\ \A s \in Runners \ {r} : pc'[s] = pc[s] /\ todo'[s] = todo[s]
      /\ \/ pc'[r] = "applying" /\ todo'[r] = todo[r] \ {f}
         \/ pc'[r] = "failed" /\ todo'[r] = todo[r]
  BY DEF Commit, CommitUnheard, Committed, Goto, TypeOK
<1>2. f \in Files /\ f # 0 /\ f \notin recorded /\ IsNext(r, f)
  BY <1>1 DEF TypeOK, OneEach, CommitsNew
<1>3. TypeOK'
  <2>1. pc' \in [Runners -> Running \cup {"idle", "failed", "done"}]
    BY DEF TypeOK, Commit, CommitUnheard, Goto, Running
  <2>2. todo' \in [Runners -> SUBSET Files]
    BY DEF TypeOK, Commit, CommitUnheard
  <2>3. tx' \in [Runners -> Files \cup {0}] /\ recorded' \subseteq Files
    BY <1>1, <1>2 DEF TypeOK
  <2>4. \A s \in Runners : tx'[s] # 0 <=> pc'[s] \in {"recording", "committing"}
    <3>1. tx'[r] = 0 /\ pc'[r] \notin {"recording", "committing"}
      BY <1>1 DEF TypeOK
    <3>2. \A s \in Runners \ {r} : tx'[s] = tx[s] /\ pc'[s] = pc[s]
      BY <1>1 DEF TypeOK
    <3> QED
      BY <3>1, <3>2 DEF TypeOK
  <2>5. applied' \in [Files -> Nat]
    <3>1. f \in Files /\ applied \in [Files -> Nat]
      BY <1>2 DEF TypeOK
    <3>2. applied' = [applied EXCEPT ![f] = applied[f] + 1]
      BY <1>1
    <3> HIDE DEF f, IInv
    <3>3. applied[f] \in Nat
      BY <3>1
    <3> QED
      BY <3>1, <3>2, <3>3
  <2> QED
    BY <2>1, <2>2, <2>3, <2>4, <2>5 DEF TypeOK
<1>4. AppliedOnce'
  BY <1>1, <1>2 DEF AppliedOnce, TypeOK
<1>5. TodoCovers'
  BY <1>1, <1>2 DEF TodoCovers, TypeOK, Embedded, Informed
<1>6. OneEach'
  BY <1>1, <1>2 DEF OneEach, IsNext, TypeOK
<1>7. CommitsNew'
  BY <1>1, <1>2 DEF CommitsNew, OneEach, TypeOK
<1>8. NoGap'
  <2>1. \A g \in Files : g <= f => g = f \/ g \in recorded
    <3> SUFFICES ASSUME NEW g \in Files, g <= f, g \notin recorded PROVE g = f
      OBVIOUS
    <3>1. Embedded(r) \ recorded \subseteq todo[r] /\ todo[r] \subseteq Embedded(r)
      BY <1>1 DEF TodoCovers, Informed
    <3>2. f \in Embedded(r) /\ \A h \in todo[r] : f <= h
      BY <1>2, <3>1 DEF IsNext
    <3>3. f \in Nat /\ g \in Nat /\ Build[r] \in Nat
      BY <1>2
    <3>4. g \in Embedded(r)
      BY <3>2, <3>3 DEF Embedded
    <3> QED
      BY <3>1, <3>2, <3>3, <3>4
  <2> QED
    BY <2>1, <1>1 DEF NoGap
<1>9. UpToDate'
  BY <1>1 DEF UpToDate, Embedded
<1> QED
  BY <1>3, <1>4, <1>5, <1>6, <1>7, <1>8, <1>9

\* Every step keeps the invariant.
LEMMA NextIInv == IInv /\ [Next]_vars => IInv'
<1> SUFFICES ASSUME IInv, [Next]_vars PROVE IInv'
  OBVIOUS
<1>1. CASE Next
  <2>1. PICK r \in Runners : Start(r) \/ Step(r) \/ CommitUnheard(r) \/ Stop(r)
    BY <1>1 DEF Next
  <2>2. CASE ReadApplied(r)
    BY <2>2, ReadStep
  <2>3. CASE \E f \in Files : Apply(r, f)
    BY <2>3, ApplyStep
  <2>4. CASE Commit(r) \/ CommitUnheard(r)
    BY <2>4, CommitStep
  <2>5. CASE Start(r) \/ CreateTable(r) \/ Record(r) \/ Finish(r) \/ Refused(r) \/ Stop(r)
    BY <2>5, MoveStep
  <2> QED
    BY <2>1, <2>2, <2>3, <2>4, <2>5 DEF Step
<1>2. CASE UNCHANGED vars
  BY <1>2 DEF vars, IInv, TypeOK, AppliedOnce, TodoCovers, OneEach, CommitsNew, NoGap, UpToDate,
              Embedded, IsNext
<1> QED
  BY <1>1, <1>2
-----------------------------------------------------------------------------
\* The invariant the others follow from, of the runners as a whole.
THEOREM Invariance == Spec => []IInv
<1>1. Spec => Init /\ [][Next]_vars
  BY DEF Spec
<1> QED
  BY <1>1, InitIInv, NextIInv, PTL

\* Every variable keeps its type, and a transaction is open exactly between
\* Begin and Commit or Rollback.
THEOREM TypeCorrect == Spec => []TypeOK
<1>1. IInv => TypeOK
  BY DEF IInv
<1> QED
  BY <1>1, Invariance, PTL

\* Whichever runners race, fail or are repeated, no file is applied twice, and
\* schema_migrations records what was applied.
THEOREM AppliedAndRecorded == Spec => []AppliedOnce
<1>1. IInv => AppliedOnce
  BY DEF IInv
<1> QED
  BY <1>1, Invariance, PTL

\* Builds of different age leave no gap, and a runner that is done has applied
\* all the files of its build or found them applied.
THEOREM OrderKept == Spec => []InOrder
<1>1. IInv => InOrder
  BY DEF IInv, InOrder
<1> QED
  BY <1>1, Invariance, PTL
=============================================================================
