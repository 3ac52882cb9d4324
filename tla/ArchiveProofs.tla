----------------------------- MODULE ArchiveProofs -----------------------------
(***************************************************************************)
(* The archive and the publication that feeds it.  First what ArchiveOps   *)
(* promises for every set of operations and drainers, every batch size and *)
(* every number of expiries, deaths and archive-retries; it uses nothing   *)
(* of Publication.  Then what publication promises beside the archive, for *)
(* any number of runs, artifacts and faults, and that the archive does     *)
(* beside it what ArchiveOps promises.                                     *)
(***************************************************************************)
EXTENDS Publication, TLAPS, FiniteSetTheorems, WellFoundedInduction

\* A good receipt, and the success made from it, is about the operation in
\* hand: its blob is on the share.
ReceiptIsOnShare ==
    \A d \in Drainers, o \in Ops :
        Works(d, o) /\ (copied[d] = "good" \/ result[d] = "SUCCEEDED") => nas[Blob[o]] = "good"

ArchiveInv == TypeOK /\ ReceiptIsOnShare /\ ArchivedIsVerified

\* Whatever lies at the local paths, nothing is wrong while nothing is queued.
LEMMA NothingQueuedInv ==
  ASSUME NothingQueued, local \in [Blobs -> {"absent", "good", "bad"}]
  PROVE  ArchiveInv
  <1>1. /\ opState \in [Ops -> OpStates] /\ claims \in [Ops -> Nat]
        /\ stolen \in [Ops -> Nat] /\ expired \in [Ops -> BOOLEAN]
        /\ local \in [Blobs -> {"absent", "good", "bad"}]
        /\ nas \in [Blobs -> {"absent", "good", "bad"}]
    BY DEF NothingQueued, OpStates
  <1>2. /\ pc \in [Drainers -> {"off", "claim", "check", "copy", "verify", "record"}]
        /\ todo \in [Drainers -> SUBSET Ops]
        /\ attemptNo \in [Drainers -> [Ops -> Nat]]
        /\ copied \in [Drainers -> {"none", "good", "bad"}]
        /\ result \in [Drainers -> Results \cup {"none"}]
    BY DEF NothingQueued
  <1>3. /\ slow \in 0..SlowBound /\ manual \in 0..RetryBound
        /\ crashes \in 0..CrashBound
    BY ArchiveAssumption DEF ArchiveAssumption, NothingQueued
  <1>4. \A d \in Drainers :
           pc[d] = "off" /\ todo[d] = {} /\ result[d] = "none" /\ copied[d] = "none"
    BY DEF NothingQueued
  <1>5. TypeOK
    BY <1>1, <1>2, <1>3, <1>4 DEF TypeOK
  <1>6. ReceiptIsOnShare /\ ArchivedIsVerified
    BY <1>4 DEF NothingQueued, ReceiptIsOnShare, ArchivedIsVerified, Works
  <1> QED
    BY <1>5, <1>6 DEF ArchiveInv

LEMMA ArchiveInit == Init => ArchiveInv
  BY NothingQueuedInv DEF Init

LEMMA WorksOnOne ==
  ASSUME TypeOK, NEW d \in Drainers, NEW o \in Ops, NEW p \in Ops, Works(d, o), Works(d, p)
  PROVE  o = p
  BY ArchiveAssumption DEF ArchiveAssumption, TypeOK, Works

\* A drainer that lets go of everything, with an untouched table.
LEMMA DropsKeeps ==
  ASSUME ArchiveInv, NEW d \in Drainers, Drops(d), crashes' \in 0..CrashBound,
         UNCHANGED <<opState, claims, expired, local, nas, stolen, slow, manual>>
  PROVE  ArchiveInv'
  <1>1. TypeOK'
    BY DEF ArchiveInv, TypeOK, Drops
  <1>2. \A q \in Drainers, o \in Ops :
           Works(q, o)' /\ (copied'[q] = "good" \/ result'[q] = "SUCCEEDED") =>
              Works(q, o) /\ (copied[q] = "good" \/ result[q] = "SUCCEEDED")
    BY DEF ArchiveInv, TypeOK, Drops, Works
  <1> QED
    BY <1>1, <1>2 DEF ArchiveInv, ReceiptIsOnShare, ArchivedIsVerified

\* A step of the try block of drain, seen by the type invariant.
LEMMA DrainerGoesOn ==
  ASSUME TypeOK, NEW d \in Drainers, NEW step \in {"check", "copy", "verify", "record"},
         todo[d] # {}, pc' = [pc EXCEPT ![d] = step],
         UNCHANGED <<table, todo, attemptNo, local, stolen, counters>>,
         nas' \in [Blobs -> {"absent", "good", "bad"}],
         copied' \in [Drainers -> {"none", "good", "bad"}],
         result' \in [Drainers -> Results \cup {"none"}],
         \A e \in Drainers \ {d} : copied'[e] = copied[e] /\ result'[e] = result[e],
         copied'[d] # "none" => step \in {"verify", "record"},
         result'[d] = "none" <=> step # "record"
  PROVE  TypeOK'
  <1>1. /\ opState' \in [Ops -> OpStates] /\ claims' \in [Ops -> Nat]
        /\ stolen' \in [Ops -> Nat] /\ expired' \in [Ops -> BOOLEAN]
        /\ local' \in [Blobs -> {"absent", "good", "bad"}]
        /\ todo' \in [Drainers -> SUBSET Ops] /\ attemptNo' \in [Drainers -> [Ops -> Nat]]
        /\ slow' \in 0..SlowBound /\ manual' \in 0..RetryBound /\ crashes' \in 0..CrashBound
    BY DEF TypeOK, table, counters
  <1>2. pc' \in [Drainers -> {"off", "claim", "check", "copy", "verify", "record"}]
    BY DEF TypeOK
  <1>3. /\ pc'[d] = step /\ todo'[d] # {}
        /\ \A e \in Drainers \ {d} : pc'[e] = pc[e] /\ todo'[e] = todo[e]
    BY DEF TypeOK
  <1>4. \A e \in Drainers :
            /\ pc'[e] \in {"off", "claim"} <=> todo'[e] = {}
            /\ result'[e] = "none" <=> pc'[e] # "record"
            /\ copied'[e] # "none" => pc'[e] \in {"verify", "record"}
    BY <1>3 DEF TypeOK
  <1> QED
    BY <1>1, <1>2, <1>4 DEF TypeOK

LEMMA Settling ==
  ASSUME TypeOK, NEW d \in Drainers, NEW o \in Ops, NEW r \in Results,
         pc[d] \in {"check", "copy", "verify"}, Works(d, o), Settles(d, r),
         UNCHANGED <<nas, copied>>
  PROVE  TypeOK'
  <1>1. r # "none" /\ todo[d] # {}
    BY DEF Results, Works
  <1>2. /\ result' \in [Drainers -> Results \cup {"none"}] /\ result'[d] = r
        /\ \A e \in Drainers \ {d} : result'[e] = result[e]
    BY DEF Settles, TypeOK
  <1>3. /\ nas' \in [Blobs -> {"absent", "good", "bad"}]
        /\ copied' \in [Drainers -> {"none", "good", "bad"}]
        /\ pc' = [pc EXCEPT ![d] = "record"]
        /\ UNCHANGED <<table, todo, attemptNo, local, stolen, counters>>
    BY DEF Settles, TypeOK
  <1> QED
    BY <1>1, <1>2, <1>3, DrainerGoesOn

LEMMA GoingOn ==
  ASSUME TypeOK, NEW d \in Drainers, NEW o \in Ops, NEW step \in {"copy", "verify"},
         pc[d] \in {"check", "copy"}, Works(d, o), GoesOn(d, step),
         nas' \in [Blobs -> {"absent", "good", "bad"}],
         UNCHANGED copied
            \/ (step = "verify" /\ \E c \in {"good", "bad"} :
                   copied' = [copied EXCEPT ![d] = c])
  PROVE  TypeOK'
  <1>1. todo[d] # {} /\ result[d] = "none" /\ copied[d] = "none"
    BY DEF Works, TypeOK
  <1>2. /\ copied' \in [Drainers -> {"none", "good", "bad"}]
        /\ \A e \in Drainers \ {d} : copied'[e] = copied[e]
        /\ copied'[d] # "none" => step = "verify"
    <2>1. CASE UNCHANGED copied
      BY <1>1, <2>1 DEF TypeOK
    <2>2. ASSUME NEW c \in {"good", "bad"}, step = "verify",
                 copied' = [copied EXCEPT ![d] = c]
          PROVE  /\ copied' \in [Drainers -> {"none", "good", "bad"}]
                 /\ \A e \in Drainers \ {d} : copied'[e] = copied[e]
                 /\ copied'[d] # "none" => step = "verify"
      BY <2>2 DEF TypeOK
    <2> QED
      BY <2>1, <2>2
  <1>3. /\ UNCHANGED result /\ pc' = [pc EXCEPT ![d] = step]
        /\ UNCHANGED <<table, todo, attemptNo, local, stolen, counters>>
    BY DEF GoesOn
  <1>4. result' \in [Drainers -> Results \cup {"none"}]
    BY <1>3 DEF TypeOK
  <1> QED
    BY <1>1, <1>2, <1>3, <1>4, DrainerGoesOn

LEMMA ArchiveTypeStep == ArchiveInv /\ [Next]_vars => TypeOK'
  <1> SUFFICES ASSUME ArchiveInv, [Next]_vars PROVE TypeOK'
    OBVIOUS
  <1> USE ArchiveAssumption
      DEF ArchiveAssumption, ArchiveInv, TypeOK, OpStates, Results, table, drainer,
          counters
  <1>1. ASSUME NEW d \in Drainers, Recover(d) PROVE TypeOK'
    BY <1>1 DEF Recover
  <1>2. ASSUME NEW d \in Drainers, Claim(d) PROVE TypeOK'
    <2> DEFINE no == [o \in Ops |-> IF o \in Batch THEN claims[o] + 1 ELSE 0]
    <2>1. /\ pc[d] = "claim" /\ Batch \subseteq Ops
          /\ todo' = [todo EXCEPT ![d] = Batch]
          /\ pc' = [pc EXCEPT ![d] = IF Batch = {} THEN "off" ELSE "check"]
          /\ attemptNo' = [attemptNo EXCEPT ![d] = no]
          /\ UNCHANGED <<local, nas, copied, result, stolen, slow, manual, crashes>>
      BY <1>2 DEF Claim, Batch, Claimable
    <2>2. /\ opState' \in [Ops -> OpStates]
          /\ expired' \in [Ops -> BOOLEAN]
      BY <1>2 DEF Claim
    <2>5. claims' \in [Ops -> Nat]
      <3>1. claims' = [o \in Ops |-> IF o \in Batch THEN claims[o] + 1 ELSE claims[o]]
        BY <1>2 DEF Claim
      <3>2. \A o \in Ops : claims[o] \in Nat /\ claims[o] + 1 \in Nat
        OBVIOUS
      <3> QED
        BY <3>1, <3>2
    <2>3. no \in [Ops -> Nat]
      OBVIOUS
    <2> HIDE DEF no
    <2>4. attemptNo' \in [Drainers -> [Ops -> Nat]]
      BY <2>1, <2>3
    <2> QED
      BY <2>1, <2>2, <2>4, <2>5
  <1>3. ASSUME NEW d \in Drainers, NEW o \in Ops,
               IoError(d, o) \/ Defect(d, o) \/ RouteRefused(d, o) \/ CheckLocal(d, o)
        PROVE  TypeOK'
    <2>1. CASE IoError(d, o)
      <3>1. IoResult(d, o) \in Results
        BY DEF IoResult
      <3> QED
        BY <2>1, <3>1, Settling DEF IoError
    <2>2. CASE RouteRefused(d, o)
      BY <2>2, Settling DEF RouteRefused
    <2>3. CASE CheckLocal(d, o)
      BY <2>3, Settling, GoingOn DEF CheckLocal
    <2>4. CASE Defect(d, o)
      BY <2>4, Settling DEF Defect
    <2> QED
      BY <1>3, <2>1, <2>2, <2>3, <2>4
  <1>4. ASSUME NEW d \in Drainers, NEW o \in Ops, CopyFile(d, o) \/ VerifyCopy(d, o)
        PROVE  TypeOK'
    <2>1. CASE CopyFile(d, o)
      <3>1. nas' \in [Blobs -> {"absent", "good", "bad"}]
        BY <2>1 DEF CopyFile
      <3> QED
        BY <2>1, <3>1, Settling, GoingOn DEF CopyFile
    <2>2. CASE VerifyCopy(d, o)
      BY <2>2, Settling DEF VerifyCopy
    <2> QED
      BY <1>4, <2>1, <2>2
  <1>5. ASSUME NEW d \in Drainers, NEW o \in Ops, Record(d, o) PROVE TypeOK'
    BY <1>5 DEF Record, Works
  <1>6. ASSUME NEW d \in Drainers,
               DrainerDies(d) \/ \E o \in Ops : RecordRefused(d, o)
        PROVE  TypeOK'
    BY <1>6, DropsKeeps DEF DrainerDies, RecordRefused
  <1>7. ASSUME NEW o \in Ops,
               Enqueue(o) \/ LeaseExpires(o)
        PROVE  TypeOK'
    <2>1. CASE Enqueue(o)
      BY <2>1 DEF Enqueue
    <2>2. CASE LeaseExpires(o)
      BY <2>2 DEF LeaseExpires
    <2> QED
      BY <1>7, <2>1, <2>2
  <1>10. ASSUME NEW b \in Blobs, LocalDamaged(b) \/ NasRepaired(b) PROVE TypeOK'
    <2>1. CASE LocalDamaged(b)
      BY <2>1 DEF LocalDamaged
    <2>2. CASE NasRepaired(b)
      BY <2>2 DEF NasRepaired
    <2> QED
      BY <1>10, <2>1, <2>2
  <1>8. ASSUME NEW S \in SUBSET Ops, RetryArchives(S) PROVE TypeOK'
    BY <1>8 DEF RetryArchives
  <1>9. CASE UNCHANGED vars
    BY <1>9 DEF vars
  <1> QED
    BY <1>1, <1>2, <1>3, <1>4, <1>5, <1>6, <1>7, <1>8, <1>9, <1>10
       DEF Next, Archiving, Drain

\* A blob on the share stays there, whatever the drainers do.
LEMMA ShareOnlyGrows ==
  ASSUME TypeOK, [Next]_vars, NEW b \in Blobs, nas[b] = "good"
  PROVE  nas'[b] = "good"
  <1>1. ASSUME NEW d \in Drainers, NEW p \in Ops, CopyFile(d, p) PROVE nas'[b] = "good"
    BY <1>1 DEF CopyFile, TypeOK
  <1>2. ASSUME NEW c \in Blobs, NasRepaired(c) PROVE nas'[b] = "good"
    BY <1>2 DEF NasRepaired, TypeOK
  <1> QED
    BY <1>1, <1>2
       DEF Next, Archiving, Drain, Recover, Claim, IoError, Defect, RouteRefused, CheckLocal, VerifyCopy,
           Record, RecordRefused, DrainerDies, Enqueue, LocalDamaged, LeaseExpires,
           RetryArchives, vars

LEMMA ArchiveReceiptStep == ArchiveInv /\ [Next]_vars => ReceiptIsOnShare'
  <1> SUFFICES ASSUME ArchiveInv, [Next]_vars PROVE ReceiptIsOnShare'
    OBVIOUS
  <1> DEFINE Claims(d, o) ==
                Works(d, o) /\ (copied[d] = "good" \/ result[d] = "SUCCEEDED")
  <1>0. \A o \in Ops : Blob[o] \in Blobs
    BY ArchiveAssumption DEF ArchiveAssumption
  <1> SUFFICES ASSUME NEW d \in Drainers, NEW o \in Ops, Claims(d, o)'
               PROVE  nas'[Blob[o]] = "good"
    BY DEF ReceiptIsOnShare
  <1>1. CASE Claims(d, o)
    BY <1>0, <1>1, ShareOnlyGrows DEF ArchiveInv, ReceiptIsOnShare
  <1>2. CASE ~Claims(d, o)
    <2> USE <1>2 DEF ArchiveInv, TypeOK, Works
    <2>1. ASSUME NEW e \in Drainers, Claim(e) PROVE FALSE
      BY <2>1 DEF Claim
    <2>2. ASSUME NEW e \in Drainers, NEW p \in Ops, Record(e, p) PROVE FALSE
      BY <2>2 DEF Record
    <2>3. ASSUME NEW e \in Drainers, Drops(e) PROVE FALSE
      BY <2>3 DEF Drops
    <2>4. ASSUME NEW e \in Drainers, NEW p \in Ops, CopyFile(e, p)
          PROVE  nas'[Blob[o]] = "good"
      <3>1. CASE e = d
        <4>1. o = p
          BY <2>4, <3>1, WorksOnOne DEF CopyFile, Settles, GoesOn
        <4> QED
          BY <1>0, <2>4, <3>1, <4>1 DEF CopyFile, Settles, GoesOn
      <3>2. CASE e # d
        BY <2>4, <3>2 DEF CopyFile, Settles, GoesOn
      <3> QED
        BY <3>1, <3>2
    <2>5. ASSUME NEW e \in Drainers, NEW p \in Ops,
                 \/ VerifyCopy(e, p) \/ IoError(e, p) \/ Defect(e, p) \/ RouteRefused(e, p)
                 \/ CheckLocal(e, p)
          PROVE  FALSE
      BY <2>5 DEF VerifyCopy, IoError, Defect, IoResult, RouteRefused, CheckLocal, Settles, GoesOn
    <2>6. UNCHANGED <<todo, copied, result>> => FALSE
      OBVIOUS
    <2> QED
      BY <2>1, <2>2, <2>3, <2>4, <2>5, <2>6
         DEF Next, Archiving, Drain, Recover, RecordRefused, DrainerDies, Enqueue, LocalDamaged,
             NasRepaired, LeaseExpires, RetryArchives, vars, drainer
  <1> QED
    BY <1>1, <1>2

\* The actions that append to the history of an operation.
LEMMA HistorySteps ==
  ASSUME TypeOK, [Next]_vars, NEW o \in Ops, opState'[o] # opState[o]
  PROVE  \/ opState[o] \in {"NONE", "FAILED", "BLOCKED", "EXECUTING", "PENDING", "RETRY"}
               /\ opState'[o] \in {"PENDING", "RETRY", "EXECUTING"}
         \/ \E d \in Drainers : Record(d, o)
  <1> USE DEF TypeOK
  <1>1. ASSUME NEW d \in Drainers, Recover(d) \/ Claim(d)
        PROVE  /\ opState[o] \in {"EXECUTING", "PENDING", "RETRY"}
               /\ opState'[o] \in {"RETRY", "EXECUTING"}
    <2>1. CASE Recover(d)
      <3>1. o \in Stale /\ opState'[o] = "RETRY"
        BY <2>1 DEF Recover
      <3> QED
        BY <3>1 DEF Stale
    <2>2. CASE Claim(d)
      <3>1. o \in Batch /\ opState'[o] = "EXECUTING"
        BY <2>2 DEF Claim
      <3> QED
        BY <3>1 DEF Batch, Claimable
    <2> QED
      BY <1>1, <2>1, <2>2
  <1>2. ASSUME NEW d \in Drainers, NEW p \in Ops, Record(d, p) PROVE Record(d, o)
    BY <1>2 DEF Record
  <1>3. ASSUME NEW p \in Ops, Enqueue(p)
        PROVE  opState[o] = "NONE" /\ opState'[o] = "PENDING"
    BY <1>3 DEF Enqueue
  <1>4. ASSUME NEW S \in SUBSET Ops, RetryArchives(S)
        PROVE  opState[o] \in {"FAILED", "BLOCKED"} /\ opState'[o] = "RETRY"
    BY <1>4 DEF RetryArchives
  <1> QED
    BY <1>1, <1>2, <1>3, <1>4
       DEF Next, Archiving, Drain, IoError, Defect, RouteRefused, CheckLocal, CopyFile,
           VerifyCopy, RecordRefused, Drops, Settles, GoesOn, DrainerDies, LocalDamaged, NasRepaired,
           LeaseExpires, table, vars

LEMMA ArchiveVerifiedStep == ArchiveInv /\ [Next]_vars => ArchivedIsVerified'
  <1> SUFFICES ASSUME ArchiveInv, [Next]_vars, NEW o \in Ops, opState'[o] = "SUCCEEDED"
               PROVE  nas'[Blob[o]] = "good"
    BY DEF ArchivedIsVerified
  <1>0. Blob[o] \in Blobs
    BY ArchiveAssumption DEF ArchiveAssumption
  <1>1. CASE opState[o] = "SUCCEEDED"
    BY <1>0, <1>1, ShareOnlyGrows DEF ArchiveInv, ArchivedIsVerified
  <1>2. CASE opState[o] # "SUCCEEDED"
    <2>1. PICK d \in Drainers : Record(d, o)
      BY <1>2, HistorySteps DEF ArchiveInv
    <2>2. result[d] = "SUCCEEDED" /\ Works(d, o)
      BY <2>1 DEF Record, ArchiveInv, TypeOK
    <2>3. nas[Blob[o]] = "good"
      BY <2>2 DEF ArchiveInv, ReceiptIsOnShare
    <2> QED
      BY <1>0, <2>3, ShareOnlyGrows DEF ArchiveInv
  <1> QED
    BY <1>1, <1>2

LEMMA ArchiveStep == ArchiveInv /\ [Next]_vars => ArchiveInv'
  BY ArchiveTypeStep, ArchiveReceiptStep, ArchiveVerifiedStep DEF ArchiveInv

\* ArchiveInv is an invariant of the archive.
THEOREM ArchiveInvariant == Spec => []ArchiveInv
  BY ArchiveStep, ArchiveInit, PTL DEF Spec

\* The rows and the local state of every drain keep their types; between two
\* operations of a batch a drain holds neither receipt nor result.
THEOREM ArchiveTypeOK == Spec => []TypeOK
  <1>1. ArchiveInv => TypeOK
    BY DEF ArchiveInv
  <1> QED
    BY <1>1, ArchiveInvariant, PTL

\* What ArchiveDrainer.drain records SUCCEEDED lies intact on the share.
THEOREM ArchiveVerified == Spec => []ArchivedIsVerified
  <1>1. ArchiveInv => ArchivedIsVerified
    BY DEF ArchiveInv
  <1> QED
    BY <1>1, ArchiveInvariant, PTL

\* No late result, stale requeue or archive-retry reopens an archived operation.
THEOREM ArchiveFinal == Spec => ArchivedIsFinal
  <1>1. ASSUME ArchiveInv, [Next]_vars, NEW o \in Ops, opState[o] = "SUCCEEDED"
        PROVE  opState'[o] = "SUCCEEDED"
    <2>1. ASSUME NEW d \in Drainers, Record(d, o) PROVE FALSE
      BY <1>1, <2>1 DEF Record, ArchiveTransitions, OpStates, Results
    <2> QED
      BY <1>1, <2>1, HistorySteps DEF ArchiveInv
  <1>2. ArchiveInv /\ [Next]_vars =>
          [\A o \in Ops : opState[o] = "SUCCEEDED" => opState'[o] = "SUCCEEDED"]_vars
    BY <1>1
  <1> QED
    BY <1>2, ArchiveInvariant, PTL DEF ArchivedIsFinal, Spec

-----------------------------------------------------------------------------
\* Who works on an operation: as many as were robbed of it, and one more while
\* it is EXECUTING.
Holders(o) == {d \in Drainers : o \in todo[d]}

Leases(o) == stolen[o] + (IF opState[o] = "EXECUTING" THEN 1 ELSE 0)

HoldersAreFew ==
    \A o \in Ops : IsFiniteSet(Holders(o)) /\ Cardinality(Holders(o)) <= Leases(o)

\* No more holders, no fewer leases.
LEMMA NoMoreHolders ==
  ASSUME NEW o \in Ops, IsFiniteSet(Holders(o)), Cardinality(Holders(o)) <= Leases(o),
         Holders(o)' \subseteq Holders(o), Leases(o)' >= Leases(o),
         Leases(o) \in Nat, Leases(o)' \in Nat
  PROVE  IsFiniteSet(Holders(o)') /\ Cardinality(Holders(o)') <= Leases(o)'
  <1>1. /\ IsFiniteSet(Holders(o)') /\ Cardinality(Holders(o)') <= Cardinality(Holders(o))
        /\ Cardinality(Holders(o)) \in Nat /\ Cardinality(Holders(o)') \in Nat
    BY FS_Subset, FS_CardinalityType
  <1> QED
    BY <1>1

LEMMA LeasesType ==
  ASSUME TypeOK, NEW o \in Ops
  PROVE  Leases(o) \in Nat
  BY DEF TypeOK, Leases

LEMMA HoldersStep == ArchiveInv /\ HoldersAreFew /\ [Next]_vars => HoldersAreFew'
  <1> SUFFICES ASSUME ArchiveInv, HoldersAreFew, [Next]_vars, NEW o \in Ops
               PROVE  IsFiniteSet(Holders(o)') /\ Cardinality(Holders(o)') <= Leases(o)'
    BY DEF HoldersAreFew
  <1> DEFINE Goal == IsFiniteSet(Holders(o)') /\ Cardinality(Holders(o)') <= Leases(o)'
  <1>0. /\ TypeOK /\ opState \in [Ops -> OpStates] /\ stolen \in [Ops -> Nat]
        /\ todo \in [Drainers -> SUBSET Ops] /\ Leases(o) \in Nat /\ Leases(o)' \in Nat
        /\ IsFiniteSet(Holders(o)) /\ Cardinality(Holders(o)) <= Leases(o)
        /\ Cardinality(Holders(o)) \in Nat
    <2>1. TypeOK /\ TypeOK'
      BY ArchiveStep DEF ArchiveInv
    <2>2. Leases(o) \in Nat
      BY <2>1, LeasesType
    <2>3. Leases(o)' \in Nat
      BY <2>1 DEF TypeOK, Leases
    <2> QED
      BY <2>1, <2>2, <2>3, FS_CardinalityType DEF HoldersAreFew, TypeOK
  <1>1. ASSUME NEW d \in Drainers, Recover(d) PROVE Goal
    <2>1. Holders(o)' = Holders(o)
      BY <1>1 DEF Recover, Holders
    <2>2. Leases(o)' = Leases(o)
      <3>1. CASE o \in Stale
        BY <1>0, <1>1, <3>1 DEF Recover, Leases, Stale
      <3>2. CASE o \notin Stale
        BY <1>0, <1>1, <3>2 DEF Recover, Leases
      <3> QED
        BY <3>1, <3>2
    <2> QED
      BY <1>0, <2>1, <2>2
  <1>2. ASSUME NEW d \in Drainers, Claim(d) PROVE Goal
    <2>1. todo[d] = {} /\ todo' = [todo EXCEPT ![d] = Batch] /\ stolen' = stolen
      BY <1>0, <1>2 DEF TypeOK, Claim
    <2>2. CASE o \in Batch
      <3>1. opState[o] \in {"PENDING", "RETRY"} /\ opState'[o] = "EXECUTING"
        BY <1>2, <2>2 DEF Claim, Batch, Claimable
      <3>2. Leases(o)' = Leases(o) + 1
        BY <1>0, <2>1, <3>1 DEF Leases
      <3>3. Holders(o)' = Holders(o) \cup {d} /\ d \notin Holders(o)
        BY <1>0, <2>1, <2>2 DEF Holders
      <3>4. IsFiniteSet(Holders(o)') /\ Cardinality(Holders(o)') = Cardinality(Holders(o)) + 1
        BY <1>0, <3>3, FS_AddElement
      <3> QED
        BY <1>0, <3>2, <3>4
    <2>3. CASE o \notin Batch
      <3>1. Holders(o)' = Holders(o) /\ opState'[o] = opState[o]
        BY <1>0, <1>2, <2>1, <2>3 DEF Claim, Holders
      <3> QED
        BY <1>0, <2>1, <3>1 DEF Leases
    <2> QED
      BY <2>2, <2>3
  <1>3. ASSUME NEW d \in Drainers, NEW p \in Ops, Record(d, p) PROVE Goal
    <2>1. /\ p \in todo[d] /\ result[d] \in Results \cup {"none"}
          /\ result[d] \in ArchiveTransitions[opState[p]]
          /\ opState' = [opState EXCEPT ![p] = result[d]]
          /\ todo' = [todo EXCEPT ![d] = @ \ {p}] /\ stolen' = stolen
      BY <1>0, <1>3 DEF Record, Works, TypeOK
    <2>2. CASE p = o
      <3>1. Holders(o)' = Holders(o) \ {d} /\ d \in Holders(o)
        BY <1>0, <2>1, <2>2 DEF Holders
      <3>2. IsFiniteSet(Holders(o)') /\ Cardinality(Holders(o)') = Cardinality(Holders(o)) - 1
        BY <1>0, <3>1, FS_RemoveElement
      <3>3. Leases(o)' >= Leases(o) - 1
        BY <1>0, <2>1, <2>2 DEF Leases
      <3> QED
        BY <1>0, <3>2, <3>3
    <2>3. CASE p # o
      <3>1. Holders(o)' = Holders(o) /\ opState'[o] = opState[o]
        BY <1>0, <2>1, <2>3 DEF Holders
      <3> QED
        BY <1>0, <2>1, <3>1 DEF Leases
    <2> QED
      BY <2>2, <2>3
  <1>4. ASSUME NEW d \in Drainers, DrainerDies(d) \/ \E p \in Ops : RecordRefused(d, p)
        PROVE  Goal
    <2>1. UNCHANGED <<opState, stolen>> /\ todo' = [todo EXCEPT ![d] = {}]
      BY <1>4 DEF DrainerDies, RecordRefused, Drops, table
    <2>2. Holders(o)' \subseteq Holders(o) /\ Leases(o)' = Leases(o)
      BY <1>0, <2>1 DEF Holders, Leases
    <2> QED
      BY <1>0, <2>2, NoMoreHolders
  <1>5. ASSUME UNCHANGED <<todo, stolen>>,
               opState'[o] = "EXECUTING" <=> opState[o] = "EXECUTING"
        PROVE  Goal
    <2>1. Holders(o)' = Holders(o) /\ Leases(o)' = Leases(o)
      BY <1>5 DEF Holders, Leases
    <2> QED
      BY <1>0, <2>1
  <1>6. ASSUME NEW d \in Drainers, NEW p \in Ops,
               \/ IoError(d, p) \/ Defect(d, p) \/ RouteRefused(d, p) \/ CheckLocal(d, p)
               \/ CopyFile(d, p) \/ VerifyCopy(d, p)
        PROVE  UNCHANGED <<opState, todo, stolen>>
    BY <1>6 DEF IoError, Defect, RouteRefused, CheckLocal, CopyFile, VerifyCopy, Settles, GoesOn, table
  <1>7. ASSUME NEW p \in Ops, Enqueue(p)
        PROVE  UNCHANGED <<todo, stolen>> /\ (opState'[o] = "EXECUTING" <=> opState[o] = "EXECUTING")
    BY <1>0, <1>7 DEF Enqueue, drainer
  <1>8. ASSUME NEW S \in SUBSET Ops, RetryArchives(S)
        PROVE  UNCHANGED <<todo, stolen>> /\ (opState'[o] = "EXECUTING" <=> opState[o] = "EXECUTING")
    BY <1>0, <1>8 DEF RetryArchives, drainer
  <1>9. ASSUME \/ \E p \in Ops : LeaseExpires(p)
               \/ \E b \in Blobs : LocalDamaged(b) \/ NasRepaired(b)
               \/ UNCHANGED vars
        PROVE  UNCHANGED <<opState, todo, stolen>>
    BY <1>9 DEF LeaseExpires, LocalDamaged, NasRepaired, vars, table, drainer
  <1> QED
    BY <1>1, <1>2, <1>3, <1>4, <1>5, <1>6, <1>7, <1>8, <1>9 DEF Next, Archiving, Drain

\* claim_archive_operations and reconcile_archives: two drainers are at work on
\* one operation only where a claim expired in between.
THEOREM ArchiveLeases == Spec => []LeaseConcurrency
  <1>1. Init => HoldersAreFew
    <2> SUFFICES ASSUME Init, NEW o \in Ops
                 PROVE  IsFiniteSet(Holders(o)) /\ Cardinality(Holders(o)) <= Leases(o)
      BY DEF HoldersAreFew
    <2>1. Holders(o) = {} /\ Leases(o) = 0
      BY DEF Init, NothingQueued, Holders, Leases
    <2> QED
      BY <2>1, FS_EmptySet
  <1>2. ArchiveInv /\ HoldersAreFew => LeaseConcurrency
    <2> SUFFICES ASSUME ArchiveInv, HoldersAreFew, NEW o \in Ops
                 PROVE  Cardinality({d \in Drainers : o \in todo[d]}) <= 1 + stolen[o]
      BY DEF LeaseConcurrency
    <2>1. /\ Cardinality(Holders(o)) <= Leases(o) /\ Cardinality(Holders(o)) \in Nat
          /\ Leases(o) \in Nat /\ Leases(o) <= 1 + stolen[o] /\ stolen[o] \in Nat
      BY FS_CardinalityType DEF ArchiveInv, TypeOK, HoldersAreFew, Leases
    <2> QED
      BY <2>1 DEF Holders
  <1> QED
    BY <1>1, <1>2, HoldersStep, ArchiveInvariant, PTL DEF Spec

-----------------------------------------------------------------------------
\* The attempt numbers below max_attempts that may still come back as RETRY:
\* those no claim has used, and those of the drainers at work.
Chances(o) ==
    {n \in 1..(MaxAttempts - 1) :
        n > claims[o] \/ \E d \in Drainers : o \in todo[d] /\ attemptNo[d][o] = n}

\* The claim an operation may have without a further RETRY.
ClaimDue(o) == IF opState[o] \in {"NONE", "PENDING", "RETRY"} THEN 1 ELSE 0

\* Every claim has a number of its own, and RETRY needs one below max_attempts.
NumbersAreOwn ==
    \A o \in Ops, d \in Drainers :
        o \in todo[d] =>
            /\ attemptNo[d][o] \in 1..claims[o]
            /\ \A e \in Drainers :
                  e # d /\ o \in todo[e] => attemptNo[e][o] # attemptNo[d][o]
            /\ Works(d, o) /\ result[d] = "RETRY" => attemptNo[d][o] < MaxAttempts

BudgetKept ==
    \A o \in Ops :
        claims[o] + ClaimDue(o) + Cardinality(Chances(o)) <= MaxAttempts + stolen[o] + manual

BudgetInv == ArchiveInv /\ NumbersAreOwn /\ BudgetKept

LEMMA ChancesFinite ==
  ASSUME NEW o \in Ops
  PROVE  IsFiniteSet(Chances(o)) /\ Cardinality(Chances(o)) \in Nat
  <1>1. IsFiniteSet(1..(MaxAttempts - 1))
    BY ArchiveAssumption, FS_Interval DEF ArchiveAssumption
  <1>2. Chances(o) \subseteq 1..(MaxAttempts - 1)
    BY DEF Chances
  <1> QED
    BY <1>1, <1>2, FS_Subset, FS_CardinalityType

\* No more chances, and what is due is paid for.
LEMMA NoMoreChances ==
  ASSUME BudgetInv, NEW o \in Ops, Chances(o)' \subseteq Chances(o),
         claims'[o] = claims[o], TypeOK',
         ClaimDue(o)' - ClaimDue(o) <= (stolen'[o] - stolen[o]) + (manual' - manual)
  PROVE  claims'[o] + ClaimDue(o)' + Cardinality(Chances(o)') <= MaxAttempts + stolen'[o] + manual'
  <1>1. /\ Cardinality(Chances(o)') <= Cardinality(Chances(o))
        /\ Cardinality(Chances(o)) \in Nat /\ Cardinality(Chances(o)') \in Nat
    BY ChancesFinite, FS_Subset, FS_CardinalityType
  <1>2. /\ ClaimDue(o) \in Nat /\ ClaimDue(o)' \in Nat /\ claims[o] \in Nat
        /\ stolen[o] \in Nat /\ stolen'[o] \in Nat /\ manual \in Nat /\ manual' \in Nat
        /\ MaxAttempts \in Nat
    BY ArchiveAssumption DEF ArchiveAssumption, BudgetInv, ArchiveInv, TypeOK, ClaimDue
  <1>3. claims[o] + ClaimDue(o) + Cardinality(Chances(o)) <= MaxAttempts + stolen[o] + manual
    BY DEF BudgetInv, BudgetKept
  <1> QED
    BY <1>1, <1>2, <1>3

LEMMA NumbersStep == ArchiveInv /\ NumbersAreOwn /\ [Next]_vars => NumbersAreOwn'
  <1> SUFFICES ASSUME ArchiveInv, NumbersAreOwn, [Next]_vars, NEW o \in Ops,
                      NEW d \in Drainers, o \in todo'[d]
               PROVE  /\ attemptNo'[d][o] \in 1..claims'[o]
                      /\ \A e \in Drainers :
                            e # d /\ o \in todo'[e] => attemptNo'[e][o] # attemptNo'[d][o]
                      /\ Works(d, o)' /\ result'[d] = "RETRY" => attemptNo'[d][o] < MaxAttempts
    BY DEF NumbersAreOwn
  <1> DEFINE Goal ==
        /\ attemptNo'[d][o] \in 1..claims'[o]
        /\ \A e \in Drainers :
              e # d /\ o \in todo'[e] => attemptNo'[e][o] # attemptNo'[d][o]
        /\ Works(d, o)' /\ result'[d] = "RETRY" => attemptNo'[d][o] < MaxAttempts
  <1>0. /\ TypeOK /\ claims \in [Ops -> Nat] /\ todo \in [Drainers -> SUBSET Ops]
        /\ attemptNo \in [Drainers -> [Ops -> Nat]]
        /\ result \in [Drainers -> Results \cup {"none"}]
        /\ pc \in [Drainers -> {"off", "claim", "check", "copy", "verify", "record"}]
    BY DEF ArchiveInv, TypeOK
  \* Nobody else's claim, number or result changes.
  <1>1. ASSUME UNCHANGED claims, todo'[d] = todo[d], result'[d] \in {result[d], "none"},
               attemptNo'[d][o] = attemptNo[d][o],
               \A e \in Drainers : o \in todo'[e] =>
                    o \in todo[e] /\ attemptNo'[e][o] = attemptNo[e][o]
        PROVE  Goal
    BY <1>1 DEF NumbersAreOwn, Works
  <1>2. ASSUME NEW e \in Drainers, Claim(e) PROVE Goal
    <2>1. /\ todo' = [todo EXCEPT ![e] = Batch] /\ result' = result
          /\ claims' = [p \in Ops |-> IF p \in Batch THEN claims[p] + 1 ELSE claims[p]]
          /\ attemptNo' = [attemptNo EXCEPT ![e] =
                             [p \in Ops |-> IF p \in Batch THEN claims[p] + 1 ELSE 0]]
          /\ result[e] = "none" /\ todo[e] = {}
      BY <1>2 DEF Claim, ArchiveInv, TypeOK
    <2>2. \A q \in Drainers \ {e} : o \in todo'[q] =>
             /\ o \in todo[q] /\ attemptNo'[q][o] = attemptNo[q][o]
             /\ attemptNo[q][o] \in 1..claims[o]
      BY <1>0, <2>1 DEF NumbersAreOwn
    <2>3. o \in todo'[e] => o \in Batch /\ attemptNo'[e][o] = claims[o] + 1
      BY <1>0, <2>1
    <2>4. claims[o] \in Nat /\ claims'[o] = (IF o \in Batch THEN claims[o] + 1 ELSE claims[o])
      BY <1>0, <2>1
    <2>5. CASE d = e
      BY <1>0, <2>1, <2>2, <2>3, <2>4, <2>5
    <2>6. CASE d # e
      <3>1. /\ todo'[d] = todo[d] /\ result'[d] = result[d]
            /\ attemptNo'[d][o] = attemptNo[d][o] /\ attemptNo[d][o] \in 1..claims[o]
        BY <1>0, <2>1, <2>2, <2>6
      <3>2. Works(d, o)' /\ result'[d] = "RETRY" => attemptNo'[d][o] < MaxAttempts
        BY <3>1 DEF NumbersAreOwn, Works
      <3>3. attemptNo'[d][o] \in 1..claims'[o]
        BY <2>4, <3>1
      <3>4. ASSUME NEW q \in Drainers, q # d, o \in todo'[q]
            PROVE  attemptNo'[q][o] # attemptNo'[d][o]
        <4>1. CASE q = e
          BY <2>3, <2>4, <3>1, <3>4, <4>1
        <4>2. CASE q # e
          BY <2>2, <3>1, <3>4, <4>2 DEF NumbersAreOwn
        <4> QED
          BY <4>1, <4>2
      <3> QED
        BY <3>2, <3>3, <3>4
    <2> QED
      BY <2>5, <2>6
  <1>3. ASSUME NEW e \in Drainers, NEW p \in Ops, Record(e, p) PROVE Goal
    <2>1. /\ todo' = [todo EXCEPT ![e] = @ \ {p}] /\ UNCHANGED claims
          /\ attemptNo' = [attemptNo EXCEPT ![e][p] = 0]
          /\ result' = [result EXCEPT ![e] = "none"]
      BY <1>3 DEF Record
    <2>2. \A q \in Drainers : o \in todo'[q] =>
             o \in todo[q] /\ attemptNo'[q][o] = attemptNo[q][o]
      BY <1>0, <2>1
    <2>3. result'[d] = "none" \/ (todo'[d] = todo[d] /\ result'[d] = result[d])
      BY <1>0, <2>1
    <2> QED
      BY <2>1, <2>2, <2>3 DEF NumbersAreOwn, Works
  <1>4. ASSUME NEW e \in Drainers, Drops(e), UNCHANGED claims PROVE Goal
    <2>1. d # e /\ todo'[d] = todo[d] /\ result'[d] = result[d]
      BY <1>0, <1>4 DEF Drops
    <2>2. \A q \in Drainers : o \in todo'[q] =>
             o \in todo[q] /\ attemptNo'[q][o] = attemptNo[q][o]
      BY <1>0, <1>4 DEF Drops
    <2> QED
      BY <1>1, <1>4, <2>1, <2>2
  <1>5. ASSUME NEW e \in Drainers, NEW p \in Ops, Works(e, p), NEW r \in Results, Settles(e, r),
               r = "RETRY" => attemptNo[e][p] < MaxAttempts
        PROVE  Goal
    <2>1. UNCHANGED <<claims, todo, attemptNo>> /\ result' = [result EXCEPT ![e] = r]
      BY <1>5 DEF Settles, table
    <2>2. CASE d = e
      <3>1. Works(d, o)' => o = p
        BY <1>0, <1>5, <2>1, <2>2, WorksOnOne DEF Works
      <3> QED
        BY <1>0, <1>5, <2>1, <2>2, <3>1 DEF NumbersAreOwn
    <2>3. CASE d # e
      BY <1>0, <1>1, <2>1, <2>3
    <2> QED
      BY <2>2, <2>3
  <1>6. ASSUME UNCHANGED <<claims, todo, attemptNo, result>> PROVE Goal
    BY <1>1, <1>6
  <1>7. ASSUME NEW e \in Drainers, NEW p \in Ops,
               \/ IoError(e, p) \/ Defect(e, p) \/ RouteRefused(e, p) \/ CheckLocal(e, p)
               \/ CopyFile(e, p) \/ VerifyCopy(e, p)
        PROVE  Goal
    <2>1. CASE IoError(e, p)
      <3>1. Works(e, p) /\ Settles(e, IoResult(e, p)) /\ IoResult(e, p) \in Results
        BY <2>1 DEF IoError, IoResult, Results
      <3>2. IoResult(e, p) = "RETRY" => attemptNo[e][p] < MaxAttempts
        BY DEF IoResult
      <3> QED
        BY <1>5, <3>1, <3>2
    <2>2. ASSUME GoesOn(e, "copy") \/ GoesOn(e, "verify") PROVE Goal
      BY <1>6, <2>2 DEF GoesOn, table
    <2>3. ASSUME NEW r \in {"BLOCKED", "FAILED", "SUCCEEDED"}, Works(e, p), Settles(e, r)
          PROVE  Goal
      BY <1>5, <2>3 DEF Results
    <2> QED
      BY <1>7, <2>1, <2>2, <2>3 DEF Defect, RouteRefused, CheckLocal, CopyFile, VerifyCopy
  <1>8. ASSUME NEW e \in Drainers, DrainerDies(e) \/ \E p \in Ops : RecordRefused(e, p)
        PROVE  Goal
    BY <1>4, <1>8 DEF DrainerDies, RecordRefused, table
  <1>9. ASSUME \/ \E p \in Ops : LeaseExpires(p) \/ Enqueue(p)
               \/ \E b \in Blobs : LocalDamaged(b) \/ NasRepaired(b)
               \/ \E e \in Drainers : Recover(e)
               \/ \E S \in SUBSET Ops : RetryArchives(S)
               \/ UNCHANGED vars
        PROVE  Goal
    BY <1>6, <1>9
       DEF LeaseExpires, Enqueue, LocalDamaged, NasRepaired, Recover, RetryArchives, vars,
           table, drainer
  <1> QED
    BY <1>2, <1>3, <1>7, <1>8, <1>9 DEF Next, Archiving, Drain

LEMMA BudgetStep == BudgetInv /\ [Next]_vars => BudgetKept'
  <1> SUFFICES ASSUME BudgetInv, [Next]_vars, NEW o \in Ops
               PROVE  claims'[o] + ClaimDue(o)' + Cardinality(Chances(o)')
                         <= MaxAttempts + stolen'[o] + manual'
    BY DEF BudgetKept
  <1> DEFINE Goal == claims'[o] + ClaimDue(o)' + Cardinality(Chances(o)')
                        <= MaxAttempts + stolen'[o] + manual'
  <1>0. /\ TypeOK /\ TypeOK' /\ claims \in [Ops -> Nat] /\ todo \in [Drainers -> SUBSET Ops]
        /\ attemptNo \in [Drainers -> [Ops -> Nat]] /\ opState \in [Ops -> OpStates]
        /\ stolen \in [Ops -> Nat] /\ manual \in Nat /\ MaxAttempts \in Nat
        /\ ClaimDue(o) \in Nat /\ Cardinality(Chances(o)) \in Nat
        /\ claims[o] + ClaimDue(o) + Cardinality(Chances(o)) <= MaxAttempts + stolen[o] + manual
    <2>1. TypeOK /\ TypeOK'
      BY ArchiveStep DEF BudgetInv, ArchiveInv
    <2> QED
      BY <2>1, ChancesFinite, ArchiveAssumption
         DEF TypeOK, ArchiveAssumption, ClaimDue, BudgetInv, BudgetKept
  <1>1. ASSUME UNCHANGED claims,
               \A e \in Drainers : o \in todo'[e] =>
                    o \in todo[e] /\ attemptNo'[e][o] = attemptNo[e][o]
        PROVE  Chances(o)' \subseteq Chances(o)
    BY <1>1 DEF Chances
  <1>2. ASSUME NEW e \in Drainers, Claim(e) PROVE Goal
    <2>1. /\ todo' = [todo EXCEPT ![e] = Batch] /\ UNCHANGED <<stolen, manual>>
          /\ claims' = [p \in Ops |-> IF p \in Batch THEN claims[p] + 1 ELSE claims[p]]
          /\ opState' = [p \in Ops |-> IF p \in Batch THEN "EXECUTING" ELSE opState[p]]
          /\ attemptNo' = [attemptNo EXCEPT ![e] =
                             [p \in Ops |-> IF p \in Batch THEN claims[p] + 1 ELSE 0]]
      BY <1>2 DEF Claim, counters
    <2>2. \A q \in Drainers \ {e} : todo'[q] = todo[q] /\ attemptNo'[q] = attemptNo[q]
      BY <1>0, <2>1
    <2>3. o \in todo'[e] => o \in Batch /\ attemptNo'[e][o] = claims[o] + 1
      BY <1>0, <2>1
    <2>4. claims[o] \in Nat /\ claims'[o] = (IF o \in Batch THEN claims[o] + 1 ELSE claims[o])
      BY <1>0, <2>1
    <2>5. Chances(o)' \subseteq Chances(o)
      <3> SUFFICES ASSUME NEW n \in 1..(MaxAttempts - 1),
                          n > claims'[o] \/ \E q \in Drainers :
                                               o \in todo'[q] /\ attemptNo'[q][o] = n
                   PROVE  n > claims[o] \/ \E q \in Drainers :
                                               o \in todo[q] /\ attemptNo[q][o] = n
        BY DEF Chances
      <3>1. CASE n > claims'[o]
        BY <2>4, <3>1
      <3>2. ASSUME NEW q \in Drainers, o \in todo'[q], attemptNo'[q][o] = n
            PROVE  n > claims[o] \/ \E w \in Drainers : o \in todo[w] /\ attemptNo[w][o] = n
        <4>1. CASE q = e
          BY <2>3, <2>4, <3>2, <4>1
        <4>2. CASE q # e
          BY <2>2, <3>2, <4>2
        <4> QED
          BY <4>1, <4>2
      <3> QED
        BY <3>1, <3>2
    <2>6. CASE o \in Batch
      <3>1. ClaimDue(o) = 1 /\ ClaimDue(o)' = 0
        BY <2>1, <2>6 DEF ClaimDue, Batch, Claimable
      <3>2. Cardinality(Chances(o)') <= Cardinality(Chances(o)) /\ Cardinality(Chances(o)') \in Nat
        BY <2>5, ChancesFinite, FS_Subset, FS_CardinalityType
      <3> QED
        BY <1>0, <2>1, <2>4, <2>6, <3>1, <3>2
    <2>7. CASE o \notin Batch
      <3>1. ClaimDue(o)' = ClaimDue(o)
        BY <1>0, <2>1, <2>7 DEF ClaimDue
      <3> QED
        BY <1>0, <2>1, <2>4, <2>5, <2>7, <3>1, NoMoreChances
    <2> QED
      BY <2>6, <2>7
  <1>3. ASSUME NEW e \in Drainers, Record(e, o) PROVE Goal
    <2>1. /\ o \in todo[e] /\ pc[e] = "record" /\ Works(e, o) /\ result[e] \in Results
          /\ result[e] \in ArchiveTransitions[opState[o]]
          /\ opState' = [opState EXCEPT ![o] = result[e]]
          /\ todo' = [todo EXCEPT ![e] = @ \ {o}]
          /\ attemptNo' = [attemptNo EXCEPT ![e][o] = 0]
          /\ UNCHANGED <<claims, stolen, manual>>
      BY <1>0, <1>3 DEF Record, Works, TypeOK, counters
    <2>2. opState[o] \in {"EXECUTING", "FAILED", "BLOCKED"}
      BY <1>0, <2>1 DEF ArchiveTransitions, OpStates, Results
    <2>3. \A q \in Drainers : o \in todo'[q] =>
             q # e /\ o \in todo[q] /\ attemptNo'[q][o] = attemptNo[q][o]
      BY <1>0, <2>1
    <2>4. Chances(o)' \subseteq Chances(o)
      BY <1>1, <2>1, <2>3
    <2>5. CASE result[e] = "RETRY"
      <3> DEFINE n == attemptNo[e][o]
      <3>1. n \in 1..claims[o] /\ n < MaxAttempts
        BY <2>1, <2>5 DEF BudgetInv, NumbersAreOwn
      <3>2. n \in Chances(o)
        BY <1>0, <2>1, <3>1 DEF Chances
      <3>3. n \notin Chances(o)'
        <4>1. ~(n > claims'[o])
          BY <1>0, <2>1, <3>1
        <4>2. \A q \in Drainers : o \in todo'[q] => attemptNo'[q][o] # n
          BY <2>1, <2>3 DEF BudgetInv, NumbersAreOwn
        <4> QED
          BY <4>1, <4>2 DEF Chances
      <3>4. /\ IsFiniteSet(Chances(o) \ {n})
            /\ Cardinality(Chances(o) \ {n}) = Cardinality(Chances(o)) - 1
        BY <3>2, ChancesFinite, FS_RemoveElement
      <3>5. /\ Cardinality(Chances(o)') <= Cardinality(Chances(o)) - 1
            /\ Cardinality(Chances(o)') \in Nat
        BY <2>4, <3>3, <3>4, FS_Subset, FS_CardinalityType
      <3>6. ClaimDue(o) = 0 /\ ClaimDue(o)' = 1
        BY <1>0, <2>1, <2>2, <2>5 DEF ClaimDue
      <3> QED
        BY <1>0, <2>1, <3>5, <3>6
    <2>6. CASE result[e] # "RETRY"
      <3>1. ClaimDue(o) = 0 /\ ClaimDue(o)' = 0
        BY <1>0, <2>1, <2>2, <2>6 DEF ClaimDue, Results
      <3> QED
        BY <1>0, <2>1, <2>4, <3>1, NoMoreChances
    <2> QED
      BY <2>5, <2>6
  <1>4. ASSUME NEW e \in Drainers, NEW p \in Ops, p # o, Record(e, p) PROVE Goal
    <2>1. /\ opState'[o] = opState[o] /\ UNCHANGED <<claims, stolen, manual>>
          /\ \A q \in Drainers : o \in todo'[q] =>
                o \in todo[q] /\ attemptNo'[q][o] = attemptNo[q][o]
      BY <1>0, <1>4 DEF Record, counters
    <2>2. ClaimDue(o)' = ClaimDue(o)
      BY <2>1 DEF ClaimDue
    <2> QED
      BY <1>0, <1>1, <2>1, <2>2, NoMoreChances
  <1>5. ASSUME NEW e \in Drainers, DrainerDies(e) \/ \E p \in Ops : RecordRefused(e, p)
        PROVE  Goal
    <2>1. Drops(e) /\ UNCHANGED <<opState, claims, stolen, manual>>
      BY <1>5 DEF DrainerDies, RecordRefused, table, counters
    <2>2. \A q \in Drainers : o \in todo'[q] =>
             o \in todo[q] /\ attemptNo'[q][o] = attemptNo[q][o]
      BY <1>0, <2>1 DEF Drops
    <2>3. ClaimDue(o)' = ClaimDue(o)
      BY <2>1 DEF ClaimDue
    <2> QED
      BY <1>0, <1>1, <2>1, <2>2, <2>3, NoMoreChances
  <1>6. ASSUME UNCHANGED <<claims, todo, attemptNo>>,
               ClaimDue(o)' - ClaimDue(o) <= (stolen'[o] - stolen[o]) + (manual' - manual)
        PROVE  Goal
    BY <1>0, <1>1, <1>6, NoMoreChances
  <1>7. ASSUME NEW e \in Drainers, Recover(e) PROVE Goal
    <2>1. UNCHANGED <<claims, todo, attemptNo, manual>>
      BY <1>7 DEF Recover, counters
    <2>2. ClaimDue(o)' - ClaimDue(o) <= (stolen'[o] - stolen[o]) + (manual' - manual)
      <3>1. CASE o \in Stale
        <4>1. stolen'[o] = stolen[o] + 1 /\ ClaimDue(o)' \in {0, 1} /\ ClaimDue(o) \in {0, 1}
          BY <1>0, <1>7, <3>1 DEF Recover, ClaimDue
        <4> QED
          BY <1>0, <2>1, <4>1
      <3>2. CASE o \notin Stale
        <4>1. stolen'[o] = stolen[o] /\ opState'[o] = opState[o]
          BY <1>0, <1>7, <3>2 DEF Recover
        <4>2. ClaimDue(o)' = ClaimDue(o)
          BY <4>1 DEF ClaimDue
        <4> QED
          BY <1>0, <2>1, <4>1, <4>2
      <3> QED
        BY <3>1, <3>2
    <2> QED
      BY <1>0, <1>6, <2>1, <2>2
  <1>8. ASSUME NEW S \in SUBSET Ops, RetryArchives(S) PROVE Goal
    <2>1. /\ UNCHANGED <<claims, todo, attemptNo, stolen>> /\ manual' = manual + 1
          /\ ClaimDue(o)' \in {0, 1} /\ ClaimDue(o) \in {0, 1}
      BY <1>8 DEF RetryArchives, drainer, ClaimDue
    <2> QED
      BY <1>0, <1>6, <2>1
  <1>9. ASSUME NEW p \in Ops, Enqueue(p) PROVE Goal
    <2>1. UNCHANGED <<claims, todo, attemptNo, stolen, manual>>
      BY <1>9 DEF Enqueue, drainer, counters
    <2>2. ClaimDue(o)' = ClaimDue(o)
      BY <1>0, <1>9 DEF Enqueue, ClaimDue
    <2> QED
      BY <1>0, <1>6, <2>1, <2>2
  <1>10. ASSUME \/ \E e \in Drainers, p \in Ops :
                      \/ IoError(e, p) \/ Defect(e, p) \/ RouteRefused(e, p) \/ CheckLocal(e, p)
                      \/ CopyFile(e, p) \/ VerifyCopy(e, p)
                \/ \E p \in Ops : LeaseExpires(p)
                \/ \E b \in Blobs : LocalDamaged(b) \/ NasRepaired(b)
                \/ UNCHANGED vars
         PROVE  Goal
    <2>1. UNCHANGED <<opState, claims, todo, attemptNo, stolen, manual>>
      BY <1>10
         DEF IoError, Defect, RouteRefused, CheckLocal, CopyFile, VerifyCopy, Settles, GoesOn,
             LeaseExpires, LocalDamaged, NasRepaired, vars, table, drainer, counters
    <2>2. ClaimDue(o)' = ClaimDue(o)
      BY <2>1 DEF ClaimDue
    <2> QED
      BY <1>0, <1>6, <2>1, <2>2
  <1> QED
    BY <1>2, <1>3, <1>4, <1>5, <1>7, <1>8, <1>9, <1>10 DEF Next, Archiving, Drain

\* max_attempts of a route: only stale requeues and archive-retry commands buy
\* an operation further copies, however the drainers race each other.
THEOREM ArchiveBudget == Spec => []ArchiveAttemptBudget
  <1>1. Init => BudgetInv
    <2> SUFFICES ASSUME Init PROVE NumbersAreOwn /\ BudgetKept
      BY ArchiveInit DEF BudgetInv
    <2>1. NumbersAreOwn
      BY DEF Init, NothingQueued, NumbersAreOwn
    <2>2. ASSUME NEW o \in Ops
          PROVE  claims[o] + ClaimDue(o) + Cardinality(Chances(o)) <= MaxAttempts + stolen[o] + manual
      <3>1. claims[o] = 0 /\ stolen[o] = 0 /\ manual = 0 /\ ClaimDue(o) = 1
        BY DEF Init, NothingQueued, ClaimDue
      <3>2. 1..(MaxAttempts - 1) = Chances(o)
        BY <3>1, ArchiveAssumption DEF Chances, ArchiveAssumption
      <3>3. Cardinality(1..(MaxAttempts - 1)) = MaxAttempts - 1
        BY ArchiveAssumption, FS_Interval DEF ArchiveAssumption
      <3> QED
        BY <3>1, <3>2, <3>3, ArchiveAssumption DEF ArchiveAssumption
    <2> QED
      BY <2>1, <2>2 DEF BudgetKept
  <1>2. BudgetInv /\ [Next]_vars => BudgetInv'
    BY ArchiveStep, NumbersStep, BudgetStep DEF BudgetInv
  <1>3. BudgetInv => ArchiveAttemptBudget
    <2> SUFFICES ASSUME BudgetInv, NEW o \in Ops
                 PROVE  claims[o] <= MaxAttempts + stolen[o] + manual
      BY DEF ArchiveAttemptBudget
    <2>1. claims[o] + ClaimDue(o) + Cardinality(Chances(o)) <= MaxAttempts + stolen[o] + manual
      BY DEF BudgetInv, BudgetKept
    <2>2. /\ claims[o] \in Nat /\ stolen[o] \in Nat /\ manual \in Nat /\ MaxAttempts \in Nat
          /\ ClaimDue(o) \in Nat /\ Cardinality(Chances(o)) \in Nat
      BY ChancesFinite, ArchiveAssumption
         DEF ArchiveAssumption, BudgetInv, ArchiveInv, TypeOK, ClaimDue
    <2> QED
      BY <2>1, <2>2
  <1> QED
    BY <1>1, <1>2, <1>3, PTL DEF Spec

-----------------------------------------------------------------------------
(* Publication.                                                            *)

LEMMA FirstIsLeast ==
  ASSUME NEW S \in SUBSET Artifacts, S # {}
  PROVE  First(S) \in S /\ \A m \in S : First(S) <= m
  <1>0. S \subseteq Nat
    BY PublicationAssumption
  <1>1. PICK n \in S : \A m \in S : ~ (<<m, n>> \in OpToRel(<, Nat))
    BY <1>0, NatLessThanWellFounded, WFMin
  <1>2. \A m \in S : ~ (m < n)
    BY <1>0, <1>1 DEF OpToRel
  <1>3. n \in S /\ \A m \in S : n <= m
    BY <1>0, <1>2
  <1> QED
    BY <1>3 DEF First

\* What is at the address of an artifact stays there.
PlacedStays == \A b \in Blobs : local[b] # "absent" => local'[b] # "absent"

\* The publisher has done what comes before the step it is at.
HandIsReady ==
    /\ at \in {"seal", "note", "row", "intend"} => local[Content[hand]] # "absent"
    /\ at \in {"row", "intend"} => hand \in notes
    /\ at = "intend" => hand \in rows /\ hand \in Ops
    /\ at = "seal" =>
        Content[hand] \in writable /\ \A n \in rows : Content[n] # Content[hand]

\* The archive works on nothing that was not published.
QueuedIsPlaced ==
    \A o \in Ops :
        opState[o] # "NONE" \/ (\E d \in Drainers : o \in todo[d]) => local[Blob[o]] # "absent"

\* An intent that has to be there by now.
Due(r, o) ==
    /\ o \in Of[r]
    /\ \/ ended[r] = "verdict"
       \/ r = run /\ at # "idle" /\ ~failing /\ (o < hand \/ at = "verdict")

\* A verdict comes after the intents of all its artifacts.
VerdictHasIntents ==
    \A r \in Runs, o \in Ops : Due(r, o) => opState[o] # "NONE"

\* Blobs in place that nobody is about to make read-only.
Forgotten == writable \ (IF at = "seal" THEN {Content[hand]} ELSE {})

ForgottenIsPaid == IsFiniteSet(writable) /\ Cardinality(Forgotten) <= faults

PublicationInv ==
    /\ PublicationTypeOK /\ ArchiveInv
    /\ HandIsReady /\ RowsAreBacked /\ QueuedIsPlaced
    /\ VerdictHasIntents /\ ForgottenIsPaid

LEMMA HandTyped ==
  ASSUME PublicationTypeOK, at # "idle"
  PROVE  /\ run \in Runs /\ hand \in Artifacts /\ Content[hand] \in Blobs
         /\ Of[run] \in SUBSET Artifacts
  <1>1. run \in Runs /\ (hand = FailureRecord[run] \/ hand \in Of[run])
    BY DEF PublicationTypeOK
  <1>2. hand \in Artifacts
    BY <1>1, PublicationAssumption
  <1> QED
    BY <1>1, <1>2, PublicationAssumption

\* The variables of the archive that the proofs speak of.
LEMMA VarsFields ==
  ASSUME UNCHANGED vars
  PROVE  UNCHANGED <<opState, claims, expired, local, nas, pc, todo, attemptNo, copied, result,
                     stolen, slow, manual, crashes>>
  BY DEF vars, table, drainer, counters

LEMMA ArchiveFields ==
  ASSUME UNCHANGED archive
  PROVE  UNCHANGED <<opState, claims, expired, nas, pc, todo, attemptNo, copied, result,
                     stolen, slow, manual, crashes>>
  BY DEF archive, table, drainer, counters

\* A file placed at an empty address is nothing to the archive.
LEMMA PlaceIsLocal ==
  ASSUME PublicationTypeOK, Place
  PROVE  /\ UNCHANGED archive
         /\ \/ local' = local
            \/ local[Content[hand]] = "absent" /\ local' = [local EXCEPT ![Content[hand]] = "good"]
  <1>1. local[Content[hand]] \in {"absent", "good", "bad"}
    BY HandTyped DEF PublicationTypeOK, TypeOK, Place
  <1> QED
    BY <1>1 DEF Place

LEMMA ArchiveInvPlace ==
  ASSUME PublicationTypeOK, ArchiveInv, Place
  PROVE  ArchiveInv'
  <1>1. local' \in [Blobs -> {"absent", "good", "bad"}]
    BY PlaceIsLocal DEF PublicationTypeOK, TypeOK
  <1>2. UNCHANGED <<opState, claims, expired, nas, pc, todo, attemptNo, copied, result,
                    stolen, slow, manual, crashes>>
    BY PlaceIsLocal, ArchiveFields
  <1> QED
    BY <1>1, <1>2 DEF ArchiveInv, TypeOK, ReceiptIsOnShare, ArchivedIsVerified, Works

\* Every other step of a publisher or of the archive is one of the archive, or none.
LEMMA ArchiveSees ==
  ASSUME HandIsReady, [PublicationNext]_pvars
  PROVE  Place \/ [Next]_vars
  <1>1. CASE \E r \in Runs : Begin(r)
    BY <1>1 DEF Begin
  <1>2. CASE Publishes
    <2>1. Intend => Next
      BY DEF Intend, HandIsReady, Next
    <2> QED
      BY <1>2, <2>1 DEF Publishes, Seal, Note, AddRow, Commit, Raises
  <1>3. CASE PublisherDies \/ Archives
    BY <1>3 DEF PublisherDies, Archives, Next
  <1>4. CASE UNCHANGED pvars
    BY <1>4 DEF pvars
  <1> QED
    BY <1>1, <1>2, <1>3, <1>4 DEF PublicationNext

LEMMA ArchiveInvStep ==
  ASSUME PublicationInv, [PublicationNext]_pvars
  PROVE  ArchiveInv'
  BY ArchiveSees, ArchiveInvPlace, ArchiveStep DEF PublicationInv

-----------------------------------------------------------------------------
LEMMA FailsTyped ==
  ASSUME PublicationTypeOK, at # "idle", Fails
  PROVE  at' \in {"place", "verdict"} /\ failing' = TRUE /\ hand' = FailureRecord[run]
  BY DEF Fails

LEMMA ReturnedTyped ==
  ASSUME PublicationTypeOK, at # "idle", Returned
  PROVE  /\ at' \in {"place", "verdict"}
         /\ hand' \in IF failing THEN {FailureRecord[run]} ELSE Of[run]
  <1>1. CASE failing \/ Later = {}
    BY <1>1 DEF Returned, PublicationTypeOK
  <1>2. CASE ~ failing /\ Later # {}
    <2>1. Later \in SUBSET Artifacts /\ Later \subseteq Of[run]
      BY HandTyped DEF Later
    <2> QED
      BY <1>2, <2>1, FirstIsLeast DEF Returned
  <1> QED
    BY <1>1, <1>2

LEMMA PublicationTypeStep ==
  ASSUME PublicationInv, [PublicationNext]_pvars
  PROVE  PublicationTypeOK'
  <1>0. /\ PublicationTypeOK /\ TypeOK'
        /\ run \in Runs \cup {0} /\ at \in Stages /\ failing \in BOOLEAN
        /\ writable \subseteq Blobs /\ notes \subseteq Artifacts /\ rows \subseteq Artifacts
        /\ ended \in [Runs -> Endings] /\ faults \in 0..FaultBound /\ FaultBound \in Nat
        /\ at = "idle" => hand = 0 /\ ~failing
        /\ at # "idle" =>
              /\ run \in Runs /\ pc[Agent] = "off" /\ ended[run] = "open"
              /\ hand \in IF failing THEN {FailureRecord[run]} ELSE Of[run]
    BY ArchiveInvStep, PublicationAssumption DEF PublicationInv, PublicationTypeOK, ArchiveInv
  <1>1. ASSUME NEW r \in Runs, Begin(r) PROVE PublicationTypeOK'
    <2>1. /\ First(Of[r]) \in Of[r] /\ pc[Agent] = "off" /\ UNCHANGED <<vars, records, faults>>
      BY <1>1, FirstIsLeast, PublicationAssumption DEF Begin
    <2>2. UNCHANGED pc /\ UNCHANGED <<writable, notes, rows>>
      BY <2>1, VarsFields DEF records
    <2>3. run' = r /\ at' = "place" /\ failing' \in BOOLEAN /\ ended' = [ended EXCEPT ![r] = "open"]
          /\ hand' \in IF failing' THEN {FailureRecord[r]} ELSE Of[r]
      BY <1>1, <2>1 DEF Begin
    <2>4. ended' \in [Runs -> Endings] /\ ended'[r] = "open"
      BY <1>0, <2>3 DEF Endings
    <2> QED
      BY <1>0, <2>1, <2>2, <2>3, <2>4 DEF PublicationTypeOK, Stages
  <1>2. CASE Place
    <2>1. Content[hand] \in Blobs /\ at = "place" /\ UNCHANGED pc
          /\ UNCHANGED <<run, notes, rows, ended, faults>>
      BY <1>0, <1>2, HandTyped, ArchiveFields, PlaceIsLocal DEF Place
    <2>2. local[Content[hand]] \in {"absent", "good", "bad"}
      BY <1>0, <2>1 DEF PublicationTypeOK, TypeOK
    <2>3. /\ writable' \in {writable, writable \cup {Content[hand]}}
          /\ \/ Fails
             \/ at' \in {"seal", "note"} /\ UNCHANGED <<hand, failing>>
      BY <1>2, <2>2 DEF Place
    <2>4. /\ at' \in Stages \ {"idle"} /\ failing' \in BOOLEAN
          /\ hand' \in IF failing' THEN {FailureRecord[run]} ELSE Of[run]
      <3>1. CASE Fails
        BY <1>0, <2>1, <3>1, FailsTyped DEF Stages
      <3>2. CASE at' \in {"seal", "note"} /\ UNCHANGED <<hand, failing>>
        BY <1>0, <2>1, <3>2 DEF Stages
      <3> QED
        BY <2>3, <3>1, <3>2
    <2> QED
      BY <1>0, <2>1, <2>3, <2>4 DEF PublicationTypeOK
  <1>3. CASE Seal \/ Note
    <2>1. /\ at # "idle" /\ UNCHANGED pc /\ UNCHANGED <<run, hand, failing, ended, faults, rows>>
          /\ at' \in {"note", "row"} /\ writable' \subseteq writable
          /\ notes' \subseteq notes \cup {hand}
      BY <1>3, VarsFields DEF Seal, Note
    <2> QED
      BY <1>0, <2>1, HandTyped DEF PublicationTypeOK, Stages
  <1>4. CASE AddRow \/ Intend
    <2>1. /\ at # "idle" /\ UNCHANGED pc /\ UNCHANGED <<run, failing, writable, notes, ended, faults>>
          /\ rows' \subseteq rows \cup {hand}
          /\ Returned \/ (at' = "intend" /\ UNCHANGED hand)
      BY <1>4, VarsFields DEF AddRow, Intend, Enqueue, records, drainer
    <2>2. at' \in Stages \ {"idle"} /\ hand' \in IF failing THEN {FailureRecord[run]} ELSE Of[run]
      BY <1>0, <2>1, ReturnedTyped DEF Stages
    <2> QED
      BY <1>0, <2>1, <2>2, HandTyped DEF PublicationTypeOK
  <1>5. CASE Commit \/ PublisherDies
    <2>1. /\ at # "idle" /\ UNCHANGED <<run, writable, notes, rows>>
          /\ at' = "idle" /\ hand' = 0 /\ failing' = FALSE
          /\ faults' = faults \/ (faults' = faults + 1 /\ faults < FaultBound)
          /\ ended' = ended \/ \E e \in {"failed", "verdict"} : ended' = [ended EXCEPT ![run] = e]
      <3>1. CASE Commit
        BY <3>1 DEF Commit, records
      <3>2. CASE PublisherDies
        BY <3>2 DEF PublisherDies, Leaves, records
      <3> QED
        BY <1>5, <3>1, <3>2
    <2>2. ended' \in [Runs -> Endings] /\ faults' \in 0..FaultBound
      BY <1>0, <2>1 DEF Endings
    <2>3. at' \in Stages /\ run' \in Runs \cup {0} /\ failing' \in BOOLEAN
      BY <1>0, <2>1 DEF Stages
    <2> QED
      BY <1>0, <2>1, <2>2, <2>3 DEF PublicationTypeOK
  <1>6. CASE Raises
    <2>1. /\ at # "idle" /\ UNCHANGED pc /\ UNCHANGED <<run, writable, notes, rows, ended>>
          /\ faults' = faults + 1 /\ faults < FaultBound
          /\ Fails \/ (at' = "idle" /\ hand' = 0 /\ failing' = FALSE)
      BY <1>6, VarsFields DEF Raises, Leaves, records
    <2>2. faults' \in 0..FaultBound
      BY <1>0, <2>1
    <2>3. CASE Fails
      <3>1. at' \in Stages \ {"idle"} /\ failing' = TRUE /\ hand' = FailureRecord[run]
        BY <1>0, <2>1, <2>3, FailsTyped DEF Stages
      <3> QED
        BY <1>0, <2>1, <2>2, <3>1 DEF PublicationTypeOK
    <2>4. CASE at' = "idle" /\ hand' = 0 /\ failing' = FALSE
      BY <1>0, <2>1, <2>2, <2>4 DEF PublicationTypeOK, Stages
    <2> QED
      BY <2>1, <2>3, <2>4
  <1>7. CASE Archives
    BY <1>0, <1>7 DEF Archives, publisher, records, PublicationTypeOK
  <1>8. CASE UNCHANGED pvars
    BY <1>0, <1>8, VarsFields DEF pvars, publisher, records, PublicationTypeOK
  <1> QED
    BY <1>1, <1>2, <1>3, <1>4, <1>5, <1>6, <1>7, <1>8 DEF PublicationNext, Publishes

-----------------------------------------------------------------------------
\* Nothing in place goes away again: files are damaged, not lost.
LEMMA PlacedStep ==
  ASSUME PublicationInv, [PublicationNext]_pvars
  PROVE  PlacedStays
  <1>0. local \in [Blobs -> {"absent", "good", "bad"}] /\ HandIsReady /\ PublicationTypeOK
    BY DEF PublicationInv, PublicationTypeOK, TypeOK
  <1>1. CASE Place
    BY <1>0, <1>1, PlaceIsLocal DEF PlacedStays
  <1>2. ASSUME [Next]_vars PROVE PlacedStays
    <2>1. local' = local \/ \E b \in Blobs : LocalDamaged(b)
      BY <1>2 DEF Next, Archiving, Drain, Recover, Claim, IoError, Defect, RouteRefused, CheckLocal,
         CopyFile, VerifyCopy, Settles, GoesOn, Record, RecordRefused, DrainerDies, NasRepaired,
         LeaseExpires, RetryArchives, Enqueue, vars
    <2> QED
      BY <1>0, <2>1 DEF LocalDamaged, PlacedStays
  <1> QED
    BY <1>0, <1>1, <1>2, ArchiveSees

\* The archive moves nothing of the publisher.
LEMMA PublisherRests ==
  ASSUME Archives \/ UNCHANGED pvars
  PROVE  UNCHANGED <<run, at, hand, failing, writable, notes, rows, ended, faults>>
  BY DEF Archives, pvars, publisher, records

LEMMA HandStep ==
  ASSUME PublicationInv, [PublicationNext]_pvars
  PROVE  HandIsReady'
  <1>0. PublicationTypeOK /\ HandIsReady /\ RowsAreBacked /\ PlacedStays
    BY PlacedStep DEF PublicationInv
  <1>1. CASE at' \notin {"seal", "note", "row", "intend"}
    BY <1>1 DEF HandIsReady
  <1>2. CASE Place
    <2>1. /\ local[Content[hand]] \in {"absent", "good", "bad"} /\ Content[hand] \in Blobs
          /\ local \in [Blobs -> {"absent", "good", "bad"}] /\ rows' = rows
      BY <1>0, <1>2, HandTyped DEF PublicationTypeOK, TypeOK, Place
    <2>2. CASE Fails
      BY <1>0, <1>1, <1>2, <2>2, FailsTyped DEF Place
    <2>3. CASE local[Content[hand]] = "good" /\ at' = "note" /\ UNCHANGED <<local, hand>>
      BY <2>3 DEF HandIsReady
    <2>4. CASE /\ local[Content[hand]] = "absent" /\ at' = "seal" /\ UNCHANGED hand
               /\ local' = [local EXCEPT ![Content[hand]] = "good"]
               /\ writable' = writable \cup {Content[hand]}
      BY <1>0, <2>1, <2>4 DEF HandIsReady, RowsAreBacked
    <2> QED
      BY <1>2, <2>1, <2>2, <2>3, <2>4 DEF Place
  <1>3. CASE Seal \/ Note
    <2>1. /\ at' \in {"note", "row"} /\ UNCHANGED hand /\ UNCHANGED local
          /\ at \in {"seal", "note"} /\ (at' = "row" => notes' = notes \cup {hand})
      BY <1>3, VarsFields DEF Seal, Note
    <2> QED
      BY <1>0, <2>1 DEF HandIsReady
  <1>4. CASE AddRow \/ Intend
    <2>1. CASE at' = "intend"
      <3>1. at = "row" /\ hand \in Ops /\ UNCHANGED <<hand, local, notes>> /\ rows' = rows \cup {hand}
        BY <1>0, <1>4, <2>1, VarsFields, ReturnedTyped DEF AddRow, Intend, records
      <3> QED
        BY <1>0, <2>1, <3>1 DEF HandIsReady
    <2> QED
      BY <1>0, <1>1, <1>4, <2>1, ReturnedTyped DEF AddRow, Intend
  <1>5. CASE (\E r \in Runs : Begin(r)) \/ Commit \/ PublisherDies \/ Raises
    BY <1>0, <1>1, <1>5, FailsTyped DEF Begin, Commit, PublisherDies, Raises, Leaves
  <1>6. CASE Archives \/ UNCHANGED pvars
    <2>1. at = "idle" \/ Content[hand] \in Blobs
      BY <1>0, HandTyped
    <2> QED
      BY <1>0, <1>6, <2>1, PublisherRests DEF HandIsReady, PlacedStays
  <1> QED
    BY <1>2, <1>3, <1>4, <1>5, <1>6 DEF PublicationNext, Publishes

LEMMA RowsStep ==
  ASSUME PublicationInv, [PublicationNext]_pvars
  PROVE  RowsAreBacked'
  <1>0. PublicationTypeOK /\ HandIsReady /\ RowsAreBacked /\ PlacedStays
    BY PlacedStep DEF PublicationInv
  <1>1. \A n \in rows : Content[n] \in Blobs
    BY <1>0, PublicationAssumption DEF PublicationTypeOK
  <1>2. CASE AddRow
    <2>1. rows' = rows \cup {hand} /\ notes' = notes /\ UNCHANGED local /\ at = "row"
      BY <1>2, VarsFields DEF AddRow
    <2> QED
      BY <1>0, <2>1 DEF RowsAreBacked, HandIsReady
  <1>3. CASE ~ AddRow
    <2>1. rows' = rows /\ notes \subseteq notes'
      BY <1>3, PublisherRests DEF PublicationNext, Publishes, Begin, Place, Seal, Note, Intend,
         Commit, Raises, PublisherDies, records
    <2> QED
      BY <1>0, <1>1, <2>1 DEF RowsAreBacked, PlacedStays
  <1> QED
    BY <1>2, <1>3

-----------------------------------------------------------------------------
\* Only Enqueue makes work of an operation that there was not.
LEMMA NoNewWork ==
  ASSUME TypeOK, Archiving \/ UNCHANGED vars, NEW o \in Ops, opState[o] = "NONE",
         \A d \in Drainers : o \notin todo[d]
  PROVE  opState'[o] = "NONE" /\ \A d \in Drainers : o \notin todo'[d]
  <1>0. /\ opState \in [Ops -> OpStates] /\ todo \in [Drainers -> SUBSET Ops]
        /\ result \in [Drainers -> Results \cup {"none"}]
    BY DEF TypeOK
  <1>1. ASSUME NEW d \in Drainers, Recover(d)
        PROVE  opState'[o] = "NONE" /\ UNCHANGED todo
    BY <1>1 DEF Recover, Stale
  <1>2. ASSUME NEW d \in Drainers, Claim(d)
        PROVE  opState'[o] = "NONE" /\ \A e \in Drainers : o \notin todo'[e]
    <2>1. o \notin Batch
      BY DEF Batch, Claimable
    <2> QED
      BY <1>0, <1>2, <2>1 DEF Claim
  <1>3. ASSUME NEW d \in Drainers, NEW p \in Ops,
               \/ IoError(d, p) \/ Defect(d, p) \/ RouteRefused(d, p) \/ CheckLocal(d, p)
               \/ CopyFile(d, p) \/ VerifyCopy(d, p)
        PROVE  UNCHANGED <<opState, todo>>
    BY <1>3 DEF IoError, Defect, RouteRefused, CheckLocal, CopyFile, VerifyCopy, Settles, GoesOn, table
  <1>4. ASSUME NEW d \in Drainers, NEW p \in Ops, Record(d, p)
        PROVE  opState'[o] = "NONE" /\ \A e \in Drainers : o \notin todo'[e]
    <2>1. p \in todo[d] /\ p # o
      BY <1>4 DEF Record, Works
    <2> QED
      BY <1>0, <1>4, <2>1 DEF Record
  <1>5. ASSUME NEW d \in Drainers, DrainerDies(d) \/ \E p \in Ops : RecordRefused(d, p)
        PROVE  opState' = opState /\ \A e \in Drainers : o \notin todo'[e]
    BY <1>0, <1>5 DEF DrainerDies, RecordRefused, Drops, table
  <1>6. ASSUME NEW S \in SUBSET Ops, RetryArchives(S)
        PROVE  opState'[o] = "NONE" /\ UNCHANGED todo
    BY <1>6 DEF RetryArchives, drainer
  <1>7. ASSUME \/ \E p \in Ops : LeaseExpires(p)
               \/ \E b \in Blobs : LocalDamaged(b) \/ NasRepaired(b)
               \/ UNCHANGED vars
        PROVE  UNCHANGED <<opState, todo>>
    BY <1>7 DEF LeaseExpires, LocalDamaged, NasRepaired, vars, table, drainer
  <1> QED
    BY <1>1, <1>2, <1>3, <1>4, <1>5, <1>6, <1>7 DEF Archiving, Drain

\* No operation goes back to not being there.
LEMMA QueuedStays ==
  ASSUME TypeOK, [Next]_vars, NEW o \in Ops, opState[o] # "NONE"
  PROVE  opState'[o] # "NONE"
  <1>1. ASSUME NEW d \in Drainers, Record(d, o) PROVE opState'[o] # "NONE"
    <2>1. opState'[o] = result[d] /\ result[d] \in Results \cup {"none"}
      BY <1>1 DEF Record, TypeOK
    <2> QED
      BY <2>1 DEF Results
  <1> QED
    BY <1>1, HistorySteps

LEMMA IntentsStay ==
  ASSUME PublicationInv, [PublicationNext]_pvars, NEW o \in Ops, opState[o] # "NONE"
  PROVE  opState'[o] # "NONE"
  <1>1. CASE Place
    BY <1>1, PlaceIsLocal, ArchiveFields DEF PublicationInv
  <1> QED
    BY <1>1, ArchiveSees, QueuedStays DEF PublicationInv, ArchiveInv

LEMMA QueuedStep ==
  ASSUME PublicationInv, [PublicationNext]_pvars
  PROVE  QueuedIsPlaced'
  <1>0. /\ PublicationTypeOK /\ TypeOK /\ HandIsReady /\ QueuedIsPlaced /\ PlacedStays
        /\ \A o \in Ops : Blob[o] \in Blobs /\ Blob[o] = Content[o]
    BY PlacedStep, ArchiveAssumption, PublicationAssumption DEF PublicationInv, PublicationTypeOK
  <1>1. CASE Intend
    <2>1. /\ hand \in Ops /\ local[Content[hand]] # "absent" /\ local' = local /\ todo' = todo
          /\ \A o \in Ops : o # hand => opState'[o] = opState[o]
      BY <1>0, <1>1 DEF Intend, HandIsReady, Enqueue, TypeOK, drainer
    <2> QED
      BY <1>0, <2>1 DEF QueuedIsPlaced
  <1>2. CASE Place
    <2>1. UNCHANGED <<opState, todo>>
      BY <1>0, <1>2, PlaceIsLocal, ArchiveFields
    <2> QED
      BY <1>0, <2>1 DEF QueuedIsPlaced, PlacedStays
  <1>3. CASE ~ Intend /\ ~ Place
    <2>1. Archiving \/ UNCHANGED vars
      BY <1>3 DEF PublicationNext, Publishes, Begin, Seal, Note, AddRow, Commit, Raises,
         PublisherDies, Archives, pvars
    <2> QED
      BY <1>0, <2>1, NoNewWork DEF QueuedIsPlaced, PlacedStays
  <1> QED
    BY <1>1, <1>2, <1>3

-----------------------------------------------------------------------------
\* What publish returns to leaves no operation out.
LEMMA ReturnedDue ==
  ASSUME PublicationTypeOK, at # "idle", Returned, ~ failing, NEW o \in Ops, o \in Of[run],
         o < hand' \/ at' = "verdict"
  PROVE  o < hand \/ o = hand
  <1>0. /\ o \in Nat /\ hand \in Nat /\ Later \in SUBSET Artifacts
        /\ o \in Later <=> o > hand
    BY HandTyped, PublicationAssumption DEF Later
  <1>1. CASE Later = {}
    BY <1>0, <1>1
  <1>2. CASE Later # {}
    <2>1. hand' = First(Later) /\ at' = "place" /\ First(Later) \in Nat
          /\ \A m \in Later : First(Later) <= m
      BY <1>0, <1>2, FirstIsLeast, PublicationAssumption DEF Returned
    <2> QED
      BY <1>0, <2>1
  <1> QED
    BY <1>1, <1>2

LEMMA VerdictStep ==
  ASSUME PublicationInv, [PublicationNext]_pvars
  PROVE  VerdictHasIntents'
  <1> SUFFICES ASSUME NEW r \in Runs, NEW o \in Ops, Due(r, o)' PROVE opState'[o] # "NONE"
    BY DEF VerdictHasIntents
  <1>0. /\ PublicationTypeOK /\ TypeOK /\ HandIsReady /\ ended \in [Runs -> Endings]
        /\ at # "idle" => run \in Runs /\ ended[run] = "open"
    BY DEF PublicationInv, PublicationTypeOK
  <1>1. CASE Due(r, o)
    BY <1>1, IntentsStay DEF PublicationInv, VerdictHasIntents
  <1>2. CASE ~ Due(r, o)
    <2>1. ASSUME NEW q \in Runs, Begin(q) PROVE FALSE
      <3>1. /\ ended' = [ended EXCEPT ![q] = "open"] /\ run' = q /\ at' = "place"
            /\ ~ failing' => hand' = First(Of[q])
        BY <2>1 DEF Begin
      <3>3. /\ Of[q] \in SUBSET Artifacts /\ Of[q] # {} /\ Artifacts \subseteq Nat
            /\ Ops \subseteq Nat /\ o \in Of[r]
        BY PublicationAssumption DEF Due
      <3>2. r = q => First(Of[q]) <= o /\ First(Of[q]) \in Nat /\ o \in Nat
        BY <3>3, FirstIsLeast
      <3>4. CASE r = q
        <4>1. ended'[r] = "open"
          BY <1>0, <3>1, <3>4
        <4>2. ~ failing' /\ o < hand'
          BY <3>1, <4>1 DEF Due
        <4> QED
          BY <3>1, <3>2, <3>4, <4>2
      <3>5. CASE r # q
        <4>1. ended'[r] = ended[r] /\ run' # r
          BY <1>0, <3>1, <3>5
        <4> QED
          BY <1>2, <4>1 DEF Due
      <3> QED
        BY <3>4, <3>5
    <2>2. CASE Place
      <3>1. at = "place" /\ ended' = ended /\ run' = run /\ Content[hand] \in Blobs
        BY <1>0, <2>2, HandTyped DEF Place
      <3>2. local[Content[hand]] \in {"absent", "good", "bad"}
        BY <1>0, <3>1 DEF TypeOK
      <3>3. Fails \/ (at' \in {"seal", "note"} /\ UNCHANGED <<hand, failing>>)
        BY <2>2, <3>2 DEF Place
      <3>4. failing' = TRUE \/ (at' \in {"seal", "note"} /\ UNCHANGED <<hand, failing>>)
        BY <1>0, <3>1, <3>3, FailsTyped
      <3> QED
        BY <1>2, <3>1, <3>4 DEF Due
    <2>3. CASE Seal \/ Note
      BY <1>2, <2>3 DEF Due, Seal, Note
    <2>4. CASE AddRow
      <3>1. ended' = ended /\ run' = run /\ failing' = failing /\ at = "row"
        BY <2>4 DEF AddRow
      <3>2. r = run /\ ~ failing /\ o \in Of[run] /\ (o < hand' \/ at' = "verdict")
        BY <1>2, <3>1 DEF Due
      <3>3. ~ (at' = "intend" /\ UNCHANGED hand)
        BY <1>2, <3>1, <3>2 DEF Due
      <3>4. hand \notin Ops /\ Returned
        BY <2>4, <3>3 DEF AddRow
      <3>5. o < hand
        BY <1>0, <3>1, <3>2, <3>4, ReturnedDue
      <3> QED
        BY <1>2, <3>1, <3>2, <3>5 DEF Due
    <2>5. CASE Intend
      <3>1. ended' = ended /\ run' = run /\ failing' = failing /\ at = "intend" /\ Returned
        BY <2>5 DEF Intend
      <3>2. r = run /\ ~ failing /\ o \in Of[run] /\ (o < hand' \/ at' = "verdict")
        BY <1>2, <3>1 DEF Due
      <3>3. ~ (o < hand)
        BY <1>2, <3>1, <3>2 DEF Due
      <3>4. o = hand
        BY <1>0, <3>1, <3>2, <3>3, ReturnedDue
      <3> QED
        BY <1>0, <2>5, <3>4 DEF Intend, Enqueue, TypeOK
    <2>6. CASE Commit
      BY <1>0, <1>2, <2>6 DEF Due, Commit
    <2>7. CASE Raises \/ PublisherDies
      BY <1>0, <1>2, <2>7, FailsTyped DEF Due, Raises, PublisherDies, Leaves
    <2>8. CASE Archives \/ UNCHANGED pvars
      BY <1>2, <2>8, PublisherRests DEF Due
    <2> QED
      BY <2>1, <2>2, <2>3, <2>4, <2>5, <2>6, <2>7, <2>8 DEF PublicationNext, Publishes
  <1> QED
    BY <1>1, <1>2

-----------------------------------------------------------------------------
LEMMA ForgottenStep ==
  ASSUME PublicationInv, [PublicationNext]_pvars
  PROVE  ForgottenIsPaid'
  <1>0. /\ PublicationTypeOK /\ TypeOK /\ HandIsReady /\ faults \in Nat
        /\ IsFiniteSet(writable) /\ Cardinality(Forgotten) <= faults
    BY PublicationAssumption DEF PublicationInv, PublicationTypeOK, ForgottenIsPaid
  <1>1. IsFiniteSet(Forgotten) /\ Cardinality(Forgotten) \in Nat
    BY <1>0, FS_Subset, FS_CardinalityType DEF Forgotten
  <1>2. ASSUME IsFiniteSet(writable'), Forgotten' \subseteq Forgotten, faults' \in {faults, faults + 1}
        PROVE  ForgottenIsPaid'
    <2>1. Cardinality(Forgotten') <= Cardinality(Forgotten) /\ Cardinality(Forgotten') \in Nat
      BY <1>1, <1>2, FS_Subset, FS_CardinalityType
    <2> QED
      BY <1>0, <1>1, <1>2, <2>1 DEF ForgottenIsPaid
  <1>3. CASE Place
    <2>1. at = "place" /\ faults' = faults /\ Content[hand] \in Blobs
      BY <1>0, <1>3, HandTyped DEF Place
    <2>2. local[Content[hand]] \in {"absent", "good", "bad"}
      BY <1>0, <2>1 DEF TypeOK
    <2>3. \/ writable' = writable /\ at' # "seal"
          \/ writable' = writable \cup {Content[hand]} /\ at' = "seal" /\ hand' = hand
      BY <1>0, <1>3, <2>1, <2>2, FailsTyped DEF Place
    <2>4. Forgotten = writable /\ Forgotten' \subseteq writable
      BY <2>1, <2>3 DEF Forgotten
    <2>5. IsFiniteSet(writable')
      BY <1>0, <2>3, FS_AddElement
    <2> QED
      BY <1>2, <2>1, <2>4, <2>5
  <1>4. CASE Seal
    <2>1. writable' = writable \ {Content[hand]} /\ at = "seal" /\ at' = "note" /\ faults' = faults
      BY <1>4 DEF Seal
    <2>2. IsFiniteSet(writable') /\ Forgotten' = Forgotten
      BY <1>0, <2>1, FS_Subset DEF Forgotten
    <2> QED
      BY <1>2, <2>1, <2>2
  <1>5. CASE Raises \/ PublisherDies
    <2>1. writable' = writable /\ faults' = faults + 1 /\ at # "idle" /\ at' # "seal"
      BY <1>0, <1>5, FailsTyped DEF Raises, PublisherDies, Leaves, records
    <2>2. Forgotten' = writable /\ writable \subseteq Forgotten \cup {Content[hand]}
      BY <2>1 DEF Forgotten
    <2>3. /\ IsFiniteSet(Forgotten \cup {Content[hand]})
          /\ Cardinality(Forgotten \cup {Content[hand]}) <= Cardinality(Forgotten) + 1
      BY <1>1, FS_AddElement
    <2>4. /\ Cardinality(Forgotten') <= Cardinality(Forgotten \cup {Content[hand]})
          /\ Cardinality(Forgotten \cup {Content[hand]}) \in Nat /\ Cardinality(Forgotten') \in Nat
      BY <1>0, <2>2, <2>3, FS_Subset, FS_CardinalityType
    <2> QED
      BY <1>0, <1>1, <2>1, <2>3, <2>4 DEF ForgottenIsPaid
  <1>6. CASE (\E r \in Runs : Begin(r)) \/ Note \/ AddRow \/ Intend \/ Commit
    <2>1. writable' = writable /\ faults' = faults /\ at # "seal" /\ at' # "seal"
      BY <1>0, <1>6, ReturnedTyped DEF Begin, Note, AddRow, Intend, Commit, records
    <2> QED
      BY <1>0, <1>2, <2>1 DEF Forgotten
  <1>7. CASE Archives \/ UNCHANGED pvars
    BY <1>0, <1>2, <1>7, PublisherRests DEF Forgotten
  <1> QED
    BY <1>3, <1>4, <1>5, <1>6, <1>7 DEF PublicationNext, Publishes

LEMMA PublicationInvInit == PublicationInit => PublicationInv
  <1> SUFFICES ASSUME PublicationInit PROVE PublicationInv
    OBVIOUS
  <1>1. /\ ArchiveInv /\ pc[Agent] = "off" /\ local = [b \in Blobs |-> "absent"]
        /\ opState = [o \in Ops |-> "NONE"] /\ todo = [d \in Drainers |-> {}]
    BY NothingQueuedInv, ArchiveAssumption DEF PublicationInit, NothingQueued
  <1>2. /\ run = 0 /\ at = "idle" /\ hand = 0 /\ failing = FALSE /\ faults = 0
        /\ writable = {} /\ notes = {} /\ rows = {} /\ ended = [r \in Runs |-> "none"]
    BY DEF PublicationInit
  <1>3. PublicationTypeOK
    <2>1. TypeOK /\ at \in Stages /\ run \in Runs \cup {0} /\ failing \in BOOLEAN
      BY <1>1, <1>2 DEF ArchiveInv, Stages
    <2>3. faults \in 0..FaultBound
      BY <1>2, PublicationAssumption
    <2>4. ended \in [Runs -> Endings]
      BY <1>2 DEF Endings
    <2>2. /\ writable \subseteq Blobs /\ notes \subseteq Artifacts /\ rows \subseteq Artifacts
          /\ at = "idle" /\ hand = 0 /\ ~failing
      BY <1>2
    <2> QED
      BY <2>1, <2>2, <2>3, <2>4 DEF PublicationTypeOK
  <1>4. HandIsReady /\ RowsAreBacked /\ QueuedIsPlaced /\ VerdictHasIntents
    BY <1>1, <1>2 DEF HandIsReady, RowsAreBacked, QueuedIsPlaced, VerdictHasIntents, Due
  <1>5. ForgottenIsPaid
    <2>1. Forgotten = {}
      BY <1>2 DEF Forgotten
    <2> QED
      BY <1>2, <2>1, FS_EmptySet DEF ForgottenIsPaid
  <1> QED
    BY <1>1, <1>3, <1>4, <1>5 DEF PublicationInv

\* PublicationInv is an invariant of publication beside the archive.
THEOREM PublicationInvariant == PublicationSpec => []PublicationInv
  <1>1. ASSUME PublicationInv, [PublicationNext]_pvars PROVE PublicationInv'
    BY <1>1, PublicationTypeStep, ArchiveInvStep, HandStep, RowsStep, QueuedStep, VerdictStep,
       ForgottenStep DEF PublicationInv
  <1> QED
    BY <1>1, PublicationInvInit, PTL DEF PublicationSpec

\* The publisher holds an artifact of the run in hand, for any runs, artifacts
\* and faults, and the agent drains nothing while it does.
THEOREM PublicationTyped == PublicationSpec => []PublicationTypeOK
  <1>1. PublicationInv => PublicationTypeOK
    BY DEF PublicationInv
  <1> QED
    BY <1>1, PublicationInvariant, PTL

\* publish writes the row last: what a row names was there before it.
THEOREM RowsBacked == PublicationSpec => []RowsAreBacked
  <1>1. PublicationInv => RowsAreBacked
    BY DEF PublicationInv
  <1> QED
    BY <1>1, PublicationInvariant, PTL

\* publish_file: a published blob that is writable was left so by a death or an
\* exception behind os.replace, one for each.
THEOREM PublishedReadOnly == PublicationSpec => []PublishedIsReadOnly
  <1>1. PublicationInv => PublishedIsReadOnly
    <2> SUFFICES ASSUME PublicationInv
                 PROVE  Cardinality({b \in writable : \E n \in rows : Content[n] = b}) <= faults
      BY DEF PublishedIsReadOnly
    <2> DEFINE exposed == {b \in writable : \E n \in rows : Content[n] = b}
    <2>1. exposed \subseteq Forgotten
      BY DEF PublicationInv, HandIsReady, Forgotten
    <2>2. /\ IsFiniteSet(Forgotten) /\ Cardinality(Forgotten) <= faults /\ faults \in Nat
      BY PublicationAssumption, FS_Subset
         DEF PublicationInv, ForgottenIsPaid, Forgotten, PublicationTypeOK
    <2>3. /\ Cardinality(exposed) <= Cardinality(Forgotten) /\ IsFiniteSet(exposed)
          /\ Cardinality(exposed) \in Nat /\ Cardinality(Forgotten) \in Nat
      BY <2>1, <2>2, FS_Subset, FS_CardinalityType
    <2> QED
      BY <2>2, <2>3
  <1> QED
    BY <1>1, PublicationInvariant, PTL

\* archive_rollup says COMPLETE of a job only when all that its verdicts
\* published in archived roles lies intact on the share.
THEOREM CompleteArchived == PublicationSpec => []CompleteIsArchived
  <1>1. PublicationInv => CompleteIsArchived
    <2> SUFFICES ASSUME PublicationInv, NEW r \in Runs, NEW o \in Ops, o \in Of[r],
                        ended[r] = "verdict", Rollup(JobOf[r]) = "COMPLETE"
                 PROVE  nas[Blob[o]] = "good"
      BY DEF CompleteIsArchived
    <2> DEFINE found == {opState[q] : q \in {p \in Ops :
                     opState[p] # "NONE" /\ \E s \in Runs :
                        JobOf[s] = JobOf[r] /\ p \in Of[s] \cup {FailureRecord[s]}}}
    <2>1. opState[o] # "NONE"
      BY DEF PublicationInv, VerdictHasIntents, Due
    <2>2. opState[o] \in found
      BY <2>1
    <2>3. found = {"SUCCEEDED"}
      BY DEF Rollup
    <2> QED
      BY <2>2, <2>3 DEF PublicationInv, ArchiveInv, ArchivedIsVerified
  <1> QED
    BY <1>1, PublicationInvariant, PTL

-----------------------------------------------------------------------------
\* What the archive is shown of the local files: a file that is not there yet
\* is one that nothing has happened to.
Shown == [b \in Blobs |-> IF local[b] = "absent" THEN "good" ELSE local[b]]

\* The operators of the archive that do not look at the local files.
LEMMA SameCardinality == \A S : Promise!Cardinality(S) = Cardinality(S)
  BY Zenon DEF Promise!Cardinality, Cardinality

LEMMA SameOperators ==
  /\ Promise!ArchiveTransitions = ArchiveTransitions
  /\ Promise!Stale = Stale /\ Promise!Batch = Batch
  /\ \A o \in Ops : Promise!Held(o) = Held(o)
  /\ \A d \in Drainers, o \in Ops :
        Promise!Works(d, o) = Works(d, o) /\ Promise!IoResult(d, o) = IoResult(d, o)
  <1>1. Promise!ArchiveTransitions = ArchiveTransitions
    BY Zenon DEF Promise!ArchiveTransitions, ArchiveTransitions, Promise!OpStates, OpStates,
       Promise!Results, Results
  <1>2. Promise!Stale = Stale
    BY DEF Promise!Stale, Stale
  <1>3. Promise!Batch = Batch
    BY SameCardinality DEF Promise!Batch, Batch, Promise!Claimable, Claimable
  <1>4. \A o \in Ops : Promise!Held(o) = Held(o)
    BY DEF Promise!Held, Held
  <1>5. \A d \in Drainers, o \in Ops :
           Promise!Works(d, o) = Works(d, o) /\ Promise!IoResult(d, o) = IoResult(d, o)
    BY DEF Promise!Works, Works, Promise!IoResult, IoResult
  <1> QED
    BY <1>1, <1>2, <1>3, <1>4, <1>5

PromiseStep == [Promise!Next]_(Promise!vars)

LEMMA ShownStays ==
  ASSUME UNCHANGED local
  PROVE  Shown' = Shown
  BY DEF Shown

\* Steps at which the archive stands still.
LEMMA PromiseStutters ==
  ASSUME UNCHANGED <<opState, claims, expired, nas, pc, todo, attemptNo, copied, result, stolen,
                     slow, manual, crashes>>,
         Shown' = Shown
  PROVE  PromiseStep
  BY DEF PromiseStep, Promise!vars, Promise!table, Promise!drainer, Promise!counters, Shown

\* The steps of a drainer that only write its own result or its place.
LEMMA PromiseSettles ==
  ASSUME NEW d \in Drainers, NEW r \in Results, Settles(d, r)
  PROVE  Promise!Settles(d, r) /\ UNCHANGED local
  <1>1. UNCHANGED <<opState, claims, expired, todo, attemptNo, local, stolen, slow, manual, crashes>>
    BY DEF Settles, table, counters
  <1>2. Shown' = Shown
    BY <1>1 DEF Shown
  <1> QED
    BY <1>1, <1>2 DEF Settles, Promise!Settles, Promise!table, Promise!counters, Shown

LEMMA PromiseGoesOn ==
  ASSUME NEW d \in Drainers, NEW where, GoesOn(d, where)
  PROVE  Promise!GoesOn(d, where) /\ UNCHANGED local
  <1>1. UNCHANGED <<opState, claims, expired, todo, attemptNo, result, local, stolen, slow, manual,
                    crashes>>
    BY DEF GoesOn, table, counters
  <1>2. Shown' = Shown
    BY <1>1 DEF Shown
  <1> QED
    BY <1>1, <1>2 DEF GoesOn, Promise!GoesOn, Promise!table, Promise!counters, Shown

LEMMA PromiseDrain ==
  ASSUME TypeOK, QueuedIsPlaced, NEW d \in Drainers, Drain(d)
  PROVE  Promise!Drain(d)
  <1>0. \A o \in Ops : Works(d, o) =>
           /\ Blob[o] \in Blobs /\ Shown[Blob[o]] = local[Blob[o]]
           /\ Promise!Works(d, o)
    BY ArchiveAssumption, SameOperators DEF QueuedIsPlaced, Works, Shown
  <1>1. CASE Claim(d)
    <2>1. /\ Shown' = Shown
          /\ UNCHANGED <<nas, copied, result, stolen, slow, manual, crashes>>
      BY <1>1 DEF Claim, Shown, counters
    <2>2. Promise!Claim(d)
      BY <1>1, <2>1, SameOperators DEF Claim, Promise!Claim, Promise!counters, Shown
    <2> QED
      BY <2>2 DEF Promise!Drain
  <1>2. ASSUME NEW o \in Ops, IoError(d, o) PROVE Promise!Drain(d)
    <2>1. IoResult(d, o) \in Results /\ Promise!IoResult(d, o) = IoResult(d, o)
      BY SameOperators DEF IoResult, Results
    <2>2. Promise!IoError(d, o)
      BY <1>0, <1>2, <2>1, PromiseSettles DEF IoError, Promise!IoError
    <2> QED
      BY <2>2 DEF Promise!Drain
  <1>3. ASSUME NEW o \in Ops, RouteRefused(d, o) PROVE Promise!Drain(d)
    <2>1. Promise!RouteRefused(d, o)
      BY <1>0, <1>3, PromiseSettles DEF RouteRefused, Promise!RouteRefused, Results
    <2> QED
      BY <2>1 DEF Promise!Drain
  <1>4. ASSUME NEW o \in Ops, CheckLocal(d, o) PROVE Promise!Drain(d)
    <2>1. Promise!CheckLocal(d, o)
      BY <1>0, <1>4, PromiseSettles, PromiseGoesOn
         DEF CheckLocal, Promise!CheckLocal, Results, Shown
    <2> QED
      BY <2>1 DEF Promise!Drain
  <1>5. ASSUME NEW o \in Ops, CopyFile(d, o) PROVE Promise!Drain(d)
    <2>1. Promise!CopyFile(d, o)
      BY <1>0, <1>5, PromiseSettles, PromiseGoesOn DEF CopyFile, Promise!CopyFile, Results, Shown
    <2> QED
      BY <2>1 DEF Promise!Drain
  <1>6. ASSUME NEW o \in Ops, VerifyCopy(d, o) PROVE Promise!Drain(d)
    <2>1. Promise!VerifyCopy(d, o)
      BY <1>0, <1>6, PromiseSettles DEF VerifyCopy, Promise!VerifyCopy, Results
    <2> QED
      BY <2>1 DEF Promise!Drain
  <1>7. ASSUME NEW o \in Ops, Record(d, o) PROVE Promise!Drain(d)
    <2>1. Shown' = Shown /\ UNCHANGED <<claims, expired, nas, stolen, slow, manual, crashes>>
      BY <1>7 DEF Record, Shown, counters
    <2>2. Promise!Record(d, o)
      BY <1>0, <1>7, <2>1, SameOperators DEF Record, Promise!Record, Promise!counters, Shown
    <2> QED
      BY <2>2 DEF Promise!Drain
  <1>8. ASSUME NEW o \in Ops, RecordRefused(d, o) PROVE Promise!Drain(d)
    <2>1. Shown' = Shown
          /\ UNCHANGED <<opState, claims, expired, nas, stolen, slow, manual, crashes>>
      BY <1>8 DEF RecordRefused, Shown, table, counters
    <2>2. Promise!RecordRefused(d, o)
      BY <1>0, <1>8, <2>1, SameOperators
         DEF RecordRefused, Promise!RecordRefused, Drops, Promise!Drops, Promise!table,
             Promise!counters, Shown
    <2> QED
      BY <2>2 DEF Promise!Drain
  <1>9. ASSUME NEW o \in Ops, Defect(d, o) PROVE Promise!Drain(d)
    <2>1. Promise!Defect(d, o)
      BY <1>0, <1>9, PromiseSettles DEF Defect, Promise!Defect, Results
    <2> QED
      BY <2>1 DEF Promise!Drain
  <1> QED
    BY <1>1, <1>2, <1>3, <1>4, <1>5, <1>6, <1>7, <1>8, <1>9 DEF Drain

\* What happens to the archive around its drains.
LEMMA PromiseArchives ==
  ASSUME TypeOK, QueuedIsPlaced, Archiving
  PROVE  Promise!Archiving
  <1>1. ASSUME NEW d \in Drainers, Recover(d) PROVE Promise!Archiving
    <2>1. Shown' = Shown
      BY <1>1 DEF Recover, Shown
    <2>2. Promise!Recover(d)
      BY <1>1, <2>1, SameOperators DEF Recover, Promise!Recover, counters, Promise!counters, Shown
    <2> QED
      BY <2>2 DEF Promise!Archiving
  <1>2. ASSUME NEW d \in Drainers, Drain(d) PROVE Promise!Archiving
    BY <1>2, PromiseDrain DEF Promise!Archiving
  <1>3. ASSUME NEW d \in Drainers, DrainerDies(d) PROVE Promise!Archiving
    <2>1. Shown' = Shown /\ UNCHANGED <<opState, claims, expired>>
      BY <1>3 DEF DrainerDies, Shown, table
    <2>2. Promise!DrainerDies(d)
      BY <1>3, <2>1
         DEF DrainerDies, Promise!DrainerDies, Drops, Promise!Drops, Promise!table, Shown
    <2> QED
      BY <2>2 DEF Promise!Archiving
  <1>4. ASSUME NEW o \in Ops, LeaseExpires(o) PROVE Promise!Archiving
    <2>1. /\ Shown' = Shown
          /\ UNCHANGED <<pc, todo, attemptNo, copied, result>>
      BY <1>4 DEF LeaseExpires, Shown, drainer
    <2>2. Promise!LeaseExpires(o)
      BY <1>4, <2>1, SameOperators DEF LeaseExpires, Promise!LeaseExpires, Promise!drainer, Shown
    <2> QED
      BY <2>2 DEF Promise!Archiving
  <1>5. ASSUME NEW b \in Blobs, LocalDamaged(b) PROVE Promise!Archiving
    <2>1. /\ local \in [Blobs -> {"absent", "good", "bad"}]
          /\ local[b] = "good" /\ local' = [local EXCEPT ![b] = "bad"]
          /\ UNCHANGED <<opState, claims, expired, nas, pc, todo, attemptNo, copied, result,
                         stolen, slow, manual, crashes>>
      BY <1>5 DEF TypeOK, LocalDamaged, table, drainer, counters
    <2>2. Shown[b] = "good" /\ Shown' = [Shown EXCEPT ![b] = "bad"]
      BY <2>1 DEF Shown
    <2>3. {c \in Blobs : Shown[c] = "bad"} = {c \in Blobs : local[c] = "bad"}
      BY DEF Shown
    <2>4. Cardinality({c \in Blobs : Shown[c] = "bad"}) < DamageBound
      BY <1>5, <2>3 DEF LocalDamaged
    <2>5. Promise!LocalDamaged(b)
      BY <2>1, <2>2, <2>4, SameCardinality
         DEF Promise!LocalDamaged, Promise!table, Promise!drainer, Promise!counters, Shown
    <2> QED
      BY <2>5 DEF Promise!Archiving
  <1>6. ASSUME NEW b \in Blobs, NasRepaired(b) PROVE Promise!Archiving
    <2>1. /\ Shown' = Shown
          /\ UNCHANGED <<opState, claims, expired, pc, todo, attemptNo, copied, result, stolen,
                         slow, manual, crashes>>
      BY <1>6 DEF NasRepaired, Shown, table, drainer, counters
    <2>2. Promise!NasRepaired(b)
      BY <1>6, <2>1
         DEF NasRepaired, Promise!NasRepaired, Promise!table, Promise!drainer, Promise!counters,
             Shown
    <2> QED
      BY <2>2 DEF Promise!Archiving
  <1>7. ASSUME NEW S \in SUBSET Ops, RetryArchives(S) PROVE Promise!Archiving
    <2>1. /\ Shown' = Shown
          /\ UNCHANGED <<pc, todo, attemptNo, copied, result>>
      BY <1>7 DEF RetryArchives, Shown, drainer
    <2>2. Promise!RetryArchives(S)
      BY <1>7, <2>1 DEF RetryArchives, Promise!RetryArchives, Promise!drainer, Shown
    <2> QED
      BY <2>2 DEF Promise!Archiving
  <1> QED
    BY <1>1, <1>2, <1>3, <1>4, <1>5, <1>6, <1>7 DEF Archiving

LEMMA PromiseInit == PublicationInit => Promise!Init
  <1> SUFFICES ASSUME PublicationInit PROVE Promise!Init
    OBVIOUS
  <1>1. Shown = [b \in Blobs |-> "good"]
    BY DEF PublicationInit, Shown
  <1>2. Promise!NothingQueued
    BY DEF PublicationInit, NothingQueued, Promise!NothingQueued
  <1> QED
    BY <1>1, <1>2 DEF Promise!Init, Shown

LEMMA PromiseSteps ==
  ASSUME PublicationInv, [PublicationNext]_pvars
  PROVE  PromiseStep
  <1>0. TypeOK /\ QueuedIsPlaced /\ PublicationTypeOK /\ HandIsReady
    BY DEF PublicationInv, PublicationTypeOK
  <1>1. CASE Place
    <2>1. UNCHANGED <<opState, claims, expired, nas, pc, todo, attemptNo, copied, result, stolen,
                      slow, manual, crashes>>
      BY <1>0, <1>1, PlaceIsLocal, ArchiveFields
    <2>2. Shown' = Shown
      BY <1>0, <1>1, PlaceIsLocal DEF Shown, TypeOK
    <2> QED
      BY <2>1, <2>2, PromiseStutters
  <1>2. CASE Intend
    <2>1. /\ hand \in Ops /\ Enqueue(hand)
      BY <1>0, <1>2 DEF Intend, HandIsReady
    <2>2. /\ Shown' = Shown
          /\ UNCHANGED <<claims, expired, nas, pc, todo, attemptNo, copied, result, stolen, slow,
                         manual, crashes>>
      BY <2>1 DEF Enqueue, Shown, drainer, counters
    <2>3. Promise!Enqueue(hand)
      BY <2>1, <2>2 DEF Enqueue, Promise!Enqueue, Promise!drainer, Promise!counters, Shown
    <2> QED
      BY <2>1, <2>3 DEF PromiseStep, Promise!Next
  <1>3. CASE Archiving
    BY <1>0, <1>3, PromiseArchives DEF PromiseStep, Promise!Next
  <1>4. CASE UNCHANGED vars
    BY <1>4, VarsFields, ShownStays, PromiseStutters
  <1> QED
    BY <1>1, <1>2, <1>3, <1>4
       DEF PublicationNext, Publishes, Begin, Seal, Note, AddRow, Commit, Raises, PublisherDies,
           Archives, pvars

\* Publication shows the archive nothing that ArchiveOps does not allow.
THEOREM PublicationImplementsArchive == PublicationSpec => ImplementsArchive
  <1>1. PublicationInv /\ [PublicationNext]_pvars => [Promise!Next]_(Promise!vars)
    BY PromiseSteps DEF PromiseStep
  <1> QED
    BY <1>1, PromiseInit, PublicationInvariant, PTL
       DEF PublicationSpec, ImplementsArchive, Promise!Spec

=============================================================================
