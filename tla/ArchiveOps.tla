------------------------------ MODULE ArchiveOps ------------------------------
(***************************************************************************)
(* The archive of published artifacts (artifacts.py, db.py): operations    *)
(* are rows with an append-only state history; drainers claim a batch,     *)
(* copy each local artifact to a content-addressed destination, verify the *)
(* copy and record the result.  The agent drains under the dispatcher      *)
(* lock, the `archive` command without it, so drainers run side by side    *)
(* and a claim older than stale_after_sec is taken from whoever holds it.  *)
(***************************************************************************)
EXTENDS Integers, FiniteSets

CONSTANTS
    Ops,            \* archive operations, numbered by created_at
    Blobs,          \* contents with a name: one path here, one on the share
    Blob,           \* what each operation archives
    Drainers,       \* processes that run ArchiveDrainer.drain
    Agent,          \* the one that starts again and again
    Limit,          \* operations per drain
    MaxAttempts,    \* ArchiveRoute.max_attempts
    SlowBound,      \* bound of the model: leases that expire in use
    RetryBound,     \* bound of the model: archive-retry commands
    CrashBound,     \* bound of the model: drainers that die
    DamageBound     \* bound of the model: damaged local files

ASSUME ArchiveAssumption ==
    /\ Ops \subseteq Nat
    /\ Blob \in [Ops -> Blobs]
    /\ Agent \in Drainers
    /\ Limit \in Nat \ {0}
    /\ MaxAttempts \in Nat \ {0}
    /\ {SlowBound, RetryBound, CrashBound, DamageBound} \subseteq Nat

VARIABLES
    opState,    \* latest archive_transitions row of each operation
    claims,     \* EXECUTING rows of each operation
    expired,    \* its EXECUTING row is older than stale_after_sec
    local,      \* what lies at the local path of each blob
    nas,        \* what lies at its content-addressed destination
    pc,         \* where each drainer is
    todo,       \* claimed operations a drainer has not recorded yet
    attemptNo,  \* the attempt_no it claimed each with
    copied,     \* content of the blob its receipt names
    result,     \* result of the operation it works on
    stolen,     \* ARCHIVE_STALE rows of each operation
    slow, manual, crashes   \* counters for the bounds

table == <<opState, claims, expired>>
drainer == <<pc, todo, attemptNo, copied, result>>
counters == <<slow, manual, crashes>>
vars == <<table, local, nas, drainer, stolen, counters>>

Results == {"SUCCEEDED", "RETRY", "FAILED", "BLOCKED"}
OpStates == {"NONE", "PENDING", "EXECUTING"} \cup Results
Open == {"PENDING", "EXECUTING", "RETRY"}

ArchiveTransitions ==
    [s \in OpStates |->
        CASE s = "NONE" -> {"PENDING"}
          [] s \in {"PENDING", "RETRY"} -> {"EXECUTING"}
          [] s = "EXECUTING" -> Results
          [] s \in {"FAILED", "BLOCKED"} -> {"RETRY"}
          [] s = "SUCCEEDED" -> {}]

\* No operation yet, no drain; the share may hold a damaged blob.
NothingQueued ==
    /\ opState = [o \in Ops |-> "NONE"]
    /\ claims = [o \in Ops |-> 0]
    /\ expired = [o \in Ops |-> FALSE]
    /\ nas \in {f \in [Blobs -> {"absent", "bad"}] :
                  \A b \in Blobs : f[b] = "bad" => \E o \in Ops : Blob[o] = b}
    /\ pc = [d \in Drainers |-> "off"]
    /\ todo = [d \in Drainers |-> {}]
    /\ attemptNo = [d \in Drainers |-> [o \in Ops |-> 0]]
    /\ copied = [d \in Drainers |-> "none"]
    /\ result = [d \in Drainers |-> "none"]
    /\ stolen = [o \in Ops |-> 0]
    /\ slow = 0 /\ manual = 0 /\ crashes = 0

Init ==
    /\ local = [b \in Blobs |-> "good"]
    /\ NothingQueued

-----------------------------------------------------------------------------
\* create_archive_operation, after the artifact's own row.
Enqueue(o) ==
    /\ opState[o] = "NONE"
    /\ opState' = [opState EXCEPT ![o] = "PENDING"]
    /\ UNCHANGED <<claims, expired, local, nas, drainer, stolen, counters>>

\* archive-retry: one transaction over the operations of a job (or of all).
RetryArchives(S) ==
    /\ manual < RetryBound
    /\ S # {} /\ \A o \in S : opState[o] \in {"FAILED", "BLOCKED"}
    /\ opState' = [o \in Ops |-> IF o \in S THEN "RETRY" ELSE opState[o]]
    /\ manual' = manual + 1
    /\ UNCHANGED <<claims, expired, local, nas, drainer, stolen, slow, crashes>>

\* Seeded fault: an operation on its last attempt is not requeued.
Stale_AttemptsLeft ==
    {o \in Ops : opState[o] = "EXECUTING" /\ expired[o] /\ claims[o] < MaxAttempts}

Stale == {o \in Ops : opState[o] = "EXECUTING" /\ expired[o]}

\* A drain starts: reconcile_archives requeues stale claims in one transaction.
Recover(d) ==
    /\ pc[d] = "off"
    /\ opState' = [o \in Ops |-> IF o \in Stale THEN "RETRY" ELSE opState[o]]
    /\ stolen' = [o \in Ops |-> stolen[o] + (IF o \in Stale THEN 1 ELSE 0)]
    /\ pc' = [pc EXCEPT ![d] = "claim"]
    /\ UNCHANGED <<claims, expired, local, nas, todo, attemptNo, copied, result,
                   counters>>

Claimable == {o \in Ops : opState[o] \in {"PENDING", "RETRY"}}

\* The oldest Limit of them.
Batch == {o \in Claimable : Cardinality({p \in Claimable : p < o}) < Limit}

\* Seeded fault: the batch is selected, but no EXECUTING row is written.
Claim_NoLease(d) ==
    /\ pc[d] = "claim"
    /\ todo' = [todo EXCEPT ![d] = Batch]
    /\ attemptNo' = [attemptNo EXCEPT ![d] =
                       [o \in Ops |-> IF o \in Batch THEN claims[o] + 1 ELSE 0]]
    /\ pc' = [pc EXCEPT ![d] = IF Batch = {} THEN "off" ELSE "check"]
    /\ UNCHANGED <<table, local, nas, copied, result, stolen, counters>>

\* claim_archive_operations: one transaction.
Claim(d) ==
    /\ pc[d] = "claim"
    /\ todo' = [todo EXCEPT ![d] = Batch]
    /\ attemptNo' = [attemptNo EXCEPT ![d] =
                       [o \in Ops |-> IF o \in Batch THEN claims[o] + 1 ELSE 0]]
    /\ opState' = [o \in Ops |-> IF o \in Batch THEN "EXECUTING" ELSE opState[o]]
    /\ claims' = [o \in Ops |-> IF o \in Batch THEN claims[o] + 1 ELSE claims[o]]
    /\ expired' = [o \in Ops |-> IF o \in Batch THEN FALSE ELSE expired[o]]
    /\ pc' = [pc EXCEPT ![d] = IF Batch = {} THEN "off" ELSE "check"]
    /\ UNCHANGED <<local, nas, copied, result, stolen, counters>>

-----------------------------------------------------------------------------
\* The operation a drainer works on: the oldest it has not recorded yet.
Works(d, o) == o \in todo[d] /\ \A p \in todo[d] : o <= p

\* One step of the try block of drain ends it with a result, or goes on.
Settles(d, r) ==
    /\ pc' = [pc EXCEPT ![d] = "record"]
    /\ result' = [result EXCEPT ![d] = r]
    /\ UNCHANGED <<table, todo, attemptNo, local, stolen, counters>>

GoesOn(d, at) ==
    /\ pc' = [pc EXCEPT ![d] = at]
    /\ UNCHANGED <<table, todo, attemptNo, result, local, stolen, counters>>

\* Seeded fault: one attempt more than the route allows.
IoResult_OneMore(d, o) ==
    IF attemptNo[d][o] <= MaxAttempts THEN "RETRY" ELSE "FAILED"

IoResult(d, o) == IF attemptNo[d][o] < MaxAttempts THEN "RETRY" ELSE "FAILED"

\* The share or the local file raises OSError, wherever the drainer is.
IoError(d, o) ==
    /\ pc[d] \in {"check", "copy", "verify"} /\ Works(d, o)
    /\ Settles(d, IoResult(d, o))
    /\ UNCHANGED <<nas, copied>>

\* Anything else raises: an integration defect is not tried again.
Defect(d, o) ==
    /\ pc[d] \in {"check", "copy", "verify"} /\ Works(d, o)
    /\ Settles(d, "FAILED")
    /\ UNCHANGED <<nas, copied>>

\* The route of this process is disabled, or its root has another fingerprint.
RouteRefused(d, o) ==
    /\ pc[d] = "check" /\ Works(d, o)
    /\ Settles(d, "BLOCKED")
    /\ UNCHANGED <<nas, copied>>

CheckLocal(d, o) ==
    /\ pc[d] = "check" /\ Works(d, o)
    /\ IF local[Blob[o]] = "good" THEN GoesOn(d, "copy") ELSE Settles(d, "FAILED")
    /\ UNCHANGED <<nas, copied>>

\* publish_file reads the source again: what it copies goes to the address of
\* what it read, and only an intact artifact has the expected address.
CopyFile(d, o) ==
    /\ pc[d] = "copy" /\ Works(d, o)
    /\ \/ /\ local[Blob[o]] = "good" /\ nas[Blob[o]] = "bad"
          /\ Settles(d, "FAILED")
          /\ UNCHANGED <<nas, copied>>
       \/ /\ local[Blob[o]] = "good" /\ nas[Blob[o]] # "bad"
          /\ nas' = [nas EXCEPT ![Blob[o]] = "good"]
          /\ copied' = [copied EXCEPT ![d] = "good"]
          /\ GoesOn(d, "verify")
       \/ /\ local[Blob[o]] = "bad"
          /\ copied' = [copied EXCEPT ![d] = "bad"]
          /\ GoesOn(d, "verify")
          /\ UNCHANGED nas

\* Seeded fault: the copy is compared with its own receipt only.
VerifyCopy_ReceiptOnly(d, o) ==
    /\ pc[d] = "verify" /\ Works(d, o)
    /\ Settles(d, "SUCCEEDED")
    /\ UNCHANGED <<nas, copied>>

\* The receipt is compared with what publication expected, and the copy is
\* read back, which may fail whatever the receipt says.
VerifyCopy(d, o) ==
    /\ pc[d] = "verify" /\ Works(d, o)
    /\ \E readBack \in BOOLEAN :
          Settles(d, IF copied[d] = "good" /\ readBack THEN "SUCCEEDED" ELSE "FAILED")
    /\ UNCHANGED <<nas, copied>>

\* What a drainer holds when its drain returns, or ends with an exception.
Drops(d) ==
    /\ pc' = [pc EXCEPT ![d] = "off"]
    /\ todo' = [todo EXCEPT ![d] = {}]
    /\ attemptNo' = [attemptNo EXCEPT ![d] = [o \in Ops |-> 0]]
    /\ copied' = [copied EXCEPT ![d] = "none"]
    /\ result' = [result EXCEPT ![d] = "none"]

\* record_archive_result looks at the latest state, not at the claim.
Record(d, o) ==
    /\ pc[d] = "record" /\ Works(d, o)
    /\ result[d] \in ArchiveTransitions[opState[o]]
    /\ opState' = [opState EXCEPT ![o] = result[d]]
    /\ todo' = [todo EXCEPT ![d] = @ \ {o}]
    /\ attemptNo' = [attemptNo EXCEPT ![d][o] = 0]
    /\ copied' = [copied EXCEPT ![d] = "none"]
    /\ result' = [result EXCEPT ![d] = "none"]
    /\ pc' = [pc EXCEPT ![d] = IF todo[d] = {o} THEN "off" ELSE "check"]
    /\ UNCHANGED <<claims, expired, local, nas, stolen, counters>>

\* InvalidTransition ends the drain; the rest of its batch stays EXECUTING.
RecordRefused(d, o) ==
    /\ pc[d] = "record" /\ Works(d, o)
    /\ result[d] \notin ArchiveTransitions[opState[o]]
    /\ Drops(d)
    /\ UNCHANGED <<table, local, nas, stolen, counters>>

-----------------------------------------------------------------------------
\* The process is killed, or a database call raises.
DrainerDies(d) ==
    /\ pc[d] # "off" /\ crashes < CrashBound
    /\ crashes' = crashes + 1
    /\ Drops(d)
    /\ UNCHANGED <<table, local, nas, stolen, slow, manual>>

\* A local artifact is damaged after it was published.
LocalDamaged(b) ==
    /\ local[b] = "good" /\ Cardinality({c \in Blobs : local[c] = "bad"}) < DamageBound
    /\ local' = [local EXCEPT ![b] = "bad"]
    /\ UNCHANGED <<table, nas, drainer, stolen, counters>>

\* An operator removes a damaged blob from the share.
NasRepaired(b) ==
    /\ nas[b] = "bad"
    /\ nas' = [nas EXCEPT ![b] = "absent"]
    /\ UNCHANGED <<table, local, drainer, stolen, counters>>

Held(o) == \E d \in Drainers : o \in todo[d]

\* stale_after_sec passes: over a claim nobody works on, or over a slow copy.
LeaseExpires(o) ==
    /\ opState[o] = "EXECUTING" /\ ~expired[o]
    /\ Held(o) => slow < SlowBound
    /\ expired' = [expired EXCEPT ![o] = TRUE]
    /\ slow' = IF Held(o) THEN slow + 1 ELSE slow
    /\ UNCHANGED <<opState, claims, local, nas, drainer, stolen, manual, crashes>>

Drain(d) ==
    \/ Claim(d)
    \/ \E o \in Ops :
        \/ IoError(d, o) \/ Defect(d, o) \/ RouteRefused(d, o)
        \/ CheckLocal(d, o) \/ CopyFile(d, o) \/ VerifyCopy(d, o)
        \/ Record(d, o) \/ RecordRefused(d, o)

\* What happens to the operations there are.
Archiving ==
    \/ \E d \in Drainers : Recover(d) \/ Drain(d) \/ DrainerDies(d)
    \/ \E o \in Ops : LeaseExpires(o)
    \/ \E b \in Blobs : LocalDamaged(b) \/ NasRepaired(b)
    \/ \E S \in SUBSET Ops : RetryArchives(S)

Next == Archiving \/ \E o \in Ops : Enqueue(o)

Spec == Init /\ [][Next]_vars

\* The agent drains again and again, a started drain runs on, time passes.
Fairness ==
    /\ \A d \in Drainers : WF_vars(Drain(d))
    /\ WF_vars(Recover(Agent))
    /\ \A o \in Ops : WF_vars(~Held(o) /\ LeaseExpires(o))

FairSpec == Spec /\ Fairness

-----------------------------------------------------------------------------
(* The type of every variable: the latest row, the claim counters, and the *)
(* local state of ArchiveDrainer.drain in each process; a drainer between  *)
(* two operations of its batch holds no receipt and no result.             *)
TypeOK ==
    /\ opState \in [Ops -> OpStates]
    /\ claims \in [Ops -> Nat] /\ stolen \in [Ops -> Nat]
    /\ expired \in [Ops -> BOOLEAN]
    /\ local \in [Blobs -> {"absent", "good", "bad"}]
    /\ nas \in [Blobs -> {"absent", "good", "bad"}]
    /\ pc \in [Drainers -> {"off", "claim", "check", "copy", "verify", "record"}]
    /\ todo \in [Drainers -> SUBSET Ops]
    /\ attemptNo \in [Drainers -> [Ops -> Nat]]
    /\ copied \in [Drainers -> {"none", "good", "bad"}]
    /\ result \in [Drainers -> Results \cup {"none"}]
    /\ slow \in 0..SlowBound /\ manual \in 0..RetryBound
    /\ crashes \in 0..CrashBound
    /\ \A d \in Drainers :
        /\ pc[d] \in {"off", "claim"} <=> todo[d] = {}
        /\ result[d] = "none" <=> pc[d] # "record"
        /\ copied[d] # "none" => pc[d] \in {"verify", "record"}

(* An operation recorded SUCCEEDED has its intact artifact on the share,   *)
(* however many drainers copied it, whatever damaged the local file while  *)
(* they did and whoever recorded the result: drain compares the receipt of *)
(* the copy, not the file it hashed before, with the expected hash.        *)
ArchivedIsVerified ==
    \A o \in Ops : opState[o] = "SUCCEEDED" => nas[Blob[o]] = "good"

(* Claims are exclusive but for expired ones: an operation has at most one *)
(* drainer working on it and one more per stale requeue of reconcile.      *)
LeaseConcurrency ==
    \A o \in Ops :
        Cardinality({d \in Drainers : o \in todo[d]}) <= 1 + stolen[o]

(* max_attempts bounds the copies of an operation: each further one is     *)
(* paid for by a stale requeue or by an archive-retry of the operator.     *)
ArchiveAttemptBudget ==
    \A o \in Ops : claims[o] <= MaxAttempts + stolen[o] + manual

(* An archived operation stays archived: no late result, stale requeue or  *)
(* archive-retry opens it again.                                           *)
ArchivedIsFinal ==
    [][\A o \in Ops : opState[o] = "SUCCEEDED" => opState'[o] = "SUCCEEDED"]_vars

(* Every operation that was queued settles, though drainers die, leave     *)
(* their batch EXECUTING and the share fails: a stale claim is requeued    *)
(* and the attempts end.                                                   *)
ArchiveSettles ==
    \A o \in Ops : opState[o] \in Open ~> opState[o] \notin Open

=============================================================================
