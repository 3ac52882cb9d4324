------------------------------ MODULE Publication ------------------------------
(***************************************************************************)
(* The way of an artifact into the archive (artifacts.py, engine.py).      *)
(* run_one publishes the artifacts of a run one after the other: the file  *)
(* is placed at its content address, made read-only, described by a        *)
(* provenance record and then by a row; an artifact whose role the archive *)
(* route includes gets an archive operation, in a second transaction; when *)
(* all are published the verdict is committed.  The agent does this under  *)
(* the dispatcher lock and drains the archive when it has no run in hand;  *)
(* `archive` commands drain at any time.  Each call may raise, and the     *)
(* agent may die between any two.                                          *)
(***************************************************************************)
EXTENDS ArchiveOps

CONSTANTS
    Runs,           \* calls of run_one that come to publish, numbered
    Artifacts,      \* what they publish, numbered in that order
    Of,             \* the regular artifacts of each run
    FailureRecord,  \* what each run publishes in its exception path
    Content,        \* the blob of each artifact
    JobOf,          \* the job of each run
    FaultBound      \* bound of the model: raising calls and deaths of the agent

(* Ops are the artifacts whose role ArchiveRoute.includes: an operation is *)
(* numbered like its artifact.                                             *)
ASSUME PublicationAssumption ==
    /\ Runs \subseteq Nat \ {0} /\ Artifacts \subseteq Nat \ {0}
    /\ Of \in [Runs -> SUBSET Artifacts] /\ FailureRecord \in [Runs -> Artifacts]
    /\ \A r \in Runs : Of[r] # {} /\ FailureRecord[r] \notin UNION {Of[q] : q \in Runs}
    /\ \A q, r \in Runs : q # r =>
          Of[q] \intersect Of[r] = {} /\ FailureRecord[q] # FailureRecord[r]
    /\ Ops \subseteq Artifacts
    /\ Content \in [Artifacts -> Blobs]
    /\ \A o \in Ops : Blob[o] = Content[o]
    /\ DOMAIN JobOf = Runs
    /\ FaultBound \in Nat

VARIABLES
    run,        \* the run in hand, or the last one
    at,         \* where the publisher is
    hand,       \* the artifact in hand
    failing,    \* in the exception path of run_one
    writable,   \* blobs in place that are not read-only
    notes,      \* artifacts with a provenance record
    rows,       \* artifacts with a row
    ended,      \* how each run ended
    faults      \* counter for the bound

records == <<writable, notes, rows>>
publisher == <<run, at, hand, failing, records, ended, faults>>
archive == <<table, nas, drainer, stolen, counters>>
pvars == <<vars, publisher>>

Stages == {"idle", "place", "seal", "note", "row", "intend", "verdict"}
Endings == {"none", "open", "verdict", "failed"}

PublicationInit ==
    /\ NothingQueued
    /\ local = [b \in Blobs |-> "absent"]
    /\ run = 0 /\ at = "idle" /\ hand = 0 /\ failing = FALSE
    /\ writable = {} /\ notes = {} /\ rows = {}
    /\ ended = [r \in Runs |-> "none"]
    /\ faults = 0

-----------------------------------------------------------------------------
First(S) == CHOOSE n \in S : \A m \in S : n <= m

\* run_one has a verdict, or an exception, and begins to publish.
Begin(r) ==
    /\ at = "idle" /\ pc[Agent] = "off"
    /\ r = run + 1
    /\ run' = r
    /\ ended' = [ended EXCEPT ![r] = "open"]
    /\ at' = "place" /\ failing' \in BOOLEAN
    /\ hand' = IF failing' THEN FailureRecord[r] ELSE First(Of[r])
    /\ UNCHANGED <<vars, records, faults>>

\* Where the exception path of run_one goes on: it publishes its record, and
\* when that raises too it closes the attempt nevertheless.
Fails ==
    /\ at' = IF failing THEN "verdict" ELSE "place"
    /\ failing' = TRUE
    /\ hand' = FailureRecord[run]

Later == {n \in Of[run] : n > hand}

\* publish returns.
Returned ==
    /\ at' = IF failing \/ Later = {} THEN "verdict" ELSE "place"
    /\ hand' = IF failing \/ Later = {} THEN hand ELSE First(Later)

\* Seeded fault: chmod is forgotten.
Place_Unsealed ==
    /\ at = "place"
    /\ CASE local[Content[hand]] = "bad" ->
              Fails /\ UNCHANGED <<local, writable>>
         [] local[Content[hand]] = "good" ->
              at' = "note" /\ UNCHANGED <<local, writable, hand, failing>>
         [] local[Content[hand]] = "absent" ->
              /\ local' = [local EXCEPT ![Content[hand]] = "good"]
              /\ writable' = writable \cup {Content[hand]}
              /\ at' = "note"
              /\ UNCHANGED <<hand, failing>>
    /\ UNCHANGED <<archive, run, notes, rows, ended, faults>>

\* Seeded fault: the copy replaces whatever lies at its address.
Place_Replaces ==
    /\ at = "place"
    /\ local' = [local EXCEPT ![Content[hand]] = "good"]
    /\ writable' = writable \cup {Content[hand]}
    /\ at' = "seal"
    /\ UNCHANGED <<archive, run, hand, failing, notes, rows, ended, faults>>

\* publish_file: the staged copy goes to the address of its own checksum; what
\* lies there already is checked and used as it is.
Place ==
    /\ at = "place"
    /\ CASE local[Content[hand]] = "bad" ->
              Fails /\ UNCHANGED <<local, writable>>
         [] local[Content[hand]] = "good" ->
              at' = "note" /\ UNCHANGED <<local, writable, hand, failing>>
         [] local[Content[hand]] = "absent" ->
              /\ local' = [local EXCEPT ![Content[hand]] = "good"]
              /\ writable' = writable \cup {Content[hand]}
              /\ at' = "seal"
              /\ UNCHANGED <<hand, failing>>
    /\ UNCHANGED <<archive, run, notes, rows, ended, faults>>

Seal ==
    /\ at = "seal"
    /\ writable' = writable \ {Content[hand]}
    /\ at' = "note"
    /\ UNCHANGED <<vars, run, hand, failing, notes, rows, ended, faults>>

\* Seeded fault: the row comes before the record.
Note_RowFirst ==
    /\ at = "note"
    /\ rows' = rows \cup {hand}
    /\ at' = "row"
    /\ UNCHANGED <<vars, run, hand, failing, writable, notes, ended, faults>>

Note ==
    /\ at = "note"
    /\ notes' = notes \cup {hand}
    /\ at' = "row"
    /\ UNCHANGED <<vars, run, hand, failing, writable, rows, ended, faults>>

\* Seeded fault: one operation for all artifacts of a route.
AddRow_OnePerRoute ==
    /\ at = "row"
    /\ rows' = rows \cup {hand}
    /\ IF hand \in Ops /\ \A o \in Ops : opState[o] = "NONE"
         THEN at' = "intend" /\ UNCHANGED hand
         ELSE Returned
    /\ UNCHANGED <<vars, run, failing, writable, notes, ended, faults>>

AddRow ==
    /\ at = "row"
    /\ rows' = rows \cup {hand}
    /\ IF hand \in Ops THEN at' = "intend" /\ UNCHANGED hand ELSE Returned
    /\ UNCHANGED <<vars, run, failing, writable, notes, ended, faults>>

Intend ==
    /\ at = "intend"
    /\ Enqueue(hand)
    /\ Returned
    /\ UNCHANGED <<run, failing, records, ended, faults>>

Commit ==
    /\ at = "verdict"
    /\ ended' = [ended EXCEPT ![run] = IF failing THEN "failed" ELSE "verdict"]
    /\ at' = "idle" /\ hand' = 0 /\ failing' = FALSE
    /\ UNCHANGED <<vars, run, records, faults>>

\* The exception path is over without having closed the attempt.
Leaves == at' = "idle" /\ hand' = 0 /\ failing' = FALSE

\* A file operation or a transaction raises.  In the exception path neither the
\* diagnostic, written before its record is published, nor the transaction that
\* closes the attempt is guarded: such an exception leaves run_one.
Raises ==
    /\ at # "idle" /\ faults < FaultBound
    /\ faults' = faults + 1
    /\ \/ ~(failing /\ at = "verdict") /\ Fails
       \/ failing /\ at \in {"place", "verdict"} /\ Leaves
    /\ UNCHANGED <<vars, run, records, ended>>

PublisherDies ==
    /\ at # "idle" /\ faults < FaultBound
    /\ faults' = faults + 1
    /\ Leaves
    /\ UNCHANGED <<vars, run, records, ended>>

Publishes ==
    Place \/ Seal \/ Note \/ AddRow \/ Intend \/ Commit \/ Raises

\* The archive beside it; the agent drains only between its runs.
Archives ==
    /\ Archiving
    /\ at # "idle" => pc'[Agent] = pc[Agent]
    /\ UNCHANGED publisher

PublicationNext ==
    (\E r \in Runs : Begin(r)) \/ Publishes \/ PublisherDies \/ Archives

PublicationSpec == PublicationInit /\ [][PublicationNext]_pvars

\* As ArchiveOps.Fairness; a run in hand goes on.
PublicationFairness ==
    /\ WF_pvars(Publishes)
    /\ \A d \in Drainers : WF_pvars(Drain(d) /\ UNCHANGED publisher)
    /\ WF_pvars(at = "idle" /\ Recover(Agent) /\ UNCHANGED publisher)
    /\ \A o \in Ops : WF_pvars(~Held(o) /\ LeaseExpires(o) /\ UNCHANGED publisher)

FairPublicationSpec == PublicationSpec /\ PublicationFairness

-----------------------------------------------------------------------------
(* The type of every variable: the publisher holds an artifact of the run  *)
(* in hand, and the agent drains nothing while it does.                    *)
PublicationTypeOK ==
    /\ TypeOK
    /\ run \in Runs \cup {0} /\ at \in Stages /\ failing \in BOOLEAN
    /\ writable \subseteq Blobs /\ notes \subseteq Artifacts /\ rows \subseteq Artifacts
    /\ ended \in [Runs -> Endings]
    /\ faults \in 0..FaultBound
    /\ IF at = "idle"
         THEN hand = 0 /\ ~failing
         ELSE /\ run \in Runs /\ pc[Agent] = "off" /\ ended[run] = "open"
              /\ hand \in IF failing THEN {FailureRecord[run]} ELSE Of[run]

(* A row of the artifacts table always has what it names behind it: the    *)
(* provenance record, and a file at the content address, if perhaps one    *)
(* damaged since.  publish writes it last, so that an exception or a death *)
(* leaves a file or a record without a row, and never the reverse.         *)
RowsAreBacked ==
    \A n \in rows : n \in notes /\ local[Content[n]] # "absent"

(* README.md calls the local artifacts immutable.  publish_file makes only *)
(* a file read-only that it placed itself: one left writable by a death or *)
(* an exception behind os.replace is published as it is by the next run.   *)
(* There are no others: each is paid for by one of those.                  *)
PublishedIsReadOnly ==
    Cardinality({b \in writable : \E n \in rows : Content[n] = b}) <= faults

\* archive_rollup of the operations of a job.
Rollup(j) ==
    LET found == {opState[o] : o \in {p \in Ops :
                     opState[p] # "NONE" /\ \E r \in Runs :
                        JobOf[r] = j /\ p \in Of[r] \cup {FailureRecord[r]}}}
    IN  CASE found = {} -> "NOT_REQUESTED"
          [] found = {"SUCCEEDED"} -> "COMPLETE"
          [] "FAILED" \in found -> "FAILED"
          [] "FAILED" \notin found /\ "BLOCKED" \in found -> "BLOCKED"
          [] found \intersect {"FAILED", "BLOCKED"} = {} /\ "EXECUTING" \in found ->
                "EXECUTING"
          [] OTHER -> "PENDING"

(* show and verify say COMPLETE of a job only when every artifact of an    *)
(* archived role that belongs to a committed verdict lies intact on the    *)
(* share.  The rollup sees operations, not artifacts: it is right because  *)
(* the verdict commits only after the last of them was queued.             *)
CompleteIsArchived ==
    \A r \in Runs :
        ended[r] = "verdict" /\ Rollup(JobOf[r]) = "COMPLETE" =>
            \A o \in Ops \intersect Of[r] : nas[Blob[o]] = "good"

(* The archive sees of all this that an operation appears, about a file    *)
(* that was published: what ArchiveOps promises holds here too.            *)
Promise == INSTANCE ArchiveOps
    WITH local <- [b \in Blobs |-> IF local[b] = "absent" THEN "good" ELSE local[b]]

ImplementsArchive == Promise!Spec

=============================================================================
