# A verification development for MECar-ANSYS

TLA+ models, model-checking runs and machine-checked proofs for the parts of this repository
that coordinate: the analysis queue and its dispatcher, the resource gate, the publication of
artifacts and their archive, the SMTP outbox, the persistent agent, the Hot Folder intake, the
Fluent 2D case runner and the session of the MCP server. `AU` below is
`automation/src/mecar_automation`, `FL` is `fluent-2d-runner/src/mecar_fluent2d`, `MC` is
`mcp-server/src/ansys_mcp_server`.

    tlc -workers 2 -config queue_disciplined.cfg MC_JobQueue     # one run
    tlapm JobQueueProofs.tla                                     # the proofs of one module

`PROJECT.json` lists every run with its module and cfg, the source lines each definition
stands for, the hazards with the properties that cover them, the seeded faults that show that
each property can fail, and the theorems.

## 1. Inventory

| Component | State it keeps | Operations | Interacts with |
| --- | --- | --- | --- |
| Queue (`AU/db.py`) | append-only tables: jobs, attempts, transitions of both, pause flag, events, artifacts, archive and outbox rows | create_job, claim_next, record_attempt_pid, finish_attempt, defer_attempt_for_resources, request_cancel, retry, set_paused, reconcile_stale | everything else; each method is one `BEGIN IMMEDIATE` transaction |
| Dispatcher (`AU/engine.py`, `AU/cli.py`) | the claimed attempt, process result, verdict | run_one with its three ways out, drain_jobs, the cycle | queue, supervisor, publisher; holds the dispatcher file lock |
| Supervisor (`AU/supervisor.py`) | the child process; available cpu, memory, licenses | Popen, pid callback, polling for cancel and timeout, kill; reserve | operating system, queue (callbacks), gate |
| Publisher and archive (`AU/artifacts.py`) | local blobs, files on the share, archive operations | publish, drain, reconcile_archives, archive-retry | queue; also run by the `archive` command without the lock |
| Outbox (`AU/notifications.py`) | messages and deliveries | claim_outbox, send, record, reconcile_outbox | SMTP relay |
| Agent (`AU/agent.py`, `AU/health.py`) | stop marker, status file, stop event | run, agent-stop, signals, health | dispatcher lock, the cycle |
| Hot Folder (`AU/ingest.py`) | files in incoming, accepted, quarantine, receipts | scan | producers, queue |
| Fluent 2D runner (`FL/runner.py`, `FL/gates.py`) | one directory per case: artifacts, report, case.lock | run, prepare, sweep | the Fluent process |
| Fluent 2D sweep generation, mesh, journals, parser (`FL`) | files | generation of inputs, parsing of outputs | runner |
| MCP server (`MC/backend.py`, `MC/server.py`) | one MAPDL session, the analysis of the last solve, Workbench processes | launch, exit, solve, live_smoke, run_apdl, mesh, post-process, export, Workbench | MAPDL, Workbench |
| License probe, validation, adapters, scripts | none, or per call | lmutil call, schema checks, command lines | dispatcher |

What is hard: several operating-system processes (agent, `drain`, `archive`, operator
commands) write the same SQLite file; the dispatcher may die between any two transactions
while its solver, in a session of its own, goes on; leases expire under their holders; files
shared without a lock (stop marker, status, case directories, Hot Folder) are read, moved and
deleted step by step; mail and network storage fail half way; what the MCP server remembers of a
solve outlives the session that solved it. `PROJECT.json` lists
these hazards at their lines.

What makes each component correct, in a sentence: a job is solved by one attempt at a time and
every attempt gets exactly one fate (queue); what was reserved is returned, once (gate); a row
has its file and its record behind it, and a job is called archived when its artifacts are
(publication); what is recorded as archived is intact on the share, and stays recorded (archive);
mail is
delivered at least once and settles (outbox); one dispatcher, and a stop request ends it after
its cycle (agent); no submission is lost and the accepted folder agrees with the queue (Hot
Folder); an engineering pass rests on files of its own run (Fluent runner); a scalar comes from
a result of the connected session, of a kind it makes sense for (MCP server).

## 2. Modules

| Module | Models | Abstracts |
| --- | --- | --- |
| `AnalysisLedger` | what the queue promises of an analysis: six states of a job, one open attempt, fates | dispatcher, processes, transactions |
| `JobQueue` | `db.py`, `engine.py`, `supervisor.py`, operator commands | adapters (pass, fail, raise), manifests, publication (one step for the artifacts of an outcome) |
| `MC_JobQueue` | the retry discipline of the manuals | |
| `JobQueueProofs` | theorems about `JobQueue` and the ledger | |
| `ResourceGate`, `MC_ResourceGate`, `ResourceGateProofs` | `ResourceGate.reserve` and its threads | clock: a deadline passes |
| `ArchiveOps`, `MC_ArchiveOps`, `ArchiveProofs` | archive operations, drainers, share | contents: good or bad |
| `Publication`, `MC_Publication`, `ArchiveProofs` | the steps of `ArtifactPublisher.publish` over the artifacts of several runs, beside the archive; implements `ArchiveOps` | contents: which artifacts are equal |
| `Mailbox` | what the outbox promises of a message: one final result, copies and their acceptances | rows, leases, batches, processes |
| `Outbox`, `OutboxProofs` | deliveries, leases, `send` and its except clauses | contents; the relay accepts or raises one of nine faults |
| `AgentLoop`, `AgentLoopProofs` | `AgentLoop.run`, agent-stop, health | the work of a cycle |
| `Intake` | what the Hot Folder promises of a manifest: registered for ever, decided once, confirmed when accepted | markers, ages, stages, scans |
| `HotFolder`, `MC_HotFolder`, `HotFolderProofs` | producers, `scan`, receipts, quarantine | contents: equal iff their hashes are |
| `MapdlSession`, `MC_MapdlSession`, `MapdlSessionProofs` | `MC/backend.py` behind the tools of `MC/server.py` | model, units, values; a result set is known by its launch and its analysis |
| `Dossier` | what a case directory promises its reader: pieces of one call, a verdict about what lies there, sealed until emptied | runners, solvers, locks, phases |
| `Fluent2DCase`, `MC_Fluent2D`, `Fluent2DProofs` | `run_case`, resume check, lock, phases, extension, report | numbers: the gates are a choice; contents: the phase that wrote a file |

**JobQueue.** `jobState`, `lastAttempt`, `attemptState`, `pidKnown` are the latest rows of the
transition tables, and `pidRow` says which attempts ever had a pid recorded; `solver` is the process
table; `abandoned` collects the attempts whose supervision raised while their process ran;
`evidence` and `intents` are the artifact and outbox rows of an attempt. The dispatcher's program
counter `pc` names the point between two transactions where it is, from `scan` (reconcile) over
`drain` and `claim` to the steps of `run_one`. Each transaction is one action: `Claim`, `RecordPid`,
`Finish`, `Defer`, `Reconcile`, and so on. For each call that may raise there is an action that
takes the exception path of the code instead (`FinishRefused`, `PublishRaises`, `DiagnosticRaises`,
`SupervisionRaises`, ...). `DispatcherDies` is enabled everywhere and keeps the tables and the
solver; `Reboot` also ends all processes. An operating-system event like a death has no lines in the
code and is marked external. Operators (`Submit`, `RequestCancel`, `Retry`, `SetPaused`) are enabled
whenever the transition table allows their command; `RetryFrom` says in which states operators issue
`retry`.

**AnalysisLedger** is the abstract specification. `JobQueue` implements it
(`ImplementsLedger`) under the mapping `StatusOf`, `FateOf`: RUNNING and CANCEL_REQUESTED are
one abstract state "solving", and everything the dispatcher does between a claim and a verdict
is a stutter.

**ArchiveOps.** An operation has its latest row, the number of its claims and the state of its local
file and of its destination; a drainer has the batch it claimed, the attempt number it claimed with
and the operation in hand (check, copy, verify, record). A drain step may end in an `OSError`
(`IoError`: RETRY or, at the limit, FAILED) or in any other exception (`Defect`: FAILED at once);
the destination is read back after a copy (`VerifyCopy`) and may turn out different from the
receipt. `LeaseExpires` lets `stale_after_sec` pass, also under a slow drainer (`SlowBound`). The
agent and the `archive` command differ only in that the first starts again and again and the second
need not. Operations may share a blob, and may appear while drainers run (`Enqueue`); `DamageBound`
bounds how many local files and destinations are damaged from outside.

**Publication** extends `ArchiveOps` by the other side. A run goes through its artifacts one by one:
`Place` (stage, `os.replace` to the content address, or reuse of what lies there), `Seal` (chmod),
`Note` (provenance record), `AddRow`, `Intend` (`create_archive_operation`, a transaction of its
own, for roles the route includes), and then `Commit` of the verdict. Each of them may raise, which
sends `run_one` to its exception path (`Fails`: it publishes a failure record and closes the
attempt), and the agent may die between any two. When the diagnostic write of that path raises in
its turn, the exception leaves `run_one` (`Leaves`) and the attempt stays open. The agent drains
only when it has no run in hand, an `archive` command at any time (`Archives`). `Rollup` is
`archive_rollup`. The module implements `ArchiveOps` (`ImplementsArchive`) under the mapping that
shows a file not yet placed as good: the archive meets a file only through an operation, and
operations appear behind their file.

**Outbox.** One process at a time (the dispatcher lock) leases a batch, sends message by message
and records each result. `send` is modelled by what its except clauses make of each fault, in
their order. A fault may come before or after the relay took the message.

**Mailbox** is what a reader of the outbox may rely on. `Outbox` implements it (`ImplementsMailbox`)
under `ResultOf`: a message without a row is "none", a settled one is its latest row, PENDING,
EXECUTING and RETRY are all "open"; `taken` is `copies` and `unheard` is `doubts`. Leases, batches,
their expiry and requeues stutter; recording RETRY behind an acceptance, or dying on one, is
`Lose`. That a message may be taken again after its acceptance was lost is at-least-once delivery
(`automation/docs/PRD.md:925`); FR-MAIL-033 of the same document forbids it (section 6).

**ResourceGate.** A reservation is refused for capacity, waits, times out, or is held;
`TakesHalf` is the `KeyError` described in section 6; `lost` counts what it took.

**AgentLoop.** One action per file operation, lock operation and test of `AgentLoop.run`, in the
order of the code. The stop marker and the status file are shared by all processes; `alone`
remembers that no process was started beside another.

**HotFolder.** `stage` follows one pass of the loop in `scan`: read, submit, two moves,
receipt, or the quarantine of the error paths. Every file operation may fail, and the process
may die between two. A committed file becomes stable when it is old enough and not empty (`Ages`,
`Stable`); an empty one is deferred at every scan. The quarantine of a refused pair is three
steps: the manifest, the marker, the receipt. Reading the size and age of a file raises outside the
`try` and ends the scan (`ScanRaises`).

**Intake** is the folder as a desk: a manifest is handed in, registered if it is the first valid one
of its submission, and leaves for one of two places. `HotFolder` implements it (`ImplementsIntake`)
with the files of incoming/ as what waits, the queue's frozen manifests as the register and the
receipts as confirmations; markers, ages, reads, deferrals, failing calls and deaths stutter.

**Fluent2DCase.** A call checks the report and the artifacts without the lock (`CheckReport`,
`LookFor`, `Hash`), then takes `case.lock` or is refused, cleans one artifact after the other,
builds, runs phases, judges, extends, writes the report twice and releases. A solver writes any
artifact at any time until it exits or is killed, and survives the death of its runner. Writing the
lock, or the last cleaning before it is freed, may raise and leave it behind (`LeavesLock`).
Deleting the images before an extension is one step. The models require all artifacts, as the
shipped manifests do.

**Dossier** is the directory as its reader sees it: `pieces` with the phase that wrote each, and a
`verdict`. `Fluent2DCase` implements it (`ImplementsDossier`) with `disk` and `report` as they are,
and is emptied piece by piece (`Discard`); the lock, hashes, phase bookkeeping, solver exits and
deaths stutter. The marks a piece may bear end at `hardMaximum`, so a run past it would be no step
of the dossier.

**MapdlSession.** What a method does under the lock of the backend is one step; storing the result of a
solve (`Store`) and testing it before a read (`CheckType`) happen outside the lock and are steps of
their own. FastMCP runs synchronous tools one after the other, so the server is the model with one
caller; with two it is the backend as its lock means it to be used. Every launch has a directory
of its own (`launch-<uuid>`), where its result sets lie. `lastResult` survives exit, launch and
failed solves, as in the code; `excuses` collects what may then part it from the sets on the disk
(a solve that raised behind its results, raw commands, overlapping calls) until the next solve that
returns. MAPDL may end by itself, a call may raise with its process alive, the server may be killed. A raising
`live_smoke` may leave a result set or none. A Workbench call whose `communicate` or `taskkill` raises
removes its journal and leaves its process (`WorkbenchRaises`, counted by `cut`).

The modules meet at interfaces and are not multiplied into one state space: `JobQueue`
sees of the gate whether it let the attempt in, of the publisher whether it raised, and of the
Hot Folder the action `Submit`; `Outbox` starts from the intents that `JobQueue`'s `Finish` creates
(`QueueIntent`). Publication and archive are composed, because rows, files and rollup are shared
between them. What happens later to archive and mail rows never changes a job, which is a comment
in `ArchiveDrainer` and visible in its code.

## 3. Runs

| Run | Shows | Instance |
| --- | --- | --- |
| `queue_disciplined` | tables agree, no legal end is ever refused to `run_one`, a live solver with a recorded pid belongs to the newest attempt of an active job, unless its supervision raised, deaths and raising supervisions alone add concurrent solvers, attempts are budgeted, reconcile is complete, success is exclusive, a verdict has its report, ended attempts are frozen, ledger is implemented | 1 job, 3 attempts, 2 deaths, 1 retry, raising calls |
| `queue_two_jobs` | the same count of concurrent solvers, across jobs; attempts settle, the queue drains | 2 jobs, 2 deaths |
| `archive_safety` | archived is verified, attempts are budgeted, one drainer per operation and one more per stale requeue | 2 operations in one batch, 2 drainers, 1 expiry, 1 death, 1 archive-retry |
| `publication` | rows have their file and record, blobs are read-only but for interrupted publications, COMPLETE means archived, `ArchiveOps` is implemented, every operation settles | 2 runs of one job, 6 artifacts of which 2 share a blob and 2 are archived, 1 fault, 1 death of a drainer, 1 damaged file |
| `outbox` | at-least-once with every further copy paid for by a relay fault or a death; the mailbox is implemented; every intent settles | 3 messages, batches of 2, 1 fault, 1 death |
| `gate` | available + held = capacity, but for what a KeyError took; every wait ends | 3 threads, 6 kinds of request |
| `agent` | one dispatcher; health is truthful and the marker honoured for an agent alone | 2 processes, 3 starts, 2 stops, 1 death |
| `folder` | nothing lost, the intake is implemented, every committed drop that is not empty is consumed | 2 names, 3 drops, 2 failures, 1 death |
| `fluent` | evidence is of its own run, one solver, the dossier is implemented (iterations bounded among it), a completed case is skipped by a call nobody ran beside | 2 runners, 2 manifests, 3 calls, 1 death; runners are interchangeable and taken as symmetric |
| `mapdl` | scalars are of the connected session and, but for named excuses, of a generic analysis; no process is forgotten but by a raising call or a death | 2 callers, 2 launches, 1 death, 2 Workbench calls |

`queue_pid_window` and `outbox_transient` are expected to end in a counterexample: see section 6.

**Bounds.** Every bound is a CONSTANT whose name ends in `Bound` and stands in a guard; the
rest (`MaxAttempts`, `Limit`, `Chunk`, ...) are parameters of the code. Two attempts
allowed and three possible let an attempt be the first, the last and one beyond the limit; two
deaths let a recovery itself be interrupted; two actors are needed for a race and a
third adds no new pair of steps to these protocols, whose shared state is one row, one file or
one lock; three threads and two cpus let one or two holders keep a waiter out; three messages in
batches of two leave one for a second batch. The Fluent instance
requests 2, extends by 2 and stops at 5, so that the last extension is shorter than a chunk.
`MaxAttempts = AttemptBound = 1` in the two-job run because the instance is about several jobs:
retries are covered by the one-job run. That one lets operators retry closed jobs only
(`ClosedStates`); what holds under `retry` in any state is proved, for every `RetryFrom`, by the
theorems of section 4 without `DisciplinedRetry`. In `publication` the first run may leave a file
writable, or a row without its operation, which the second, publishing the same content,
meets; an artifact of each is archived, so that a rollup counts operations of both.
In `mapdl` two launches give a session that follows another, with the first's results still on the
disk, and two callers every overlap of two calls.

**Deadlock.** `gate` and `outbox` check it. The others say `CHECK_DEADLOCK FALSE`
because the system may stop there: nobody need submit, call, start or drop anything, and
bounded attempts, starts, drops and calls run out.

**Fairness.** Safety runs use `Spec`, without any. The liveness runs assume weak fairness of

- the dispatcher being restarted (it is a scheduled task), of its cycle and of `run_one`: a
  process that runs takes its next step, and the polling loop leaves at the latest by its
  timeout; of a started drain, of a started agent, and of the scan;
- in `publication`, a run in hand going on, drains going on, and the recovery of stale operations
  by the agent when it has no run in hand, as its cycle does;
- time: leases expire, deadlines pass, files become older than `stable_seconds`.

Nothing is assumed of operators, producers, solver exits, the relay, the share or deaths; their
number is bounded, which stands for "faults stop eventually" in the liveness runs.
`QueueDrains` supposes in its statement that the queue stays resumed, and `AttemptsSettle` excepts a
solver that outlived its dispatcher: no code supervises it.

## 4. Proofs

The theorems hold for every value of the constants that the ASSUMEs of the modules admit. Beyond
those, only `DisciplinedRetry` and `AllConfigured` are assumed, and only where the table says so.

| Theorem | Assumes | Says |
| --- | --- | --- |
| `QueueTypeOK` | | type correctness |
| `QueueSuccessIsFinal` | | nothing of a job that succeeded changes any more |
| `QueueEndsAreLegal` | `DisciplinedRetry` | the pid, the verdict and the failure of the attempt in hand can be committed at every point of `run_one` |
| `QueueActive` | | an active job has a RUNNING newest attempt |
| `QueueSuccess` | | success is exclusive and belongs to the newest attempt |
| `QueueVerdictHasReport` | | no verdict but FAILED, and no mail, without its report |
| `QueueWaitIsClean` | | an attempt that waits for resources started and published nothing |
| `QueueEndedAreFrozen` | | nothing changes an attempt that has ended |
| `QueueAttemptsMatch` | `DisciplinedRetry` | job and attempt tables agree |
| `QueueAttemptBudget` | `DisciplinedRetry` | attempts beyond `max_attempts` were paid for by retries |
| `QueueSolverConcurrency` | | live solvers beyond the supervised one are bounded by the deaths and the supervisions that raised |
| `QueueReconcileComplete` | `DisciplinedRetry` | reconcile skips nothing |
| `QueueRecordedSolver` | `DisciplinedRetry` | a live recorded solver belongs to the newest attempt of an active job, or to a FAILED one whose supervision raised |
| `QueueImplementsLedger` | `DisciplinedRetry` | `JobQueue` implements `AnalysisLedger` |
| `ArchiveTypeOK`, `ArchiveVerified`, `ArchiveFinal` | | what is recorded as archived is intact on the share and stays archived |
| `ArchiveLeases` | | two drainers are at one operation only where a lease expired in between |
| `ArchiveBudget` | | claims beyond `max_attempts` were paid for by stale requeues or archive-retries |
| `PublicationTyped`, `RowsBacked`, `PublishedReadOnly` | | rows have file and record; a published writable blob needs a fault |
| `CompleteArchived` | | the rollup of a committed verdict says COMPLETE only of intact archived artifacts |
| `PublicationImplementsArchive` | | publication beside the archive implements `ArchiveOps` |
| `OutboxTypeOK`, `OutboxCopies`, `OutboxSettledIsFinal` | | a further copy needs a lost acceptance, and each loss a relay fault or a death; settled is final |
| `OutboxImplementsMailbox` | | `Outbox` implements `Mailbox` |
| `OutboxBatches` | | a batch has at most `Limit` messages, however many wait |
| `GateTypeOK`, `GateConservation` | | no amount falls below zero; available, held and lost add up to the capacity |
| `GateWhole` | every requested feature is configured | available and held alone add up, and threads never hold more than there is |
| `AgentTypeOK`, `AgentSingleDispatcher`, `AgentHealthIsTruthful` | | one dispatcher; health is truthful of an agent alone |
| `AgentKeepsStop` | | a stop request stays until the lone agent it reached leaves its loop, and no cycle begins under it |
| `FolderTypeOK`, `FolderLosesNothing`, `FolderAcceptsTheFrozen` | | no drop is lost; accepted/ agrees with the queue |
| `FolderImplementsIntake` | | `HotFolder` implements `Intake` |
| `FluentTypeOK`, `FluentOneSolver`, `FluentEvidence` | | one solver per directory; a pass rests on files of its own run |
| `FluentSkips` | | a call with resume that nobody ran beside empties no completed directory |
| `FluentImplementsDossier` | | `Fluent2DCase` implements `Dossier` |
| `MapdlTypeOK`, `ScalarsOfSession`, `ScalarsGeneric`, `ProcessesAccounted` | | scalars are of the session and, without an excuse, of a generic analysis; no process is forgotten but by a raising call or a death |

The assumptions on constants are weak. `QueueAssumption`, `AgentAssumption`, `ArchiveAssumption`,
`OutboxAssumption`, `FolderAssumption`, `SessionAssumption` and `BoundAssumption` say that limits
and bounds are natural numbers, that rows and directory entries are ordered like numbers, and that
the markers for "nobody" and "nothing" are no members of the sets they stand beside.
`PublicationAssumption` says that no artifact belongs to two runs, that archived artifacts have the
blob of their content, and that runs are numbered. `IterationsAssumption` is the schema of the
manifest, with the requested iterations within the maximum, which validation enforces;
`FileAssumption` that the marker for an absent file is no report. `GateAssumption` says that the
threads of the process are finitely many, that capacities and requests are natural amounts, and that
a feature is configured or not; `AllConfigured` that no request names one that is not, which
validation does not check. `DisciplinedRetry` says that operators do not retry active jobs: the code
does not enforce it, and without it its theorems fail (section 6).

**Queue.** The argument is a ladder of inductive invariants. `WorkerInv` adds to the type invariant
what a dispatcher inside `run_one` may rely on: it holds the newest attempt of its job, and that
attempt is RUNNING (`HoldsNewest`), and the outcome it carries is one its program point allows
(`OutcomeReady`). Without it `Finish` would not know which row it closes. `ActiveInv` adds
`ActiveJobHasAttempt` and `SuccessIsExclusive`, inductive even with undisciplined retries because a
retry never touches attempts. `MatchInv` adds the converse (a RUNNING attempt makes its job active,
and a dispatcher's job is active), the budget, and that an unsubmitted job has no attempt.
`ProcessInv` adds the process table, which knows more than the dispatcher: a recorded pid stays in
its attempt (`PidsStay`), and the attempt in hand has no recorded pid before `RecordPid` and no live
process once supervision has returned (`InHand`). Processes only appear through `Spawn` and
otherwise dwindle; an attempt leaves RUNNING with a recorded process alive only on the way out of a
supervision that raised, which is when `abandoned` grows. The lemmas `TableSteps`, `Conclusion`,
`Recovery` and `ProcessSteps` reduce the thirty actions to the four ways the tables can change.

`EvidenceInv` adds to `WorkerInv` what `run_one` has published and started at each of its steps
(`WorkIsClean`), and that an attempt number not claimed yet has left nothing anywhere
(`UnclaimedIsFresh`): otherwise a claim could inherit a report. It needs no discipline.

`ConcurrencyInv` counts the `Orphans`, live solvers that are not the supervised one: only
`DispatcherDies` and `SupervisionRaises` make one of the supervised solver (`Bereft`), and each makes at most
one, so that they are no more than `crashes` and the members of `abandoned`. A retry of a
running job cannot add one, since the dispatcher supervises one solver whatever the tables say.

`QueueEndsAreLegal` is `MatchInv` at work: inside `run_one` the attempt in hand is RUNNING and its job
active, and from both active states the table leads to every verdict, so that a cancel that comes
in at any moment refuses nothing but a deferral. `QueueSuccessIsFinal` needs `ActiveInv` only: when
a job has succeeded, so has its newest attempt, and a dispatcher in `run_one` holds a newest attempt
that has not.

The refinement uses `MatchInv`: the mapping reads the fate of an attempt from its row and the
state of the analysis from the job row, and the two change in one transaction, so that each is
one ledger step exactly because the tables agree. All actions but claim, finish, defer,
reconcile, submit, cancel and retry stutter.

**Archive.** `ArchiveInv` adds `ReceiptIsOnShare`: a drainer that holds a good receipt, or a success
made from it, works on an operation whose blob is on the share. The share only grows
(`ShareOnlyGrows`), since a copy never replaces an existing blob and an operator only removes a
damaged one; so a receipt stays true however long its holder sleeps and whoever took its lease.
`ArchiveFinal` needs no lease either: the append to the history checks the transition table.
`ArchiveLeases` counts per operation the drainers that hold it against the claims that were stolen:
a claim is only possible on an operation nobody was granted since, so each holder but one was robbed.
`ArchiveBudget` cannot count claims alone, since a late RETRY of a robbed drainer reopens a
FAILED operation. `BudgetKept` adds to the claims made the one that is due (`ClaimDue`) and the
`Chances`, the attempt numbers below the limit that may still come back as RETRY because no claim
has used them yet or a drainer still holds them. Claims use numbers up; only stale requeues and
archive-retries, which are counted, can make a claim due without one (`NumbersAreOwn`).

**Publication.** `HandIsReady` says what each step may rely on (the file is in place from `seal` on, the
record written from `row` on); `QueuedIsPlaced` that an operation was never queued before its file,
which is why the refinement may show absent files as good; `VerdictHasIntents` that a run that is
to commit, or did, has an operation for each artifact of an archived role, which makes the
rollup over operations a statement about artifacts; `ForgottenIsPaid` that each blob left writable
cost a fault. `ArchiveInv` is carried along: every step of the archive is one of `ArchiveOps`, and the
publisher adds files and operations only. `CompleteArchived` takes from it that SUCCEEDED is intact.

**Outbox.** `record_outbox_delivery` checks nothing, so `SettledIsFinal` rests on `BatchIsLeased`: what
a process has in hand is EXECUTING, because only one that holds the dispatcher lock requeues
leases. `CopiesFollow` splits `CopiesAreAccountedFor` by what is known of a message: unsettled
and not in doubt, it has no more copies than acceptances lost; settled, at most one more. The lost
acceptances of all messages are at most the relay faults and deaths so far: what loses one is
one of these. The
refinement needs the equality: `MailKept` says that the copies of an unsettled message are its
doubts and the acceptance in hand, and that SENT is about to be recorded only behind an acceptance.
`OutboxBatches` counts: a message in a batch has fewer than `Limit` waiting before it, and the number
of these tells the messages of a batch apart, so that the batch fits into `0..Limit-1`, also when
the messages that may ever exist are infinitely many.

**Gate.** What threads hold of a key is a set of units, one per thread and unit, so that `Held` is a
cardinality and no sum over threads has to be taken by induction. An entry adds the units of one
thread, a leave removes them, every other step leaves them (`HeldGrows`, `HeldShrinks`, `HeldStays`);
what `Fits` compares is what is there (`FitsIsThere`), which is why no amount falls below zero.

**Agent.** `LockIsHeld` ties the lock to the program points between acquisition and release;
`PidsAreIssued`, `AloneIsAlone` and `StatusFollows` say whose start the status file describes, and
with what state, as long as nobody was started beside. `AgentKeepsStop` is the safety half of
`StopIsHonoured`: only a process that starts or ends unlinks the marker, and beside an agent alone
there is none.

**Hot Folder.** `ScanKnows`: between read and moves, the manifest in memory is the one under the
name in hand, and from the submission on the queue has frozen it for its id. Producers
never touch a committed pair, which is what the ready marker is for. For the refinement
`MovedIsAccepted` adds that a scan about to move the marker or to write a receipt has its file in
accepted/.

**Fluent.** `FluentInv` says what the holder of `case.lock` may rely on: calls have their
arguments (`CallHasJob`), a solver in the directory belongs to the holder or to the dead runner
whose lock it is (`SolverIsOfHolder`), no report of an earlier run survives from the cleaning
on (`NoOldReport`), and every file present was written by this run, pictures by its last phase
(`FilesAreOwn`). `SkipInv` adds that a call nobody ran beside is still alone (`AloneIsAlone`), and
that therefore the report it compares is the one that lies there (`CheckIsCurrent`). The refinement
adds to `FluentInv` that a solver, an orphaned one too, finds only files of its own run and pictures
of its own phase (`SolverFindsOwn`), and that a report about to get its checksums has none
(`SealIsOnce`).

**MapdlSession.** `Alone` says that without the excuse "overlap" at most one call is in progress;
`DirectoriesAreOwn` that the sets in a directory were written by the launch it belongs to, which is
`ScalarsAreOfSession`; `ToStore` that a solve about to be stored is the set on the disk, and `Refused`
that a set of an analysis that is not generic, without an excuse, is what `lastResult` names, so
that the check before a read refuses it.

## 5. What is only model-checked, and what is not modelled

Model-checked only: the liveness properties (`AttemptsSettle`, `QueueDrains`, `ArchiveSettles`,
`IntentSettles`, `WaitEnds`, `StopIsHonoured`, `DropIsConsumed`), since fairness and ENABLED are
beyond the prover. Every safety property that a passing run checks is also a theorem. The type
invariants of queue, archive, publication, outbox, agent, Hot Folder, Fluent runner and MCP session
are proved and not listed in a run.

Not modelled, and why:

- the numbers: mesh, journals, transcripts, gates and the maxima of the MCP server. Their outcomes are
  choices of the models; what they compute is arithmetic and text without steps;
- sweep generation (`FL/sweep.py`): one pass over a grid without state between calls, whose content is
  the formatting of numbers; a sweep itself is a sequence of calls of the modelled runner;
- command lines and output parsing of adapters, schema and path checks, reporting: data without
  state; their verdicts (valid, raises, passes, fails) are choices or sets of the models;
- the license probe: one call of lmutil with a timeout whose result is shown and decides nothing;
- installation scripts: their effect is that an agent is started again, an action of `AgentLoop`.

The process probe is taken as exact: a pid reused by another process, and what signal 0 does on
Windows, are outside the models. SQLite is taken at its word: a transaction is atomic and durable.
Killing a process tree is one step that succeeds. Three things are left out and the properties
say nothing of them: raw APDL that re-points the result file (`/FILENAME`, `FILE`, `/CWD`); an exception
other than the timeout out of `process.wait` of the Fluent runner (section 6); an `exit()` of MAPDL
that returns although the process goes on.

## 6. Findings

Two runs end with a counterexample to a sentence of the documentation, and one passes by counting what
another sentence forbids. `PROJECT.json` quotes all three.

1. `queue_pid_window`: a death between `Popen` and the commit of the pid leads to a second solver
   beside the first (`AU/supervisor.py:188`).
2. `outbox_transient`: dropped connections and 4xx replies to recipients are PERMANENT
   (`AU/notifications.py:167`).
3. `outbox`: FR-MAIL-033 (`automation/docs/PRD.md:945`) wants a message that the relay took before a crash to
   be UNKNOWN and not sent again blindly. `reconcile_outbox` makes it RETRY and the next drain sends it
   (`AU/db.py:1029`); UNKNOWN does not exist. `CopiesAreAccountedFor` states what the code does give:
   at-least-once delivery with every second copy paid for by a relay fault or a death.

The models contain further disagreements with the documentation, and the properties are stated
so that they hold beside them:

- `retry` of a running job queues it beside its attempt; that attempt then stays RUNNING for ever
  (`AU/db.py:630`). `ReconcileIsComplete` and `AttemptsMatchJobs` are checked and proved for
  operators who do not.
- A call that raises during supervision (the polling for a cancel, the pid callback, the last wait) leaves the
  solver alive, outside the gate, and `run_one` reports its attempt FAILED (`AU/supervisor.py:188`). An
  operator's `retry` then starts a second solver beside a process whose pid is recorded. `abandoned` holds these
  attempts, `RecordedSolverOwnsJob` excepts them and `SolverConcurrency` counts them.
- Terminal transitions outside the regular end of `run_one` queue no mail (`AU/db.py:615`).
- A late OSError of a drainer that lost its lease reopens an operation that another one closed as
  FAILED (`AU/artifacts.py:301`). `ArchivedIsFinal` is about SUCCEEDED only.
- Zero licenses of an unconfigured feature raise KeyError after cpu and memory were taken
  (`AU/supervisor.py:58`): the job fails and the capacity is `lost` in `Conservation`.
- A second agent removes the stop marker before it fails to take the lock (`AU/agent.py:128`),
  and overwrites the status: hence `alone` in `StopIsHonoured` and `HealthIsTruthful`.
- After a death behind the submission the Hot Folder receipt is never written
  (`AU/ingest.py:62`).
- An empty manifest with its ready marker never becomes stable: every scan defers it, and neither
  receipt nor quarantine ever follows (`AU/ingest.py:85`). `DropIsConsumed` is about the others.
- An artifact whose run failed or died between its row and its archive operation is never archived,
  and the rollup, which counts operations, may say COMPLETE without it (`AU/artifacts.py:203`).
  `CompleteIsArchived` is about committed verdicts.
- A death or an exception behind `os.replace` leaves the blob writable, and a later publication of the
  same content uses it as it is (`AU/artifacts.py:140`): hence the count in `PublishedIsReadOnly`.
- A solve that raises after it wrote a result set leaves the last result as it was, so that
  `get_stress` may answer from a modal set although the documentation supports static and transient
  only (`MC/backend.py:203`); raw APDL may do the same: hence `excuses` in `ScalarsAreGeneric`.
- Sweep identifiers truncate heights to whole millimetres and round angles: two grid points may get one
  manifest, while the summary counts two (`FL/sweep.py:14`). The shipped grid does not meet it.
- A dead runner's `case.lock` blocks its case for ever (`FL/runner.py:92`), and so does the lock of a call whose
  last cleaning raises (`FL/runner.py:418`).
- An exception other than the timeout while the runner waits for Fluent, Ctrl-C for one, frees
  `case.lock` with the solver alive (`FL/runner.py:188`), so that the next call could start a second
  one in the directory. The models leave it out: `OneSolver` and `EvidenceIsOwn` are about calls
  that wait to the end, to the timeout, or die.
- The resume check is not repeated under `case.lock`, so a case that another call completes in
  between is emptied and solved again (`FL/runner.py:270`): hence `alone` in `CompletedIsSkipped`.

## 7. Plan

Written in this order, the most important first: the queue with its ledger and proofs, the
archive, the outbox, the gate, the agent, the Hot Folder, the Fluent runner; then publication
with its refinement of the archive, the MCP session, and the proofs of the counting invariants
(`SolverConcurrency`, `LeaseConcurrency`, `ArchiveAttemptBudget`, `CompletedIsSkipped`), of the gate, and of
the abstract specifications of outbox, Hot Folder and case directory. What could come next:

1. A composition of `JobQueue`'s end of a job with `Outbox` and `Publication`, against an
   abstract "delivery" that says what a reader of the database may rely on.
2. `SweepPlan`: grid points, case identifiers and stale manifests of an earlier plan, if the
   identifiers get a definition that is not the formatting of a float.
