---------------------------- MODULE Fluent2DCase ----------------------------
(* One case directory of the Fluent 2D runner (runner.py, run_case) and    *)
(* the calls that race for it: `run` and `prepare`, with and without       *)
(* --no-resume, and the rounds of a sweep.  A call may first skip a        *)
(* completed case; otherwise it takes case.lock, empties the directory,    *)
(* runs the solver, judges what it left, extends the run in chunks, and    *)
(* writes the report twice, the second time with the checksums of the      *)
(* artifacts.                                                              *)
(*                                                                         *)
(* An artifact's contents are the stamp of the solver phase that wrote     *)
(* them: the call, and the iterations completed when that phase ends.  A   *)
(* checksum is the contents.  What the transcript says (exit code, marker, *)
(* diagnostics; mesh, residual, mass, plateau and force gates) is a choice.*)
EXTENDS Integers, FiniteSets

CONSTANTS
    Runners,      \* processes that call run_case
    Manifests,    \* manifests that name this case (one hash each)
    Images,       \* the three PNGs
    Data,         \* the case and data files an extension reads back
    Requested,    \* iterations.warmup + iterations.secondOrder
    Chunk,        \* iterations.extensionChunk
    HardMaximum,  \* iterations.hardMaximum
    AutoExtend,   \* iterations.autoExtend
    Nobody,       \* case.lock does not exist
    Stale,        \* case.lock is left by a call that is over
    NoFile,       \* no such file
    NoJob,        \* a process that runs no case
    CallBound,    \* bound: calls of run_case
    CrashBound    \* bound: processes that die

(* validate_manifest: positive integers, the request within the maximum.   *)
ASSUME IterationsAssumption ==
    /\ {Requested, Chunk, HardMaximum} \subseteq Nat \ {0}
    /\ Requested <= HardMaximum
    /\ AutoExtend \in BOOLEAN
ASSUME NamesAssumption ==
    /\ Images \intersect Data = {}
    /\ {Nobody, Stale} \intersect Runners = {} /\ Nobody # Stale
ASSUME BoundAssumption == {CallBound, CrashBound} \subseteq Nat

VARIABLES
    disk,      \* artifact -> stamp or NoFile
    report,    \* reports/report.json
    lock,      \* case.lock
    solvers,   \* stamps of the solver phases running in the directory
    pc, job,   \* where each call is, and its arguments and local variables
    calls, crashes

vars == <<disk, report, lock, solvers, pc, job, calls, crashes>>

Artifacts == Images \cup Data
Stamps == [call : 1..CallBound, total : 1..HardMaximum]
Reports == [manifest : Manifests, call : 1..CallBound, total : 1..HardMaximum,
            process : BOOLEAN, engineering : BOOLEAN,
            sums : {NoFile} \cup [Artifacts -> Stamps \cup {NoFile}]]
Jobs == [manifest : Manifests, resume : BOOLEAN, prepare : BOOLEAN, call : 0..CallBound,
         total : 0..HardMaximum, seen : {NoFile} \cup Reports, unread : SUBSET Artifacts,
         process : BOOLEAN, engineering : BOOLEAN, alone : BOOLEAN]
\* A report is read as a document or is not there.
ASSUME FileAssumption == NoFile \notin Reports

Stages == {"idle", "check", "verify", "hash", "lock", "clean", "unreport", "mesh",
           "launch", "solve", "judge", "report", "seal", "release"}
Fallible == {"clean", "unreport", "mesh", "launch", "judge", "report", "seal"}

Stamp(r) == [call |-> job[r].call, total |-> job[r].total]
\* alone remembers, for CompletedIsSkipped, that nobody else was at work.
NewJob(m, resume, prepare, call, alone) ==
    [manifest |-> m, resume |-> resume, prepare |-> prepare, call |-> call, total |-> 0,
     seen |-> NoFile, unread |-> {}, process |-> FALSE, engineering |-> FALSE,
     alone |-> alone]

Present == {a \in Artifacts : disk[a] # NoFile}

Init ==
    /\ disk = [a \in Artifacts |-> NoFile]
    /\ report = NoFile
    /\ lock = Nobody
    /\ solvers = {}
    /\ pc = [r \in Runners |-> "idle"]
    /\ job = [r \in Runners |-> NoJob]
    /\ calls = 0
    /\ crashes = 0

Goto(r, stage) == pc' = [pc EXCEPT ![r] = stage]

(* The call returns or raises; its local variables are gone.               *)
Return(r) ==
    /\ Goto(r, "idle")
    /\ job' = [job EXCEPT ![r] = NoJob]

(***************************************************************************)
(* The calls, and the resume check that precedes the lock.                 *)
(***************************************************************************)
Call(r) ==
    /\ pc[r] = "idle"
    /\ calls < CallBound
    /\ \E m \in Manifests, resume, prepare \in BOOLEAN :
          job' = [job EXCEPT ![r] = NewJob(m, resume, prepare, calls + 1,
                                           \A q \in Runners : pc[q] = "idle")]
    /\ calls' = calls + 1
    /\ Goto(r, "check")
    /\ UNCHANGED <<disk, report, lock, solvers, crashes>>

(* _verified_resume as far as report.json answers it.                      *)
MayResume(r, rep) ==
    /\ rep # NoFile
    /\ rep.manifest = job[r].manifest
    /\ rep.process
    /\ rep.engineering
    /\ rep.sums # NoFile

\* Seeded fault: --no-resume is read as resume.
CheckReport_NotNegated(r) ==
    /\ pc[r] = "check"
    /\ IF ~job[r].resume /\ MayResume(r, report)
         THEN /\ job' = [job EXCEPT ![r].seen = report, ![r].unread = Artifacts]
              /\ Goto(r, "verify")
         ELSE /\ Goto(r, "lock")
              /\ UNCHANGED job
    /\ UNCHANGED <<disk, report, lock, solvers, calls, crashes>>

CheckReport(r) ==
    /\ pc[r] = "check"
    /\ IF job[r].resume /\ MayResume(r, report)
         THEN /\ job' = [job EXCEPT ![r].seen = report, ![r].unread = Artifacts]
              /\ Goto(r, "verify")
         ELSE /\ Goto(r, "lock")
              /\ UNCHANGED job
    /\ UNCHANGED <<disk, report, lock, solvers, calls, crashes>>

(* The artifacts are looked for and hashed one after the other, and no     *)
(* lock keeps another call from deleting one in between: then sha256_file  *)
(* raises and the call ends.                                               *)
LookFor(r) ==
    /\ pc[r] = "verify"
    /\ \E a \in job[r].unread :
          IF a \in Present THEN Goto(r, "hash") ELSE Goto(r, "lock")
    /\ UNCHANGED <<disk, report, lock, solvers, job, calls, crashes>>

Hash(r) ==
    /\ pc[r] = "hash"
    /\ \E a \in job[r].unread :
          \/ /\ a \notin Present
             /\ Return(r)
          \/ /\ a \in Present
             /\ disk[a] # job[r].seen.sums[a]
             /\ Goto(r, "lock")
             /\ UNCHANGED job
          \/ /\ a \in Present
             /\ disk[a] = job[r].seen.sums[a]
             /\ IF job[r].unread = {a}
                  THEN Return(r)
                  ELSE /\ job' = [job EXCEPT ![r].unread = @ \ {a}]
                       /\ Goto(r, "verify")
    /\ UNCHANGED <<disk, report, lock, solvers, calls, crashes>>

(***************************************************************************)
(* The lock and the directory.                                             *)
(***************************************************************************)
\* Seeded fault: a lock without an owner is taken over.
Acquire_BreaksStale(r) ==
    /\ pc[r] = "lock"
    /\ lock \in {Nobody, Stale}
    /\ lock' = r
    /\ Goto(r, "clean")
    /\ UNCHANGED <<disk, report, solvers, job, calls, crashes>>

Acquire(r) ==
    /\ pc[r] = "lock"
    /\ lock = Nobody
    /\ lock' = r
    /\ Goto(r, "clean")
    /\ UNCHANGED <<disk, report, solvers, job, calls, crashes>>

Refused(r) ==
    /\ pc[r] = "lock"
    /\ lock # Nobody
    /\ Return(r)
    /\ UNCHANGED <<disk, report, lock, solvers, calls, crashes>>

(* _clean_run_outputs: the artifacts go one by one, and before the report  *)
(* does.                                                                   *)
CleanArtifacts(r) ==
    /\ pc[r] = "clean"
    /\ \/ /\ Present = {}
          /\ Goto(r, "unreport")
          /\ UNCHANGED disk
       \/ /\ \E a \in Present : disk' = [disk EXCEPT ![a] = NoFile]
          /\ UNCHANGED pc
    /\ UNCHANGED <<report, lock, solvers, job, calls, crashes>>

CleanReport(r) ==
    /\ pc[r] = "unreport"
    /\ report' = NoFile
    /\ Goto(r, "mesh")
    /\ UNCHANGED <<disk, lock, solvers, job, calls, crashes>>

(* Mesh and journal, with which `prepare` is done.                         *)
BuildMesh(r) ==
    /\ pc[r] = "mesh"
    /\ job' = [job EXCEPT ![r].total = Requested]
    /\ Goto(r, IF job[r].prepare THEN "release" ELSE "launch")
    /\ UNCHANGED <<disk, report, lock, solvers, calls, crashes>>

(***************************************************************************)
(* The solver.  It may write any of its artifacts before it exits.         *)
(***************************************************************************)
Launch(r) ==
    /\ pc[r] = "launch"
    /\ solvers' = solvers \cup {Stamp(r)}
    /\ Goto(r, "solve")
    /\ UNCHANGED <<disk, report, lock, job, calls, crashes>>

Writes(s) ==
    /\ \E a \in Artifacts :
          /\ disk[a] # s
          /\ disk' = [disk EXCEPT ![a] = s]
    /\ UNCHANGED <<report, lock, solvers, pc, job, calls, crashes>>

Exits(s) ==
    /\ solvers' = solvers \ {s}
    /\ UNCHANGED <<disk, report, lock, pc, job, calls, crashes>>

Reap(r) ==
    /\ pc[r] = "solve"
    /\ Stamp(r) \notin solvers
    /\ \E passed \in BOOLEAN : job' = [job EXCEPT ![r].process = passed]
    /\ Goto(r, "judge")
    /\ UNCHANGED <<disk, report, lock, solvers, calls, crashes>>

(* The tree is killed; a phase that timed out has not passed.              *)
TimesOut(r) ==
    /\ pc[r] = "solve"
    /\ Stamp(r) \in solvers
    /\ solvers' = solvers \ {Stamp(r)}
    /\ job' = [job EXCEPT ![r].process = FALSE]
    /\ Goto(r, "judge")
    /\ UNCHANGED <<disk, report, lock, calls, crashes>>

(***************************************************************************)
(* The gates and the extension.                                            *)
(***************************************************************************)
(* evaluate_engineering_gates: every gate of the transcripts (numbers),    *)
(* and every required artifact.                                            *)
GatesPass(numbers) == numbers /\ Present = Artifacts

Extends(r, engineering) ==
    /\ job[r].process
    /\ ~engineering
    /\ AutoExtend
    /\ job[r].total < HardMaximum
    /\ Present = Artifacts

\* Seeded fault: the last chunk is not cut to the maximum.
Count_Whole(r) == Chunk

Count(r) ==
    IF Chunk < HardMaximum - job[r].total THEN Chunk ELSE HardMaximum - job[r].total

(* Mesh, executable, a base phase without transcript, any file operation:  *)
(* what raises under the lock leaves by `finally`.                         *)
Raises(r) ==
    /\ pc[r] \in Fallible
    /\ Goto(r, "release")
    /\ UNCHANGED <<disk, report, lock, solvers, job, calls, crashes>>

Judge(r) ==
    /\ pc[r] = "judge"
    /\ \E numbers \in BOOLEAN :
          /\ ~Extends(r, GatesPass(numbers))
          /\ job' = [job EXCEPT ![r].engineering = GatesPass(numbers)]
    /\ Goto(r, "report")
    /\ UNCHANGED <<disk, report, lock, solvers, calls, crashes>>

\* Seeded fault: the pictures of the phase before stay.
Extend_KeepsPictures(r) ==
    /\ pc[r] = "judge"
    /\ \E numbers \in BOOLEAN : Extends(r, GatesPass(numbers))
    /\ job' = [job EXCEPT ![r].total = @ + Count(r)]
    /\ Goto(r, "launch")
    /\ UNCHANGED <<disk, report, lock, solvers, calls, crashes>>

Extend(r) ==
    /\ pc[r] = "judge"
    /\ \E numbers \in BOOLEAN : Extends(r, GatesPass(numbers))
    /\ disk' = [a \in Artifacts |-> IF a \in Images THEN NoFile ELSE disk[a]]
    /\ job' = [job EXCEPT ![r].total = @ + Count(r)]
    /\ Goto(r, "launch")
    /\ UNCHANGED <<report, lock, solvers, calls, crashes>>

(***************************************************************************)
(* The report, first without checksums; the way out.                       *)
(***************************************************************************)
WriteReport(r) ==
    /\ pc[r] = "report"
    /\ report' = [manifest |-> job[r].manifest, call |-> job[r].call,
                  total |-> job[r].total, process |-> job[r].process,
                  engineering |-> job[r].engineering, sums |-> NoFile]
    /\ Goto(r, "seal")
    /\ UNCHANGED <<disk, lock, solvers, job, calls, crashes>>

Seal(r) ==
    /\ pc[r] = "seal"
    /\ report' = [report EXCEPT !.sums = disk]
    /\ Goto(r, "release")
    /\ UNCHANGED <<disk, lock, solvers, job, calls, crashes>>

Release(r) ==
    /\ pc[r] = "release"
    /\ lock' = Nobody
    /\ Return(r)
    /\ UNCHANGED <<disk, report, solvers, calls, crashes>>

(* A call raises where nothing frees case.lock: writing its pid into it,   *)
(* or deleting transcripts first thing in `finally`.                       *)
LeavesLock(r) ==
    /\ pc[r] = "release" \/ (pc[r] = "lock" /\ lock = Nobody)
    /\ lock' = Stale
    /\ Return(r)
    /\ UNCHANGED <<disk, report, solvers, calls, crashes>>

(* The process dies: `finally` does not run, its solver goes on.           *)
Dies(r) ==
    /\ pc[r] # "idle"
    /\ crashes < CrashBound
    /\ crashes' = crashes + 1
    /\ lock' = IF lock = r THEN Stale ELSE lock
    /\ Return(r)
    /\ UNCHANGED <<disk, report, solvers, calls>>

(* What a call does by itself, once it is made.                            *)
Runs(r) ==
    \/ CheckReport(r) \/ LookFor(r) \/ Hash(r)
    \/ Acquire(r) \/ Refused(r) \/ CleanArtifacts(r) \/ CleanReport(r) \/ BuildMesh(r)
    \/ Launch(r) \/ Reap(r) \/ TimesOut(r)
    \/ Raises(r) \/ Judge(r) \/ Extend(r)
    \/ WriteReport(r) \/ Seal(r) \/ Release(r) \/ LeavesLock(r)

Next ==
    \/ \E r \in Runners : Call(r) \/ Runs(r) \/ Dies(r)
    \/ \E s \in solvers : Writes(s) \/ Exits(s)

Spec == Init /\ [][Next]_vars

-----------------------------------------------------------------------------
(* The type of every variable: in particular no phase runs beyond          *)
(* iterations.hardMaximum, and the lock's owner is at work.                *)
TypeOK ==
    /\ disk \in [Artifacts -> Stamps \cup {NoFile}]
    /\ report \in Reports \cup {NoFile}
    /\ lock \in Runners \cup {Nobody, Stale}
    /\ solvers \subseteq Stamps
    /\ pc \in [Runners -> Stages] /\ job \in [Runners -> Jobs \cup {NoJob}]
    /\ calls \in 0..CallBound /\ crashes \in 0..CrashBound
    /\ \A r \in Runners :
          lock = r <=> pc[r] \in Stages \ {"idle", "check", "verify", "hash", "lock"}

(* A report whose engineering gate passed speaks of its own run: the files *)
(* in the directory, and those whose checksums it holds, were written by   *)
(* the solver of that call, and the pictures by its last phase.  Nothing   *)
(* left by an earlier run, an earlier phase, or a solver whose runner died *)
(* is ever taken for evidence.                                             *)
EvidenceIsOwn ==
    report # NoFile /\ report.engineering =>
        \A a \in Artifacts :
            /\ disk[a] # NoFile =>
                  /\ disk[a].call = report.call
                  /\ a \in Images => disk[a].total = report.total
            /\ report.sums # NoFile =>
                  /\ report.sums[a] # NoFile
                  /\ report.sums[a].call = report.call

Case == INSTANCE Dossier WITH
    Pieces <- Artifacts, Pictures <- Images, Marks <- Stamps, Blank <- NoFile,
    pieces <- disk, verdict <- report

(* The directory implements a dossier: whoever calls, dies, times out or   *)
(* leaves a solver behind, no artifact is written under a report, runs and *)
(* phases never mix, the iterations stay within hardMaximum, a report is   *)
(* given once about what lies there, and the artifacts go before it does.  *)
ImplementsDossier == Case!DossierSpec

(* One solver at a time works in a case directory, and none beside one     *)
(* that a dead runner left behind.                                         *)
OneSolver == Cardinality(solvers) <= 1

(* A completed case: the report answers this manifest, and every checksum  *)
(* matches.                                                                *)
Completed(r) == MayResume(r, report) /\ report.sums = disk

(* README_KO.md: a rerun skips the cases completed down to the checksum.   *)
(* So a call with resume never empties the directory of one, at least when *)
(* no other call ran beside it: the lock does not cover the check.         *)
CompletedIsSkipped ==
    [][\A r \in Runners :
          CleanArtifacts(r) /\ job[r].resume /\ job[r].alone /\ job[r].call = calls
              => ~Completed(r)]_vars

=============================================================================
