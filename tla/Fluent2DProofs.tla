---------------------------- MODULE Fluent2DProofs ----------------------------
(* What Fluent2DCase promises for every set of runners, manifests and      *)
(* artifacts, every iteration limit and every number of calls and deaths.  *)
EXTENDS Fluent2DCase, FiniteSetTheorems, TLAPS

Locked == Stages \ {"idle", "check", "verify", "hash", "lock"}

\* A call has its arguments, and from the mesh on a number of iterations.
CallHasJob ==
    \A r \in Runners :
        /\ pc[r] # "idle" => job[r] \in Jobs /\ job[r].call \in 1..CallBound
        /\ pc[r] \in {"launch", "solve", "judge", "report", "seal"} =>
              job[r].total \in 1..HardMaximum
        /\ pc[r] = "seal" => report \in Reports

\* A solver runs only for the holder of the lock that waits for it, or, when
\* that holder died, under the lock it left.
SolverIsOfHolder ==
    /\ lock = Nobody => solvers = {}
    /\ \A r \in Runners : lock = r =>
          solvers \subseteq (IF pc[r] = "solve" THEN {Stamp(r)} ELSE {})
    /\ \A s, t \in solvers : s = t

\* The directory holds no report of an earlier run from the mesh to the report
\* of this one, nor while a solver is at work.
NoOldReport ==
    /\ solvers # {} => report = NoFile
    /\ \A r \in Runners :
          pc[r] \in {"mesh", "launch", "solve", "judge", "report"} => report = NoFile

Own(a, j) == disk[a] # NoFile =>
                /\ disk[a].call = j.call
                /\ a \in Images => disk[a].total = j.total

\* From the cleaning to the end of the run, what is on the disk is its own.
FilesAreOwn ==
    \A r \in Runners :
        /\ pc[r] \in {"unreport", "mesh"} => \A a \in Artifacts : disk[a] = NoFile
        /\ pc[r] \in {"launch", "solve", "judge", "report", "seal"} =>
              \A a \in Artifacts : Own(a, job[r])
        /\ pc[r] = "report" => (job[r].engineering => Present = Artifacts)
        /\ pc[r] = "seal" =>
              /\ report.call = job[r].call /\ report.total = job[r].total
              /\ report.engineering => Present = Artifacts

FluentInv == TypeOK /\ CallHasJob /\ SolverIsOfHolder /\ NoOldReport /\ FilesAreOwn
             /\ EvidenceIsOwn

LEMMA FluentInit == Init => FluentInv
  BY IterationsAssumption, NamesAssumption, BoundAssumption
     DEF IterationsAssumption, NamesAssumption, BoundAssumption, Init, FluentInv, TypeOK,
         CallHasJob, SolverIsOfHolder, NoOldReport, FilesAreOwn, EvidenceIsOwn, Stages

LEMMA ChunkIsCut ==
  ASSUME NEW r \in Runners, job[r].total \in 1..HardMaximum,
         job[r].total < HardMaximum
  PROVE  job[r].total + Count(r) \in 1..HardMaximum
  BY IterationsAssumption DEF IterationsAssumption, Count

\* A step of a call, in the variables that the type invariant reads.
LEMMA FluentTypeStep == TypeOK /\ CallHasJob /\ [Next]_vars => TypeOK' /\ CallHasJob'
  <1> SUFFICES ASSUME TypeOK, CallHasJob, [Next]_vars PROVE TypeOK' /\ CallHasJob'
    OBVIOUS
  <1> USE IterationsAssumption, NamesAssumption, BoundAssumption
      DEF IterationsAssumption, NamesAssumption, BoundAssumption, TypeOK, CallHasJob,
          Stages, Goto
  <1>1. ASSUME NEW r \in Runners, Call(r) PROVE TypeOK' /\ CallHasJob'
    BY <1>1 DEF Call, NewJob, Jobs
  <1>2. ASSUME NEW r \in Runners, CheckReport(r) PROVE TypeOK' /\ CallHasJob'
    BY <1>2 DEF CheckReport, MayResume, Jobs
  <1>3. ASSUME NEW r \in Runners, LookFor(r) \/ Hash(r) PROVE TypeOK' /\ CallHasJob'
    BY <1>3 DEF LookFor, Hash, Return, Jobs
  <1>4. ASSUME NEW r \in Runners, Acquire(r) \/ Refused(r) PROVE TypeOK' /\ CallHasJob'
    BY <1>4 DEF Acquire, Refused, Return
  <1>5. ASSUME NEW r \in Runners, CleanArtifacts(r) \/ CleanReport(r)
        PROVE  TypeOK' /\ CallHasJob'
    BY <1>5 DEF CleanArtifacts, CleanReport
  <1>6. ASSUME NEW r \in Runners, BuildMesh(r) PROVE TypeOK' /\ CallHasJob'
    BY <1>6 DEF BuildMesh, Jobs
  <1>7. ASSUME NEW r \in Runners, Launch(r) PROVE TypeOK' /\ CallHasJob'
    BY <1>7 DEF Launch, Stamp, Stamps
  <1>8. ASSUME NEW r \in Runners, Reap(r) \/ TimesOut(r) PROVE TypeOK' /\ CallHasJob'
    <2>1. PICK passed \in BOOLEAN :
              /\ job' = [job EXCEPT ![r] = [job[r] EXCEPT !.process = passed]]
              /\ pc[r] = "solve" /\ pc' = [pc EXCEPT ![r] = "judge"]
      BY <1>8 DEF Reap, TimesOut
    <2>2. solvers' \subseteq solvers /\ UNCHANGED <<disk, report, lock, calls, crashes>>
      BY <1>8 DEF Reap, TimesOut
    <2>3. [job[r] EXCEPT !.process = passed] \in Jobs
      BY <2>1 DEF Jobs
    <2> QED
      BY <2>1, <2>2, <2>3
  <1>9. ASSUME NEW r \in Runners, Raises(r) PROVE TypeOK' /\ CallHasJob'
    BY <1>9 DEF Raises, Fallible
  <1>10. ASSUME NEW r \in Runners, Judge(r) PROVE TypeOK' /\ CallHasJob'
    <2>1. PICK numbers \in BOOLEAN :
              job' = [job EXCEPT ![r] =
                         [job[r] EXCEPT !.engineering = GatesPass(numbers)]]
      BY <1>10 DEF Judge
    <2>2. /\ pc[r] = "judge" /\ pc' = [pc EXCEPT ![r] = "report"]
          /\ UNCHANGED <<disk, report, lock, solvers, calls, crashes>>
      BY <1>10 DEF Judge
    <2>3. GatesPass(numbers) \in BOOLEAN
      BY DEF GatesPass
    <2>4. [job[r] EXCEPT !.engineering = GatesPass(numbers)] \in Jobs
      BY <2>2, <2>3 DEF Jobs
    <2> QED
      BY <2>1, <2>2, <2>4
  <1>11. ASSUME NEW r \in Runners, Extend(r) PROVE TypeOK' /\ CallHasJob'
    BY <1>11, ChunkIsCut DEF Extend, Extends, Jobs
  <1>12. ASSUME NEW r \in Runners, WriteReport(r) PROVE TypeOK' /\ CallHasJob'
    BY <1>12 DEF WriteReport, Jobs, Reports
  <1>13. ASSUME NEW r \in Runners, Seal(r) PROVE TypeOK' /\ CallHasJob'
    BY <1>13 DEF Seal, Reports
  <1>14. ASSUME NEW r \in Runners, Release(r) \/ LeavesLock(r) \/ Dies(r) PROVE TypeOK' /\ CallHasJob'
    BY <1>14 DEF Release, LeavesLock, Dies, Return
  <1>15. ASSUME NEW s \in solvers, Writes(s) \/ Exits(s) PROVE TypeOK' /\ CallHasJob'
    BY <1>15 DEF Writes, Exits
  <1>16. CASE UNCHANGED vars
    BY <1>16 DEF vars
  <1> QED
    BY <1>1, <1>2, <1>3, <1>4, <1>5, <1>6, <1>7, <1>8, <1>9, <1>10, <1>11, <1>12, <1>13,
       <1>14, <1>15, <1>16
       DEF Next, Runs

\* The rest of the invariant, given the types.
LEMMA FluentHolderStep == FluentInv /\ [Next]_vars => SolverIsOfHolder'
  <1> SUFFICES ASSUME FluentInv, [Next]_vars PROVE SolverIsOfHolder'
    OBVIOUS
  <1> USE NamesAssumption
      DEF NamesAssumption, FluentInv, TypeOK, CallHasJob, SolverIsOfHolder, Stages,
          Goto, Stamp
  <1>1. ASSUME NEW r \in Runners, Call(r) PROVE SolverIsOfHolder'
    BY <1>1 DEF Call
  <1>2. ASSUME NEW r \in Runners, CheckReport(r) PROVE SolverIsOfHolder'
    BY <1>2 DEF CheckReport
  <1>3. ASSUME NEW r \in Runners, LookFor(r) \/ Hash(r) PROVE SolverIsOfHolder'
    BY <1>3 DEF LookFor, Hash, Return
  <1>4. ASSUME NEW r \in Runners, Acquire(r) \/ Refused(r) PROVE SolverIsOfHolder'
    BY <1>4 DEF Acquire, Refused, Return
  <1>5. ASSUME NEW r \in Runners, CleanArtifacts(r) \/ CleanReport(r) \/ BuildMesh(r)
        PROVE  SolverIsOfHolder'
    BY <1>5 DEF CleanArtifacts, CleanReport, BuildMesh
  <1>6. ASSUME NEW r \in Runners, Launch(r) PROVE SolverIsOfHolder'
    BY <1>6 DEF Launch
  <1>7. ASSUME NEW r \in Runners, Reap(r) \/ TimesOut(r) PROVE SolverIsOfHolder'
    <2>1. lock = r /\ lock' = r /\ pc' = [pc EXCEPT ![r] = "judge"]
      BY <1>7 DEF Reap, TimesOut
    <2>2. solvers' = {}
      BY <1>7, <2>1 DEF Reap, TimesOut
    <2> QED
      BY <2>1, <2>2
  <1>8. ASSUME NEW r \in Runners, Raises(r) \/ WriteReport(r) \/ Seal(r)
        PROVE  SolverIsOfHolder'
    BY <1>8 DEF Raises, WriteReport, Seal, Fallible
  <1>9. ASSUME NEW r \in Runners, Judge(r) \/ Extend(r) PROVE SolverIsOfHolder'
    BY <1>9 DEF Judge, Extend
  <1>10. ASSUME NEW r \in Runners, Release(r) \/ LeavesLock(r) \/ Dies(r) PROVE SolverIsOfHolder'
    BY <1>10 DEF Release, LeavesLock, Dies, Return
  <1>11. ASSUME NEW s \in solvers, Writes(s) \/ Exits(s) PROVE SolverIsOfHolder'
    BY <1>11 DEF Writes, Exits
  <1>12. CASE UNCHANGED vars
    BY <1>12 DEF vars
  <1> QED
    BY <1>1, <1>2, <1>3, <1>4, <1>5, <1>6, <1>7, <1>8, <1>9, <1>10, <1>11, <1>12
       DEF Next, Runs

LEMMA FluentReportStep == FluentInv /\ [Next]_vars => NoOldReport'
  <1> SUFFICES ASSUME FluentInv, [Next]_vars PROVE NoOldReport'
    OBVIOUS
  <1> USE NamesAssumption
      DEF NamesAssumption, FluentInv, TypeOK, CallHasJob, SolverIsOfHolder, NoOldReport,
          Stages, Goto, Stamp
  <1>1. ASSUME NEW r \in Runners, Call(r) PROVE NoOldReport'
    BY <1>1 DEF Call
  <1>2. ASSUME NEW r \in Runners, CheckReport(r) PROVE NoOldReport'
    BY <1>2 DEF CheckReport
  <1>3. ASSUME NEW r \in Runners, LookFor(r) \/ Hash(r) PROVE NoOldReport'
    BY <1>3 DEF LookFor, Hash, Return
  <1>4. ASSUME NEW r \in Runners, Acquire(r) \/ Refused(r) PROVE NoOldReport'
    BY <1>4 DEF Acquire, Refused, Return
  <1>5. ASSUME NEW r \in Runners, CleanArtifacts(r) \/ CleanReport(r) \/ BuildMesh(r)
        PROVE  NoOldReport'
    BY <1>5 DEF CleanArtifacts, CleanReport, BuildMesh
  <1>6. ASSUME NEW r \in Runners, Launch(r) PROVE NoOldReport'
    BY <1>6 DEF Launch
  <1>7. ASSUME NEW r \in Runners, Reap(r) \/ TimesOut(r) PROVE NoOldReport'
    BY <1>7 DEF Reap, TimesOut
  <1>8. ASSUME NEW r \in Runners, Raises(r) PROVE NoOldReport'
    BY <1>8 DEF Raises, Fallible
  <1>9. ASSUME NEW r \in Runners, WriteReport(r) \/ Seal(r) PROVE NoOldReport'
    <2>1. lock = r /\ solvers = {} /\ solvers' = {}
      BY <1>9 DEF WriteReport, Seal
    <2>2. pc' = [pc EXCEPT ![r] = "seal"] \/ pc' = [pc EXCEPT ![r] = "release"]
      BY <1>9 DEF WriteReport, Seal
    <2>3. \A q \in Runners \ {r} :
              pc[q] \notin {"mesh", "launch", "solve", "judge", "report"}
      BY <2>1
    <2> QED
      BY <2>1, <2>2, <2>3
  <1>10. ASSUME NEW r \in Runners, Judge(r) \/ Extend(r) PROVE NoOldReport'
    BY <1>10 DEF Judge, Extend
  <1>11. ASSUME NEW r \in Runners, Release(r) \/ LeavesLock(r) \/ Dies(r) PROVE NoOldReport'
    BY <1>11 DEF Release, LeavesLock, Dies, Return
  <1>12. ASSUME NEW s \in solvers, Writes(s) \/ Exits(s) PROVE NoOldReport'
    BY <1>12 DEF Writes, Exits
  <1>13. CASE UNCHANGED vars
    BY <1>13 DEF vars
  <1> QED
    BY <1>1, <1>2, <1>3, <1>4, <1>5, <1>6, <1>7, <1>8, <1>9, <1>10, <1>11, <1>12, <1>13
       DEF Next, Runs

\* No call but the holder of the lock is past the cleaning.
LEMMA FluentHolderIsAlone ==
  ASSUME TypeOK, NEW r \in Runners, pc[r] \in Locked
  PROVE  lock = r /\ \A q \in Runners \ {r} : pc[q] \notin Locked
  BY DEF TypeOK, Locked

LEMMA FluentFilesStep == FluentInv /\ [Next]_vars => FilesAreOwn'
  <1> SUFFICES ASSUME FluentInv, [Next]_vars PROVE FilesAreOwn'
    OBVIOUS
  <1> USE NamesAssumption
      DEF NamesAssumption, FluentInv, TypeOK, CallHasJob, SolverIsOfHolder, FilesAreOwn,
          Own, Stages, Goto, Stamp, Present
  <1>1. ASSUME NEW r \in Runners, Call(r) PROVE FilesAreOwn'
    BY <1>1 DEF Call
  <1>2. ASSUME NEW r \in Runners, CheckReport(r) PROVE FilesAreOwn'
    BY <1>2 DEF CheckReport
  <1>3. ASSUME NEW r \in Runners, LookFor(r) \/ Hash(r) PROVE FilesAreOwn'
    BY <1>3 DEF LookFor, Hash, Return
  <1>4. ASSUME NEW r \in Runners, Acquire(r) \/ Refused(r) PROVE FilesAreOwn'
    BY <1>4 DEF Acquire, Refused, Return
  <1>5. ASSUME NEW r \in Runners, CleanArtifacts(r) PROVE FilesAreOwn'
    <2>1. pc[r] = "clean" /\ UNCHANGED <<report, job>> /\ disk' \in [Artifacts -> Stamps \cup {NoFile}]
      BY <1>5 DEF CleanArtifacts
    <2>2. \A q \in Runners \ {r} : pc'[q] \notin Locked
      BY <1>5, <2>1, FluentHolderIsAlone DEF CleanArtifacts, Locked
    <2>3. pc'[r] = "clean" \/ (pc'[r] = "unreport" /\ \A a \in Artifacts : disk'[a] = NoFile)
      BY <1>5, <2>1 DEF CleanArtifacts
    <2> QED
      BY <2>1, <2>2, <2>3 DEF Locked
  <1>6. ASSUME NEW r \in Runners, CleanReport(r) PROVE FilesAreOwn'
    BY <1>6 DEF CleanReport
  <1>7. ASSUME NEW r \in Runners, BuildMesh(r) PROVE FilesAreOwn'
    BY <1>7 DEF BuildMesh
  <1>8. ASSUME NEW r \in Runners, Launch(r) PROVE FilesAreOwn'
    BY <1>8 DEF Launch
  <1>9. ASSUME NEW r \in Runners, Reap(r) \/ TimesOut(r) PROVE FilesAreOwn'
    <2>1. PICK passed \in BOOLEAN :
              job' = [job EXCEPT ![r] = [job[r] EXCEPT !.process = passed]]
      BY <1>9 DEF Reap, TimesOut
    <2>2. /\ pc[r] = "solve" /\ pc' = [pc EXCEPT ![r] = "judge"]
          /\ UNCHANGED <<disk, report, lock>>
      BY <1>9 DEF Reap, TimesOut
    <2>3. \A q \in Runners \ {r} : pc'[q] \notin Locked
      BY <2>2, FluentHolderIsAlone DEF Locked
    <2>4. job'[r].call = job[r].call /\ job'[r].total = job[r].total
      BY <2>1, <2>2 DEF Jobs
    <2> QED
      BY <2>2, <2>3, <2>4 DEF Locked
  <1>10. ASSUME NEW r \in Runners, Raises(r) PROVE FilesAreOwn'
    BY <1>10 DEF Raises, Fallible
  <1>11. ASSUME NEW r \in Runners, Judge(r) PROVE FilesAreOwn'
    <2>1. PICK numbers \in BOOLEAN :
              job' = [job EXCEPT ![r] =
                         [job[r] EXCEPT !.engineering = GatesPass(numbers)]]
      BY <1>11 DEF Judge
    <2>2. /\ pc[r] = "judge" /\ pc' = [pc EXCEPT ![r] = "report"]
          /\ UNCHANGED <<disk, report, lock>>
      BY <1>11 DEF Judge
    <2>3. \A q \in Runners \ {r} : pc'[q] \notin Locked
      BY <2>2, FluentHolderIsAlone DEF Locked
    <2>4. /\ job'[r].call = job[r].call /\ job'[r].total = job[r].total
          /\ job'[r].engineering = GatesPass(numbers)
      BY <2>1, <2>2 DEF Jobs
    <2>5. /\ Present' = Present
          /\ job'[r].engineering => Present = Artifacts
      BY <2>2, <2>4, Zenon DEF GatesPass
    <2> QED
      BY <2>2, <2>3, <2>4, <2>5 DEF Locked
  <1>12. ASSUME NEW r \in Runners, Extend(r) PROVE FilesAreOwn'
    BY <1>12 DEF Extend
  <1>13. ASSUME NEW r \in Runners, WriteReport(r) PROVE FilesAreOwn'
    BY <1>13 DEF WriteReport
  <1>14. ASSUME NEW r \in Runners, Seal(r) PROVE FilesAreOwn'
    BY <1>14 DEF Seal
  <1>15. ASSUME NEW r \in Runners, Release(r) \/ LeavesLock(r) \/ Dies(r) PROVE FilesAreOwn'
    BY <1>15 DEF Release, LeavesLock, Dies, Return
  <1>16. ASSUME NEW s \in solvers, Writes(s) PROVE FilesAreOwn'
    BY <1>16 DEF Writes
  <1>17. ASSUME NEW s \in solvers, Exits(s) PROVE FilesAreOwn'
    BY <1>17 DEF Exits
  <1>18. CASE UNCHANGED vars
    BY <1>18 DEF vars
  <1> QED
    BY <1>1, <1>2, <1>3, <1>4, <1>5, <1>6, <1>7, <1>8, <1>9, <1>10, <1>11, <1>12, <1>13,
       <1>14, <1>15, <1>16, <1>17, <1>18
       DEF Next, Runs

LEMMA FluentEvidenceStep == FluentInv /\ [Next]_vars => EvidenceIsOwn'
  <1> SUFFICES ASSUME FluentInv, [Next]_vars PROVE EvidenceIsOwn'
    OBVIOUS
  <1> USE DEF FluentInv, EvidenceIsOwn
  <1>1. ASSUME UNCHANGED <<disk, report>> PROVE EvidenceIsOwn'
    BY <1>1
  <1>2. ASSUME NEW r \in Runners, CleanArtifacts(r) PROVE EvidenceIsOwn'
    <2>1. UNCHANGED report /\ \A a \in Artifacts : disk'[a] \in {disk[a], NoFile}
      BY <1>2 DEF CleanArtifacts, Present, TypeOK
    <2> QED
      BY <2>1
  <1>3. ASSUME NEW r \in Runners, CleanReport(r) PROVE EvidenceIsOwn'
    BY <1>3 DEF CleanReport
  <1>4. ASSUME NEW r \in Runners, Extend(r) PROVE EvidenceIsOwn'
    BY <1>4 DEF Extend, NoOldReport
  <1>5. ASSUME NEW r \in Runners, WriteReport(r) PROVE EvidenceIsOwn'
    BY <1>5 DEF WriteReport, FilesAreOwn, Own
  <1>6. ASSUME NEW r \in Runners, Seal(r) PROVE EvidenceIsOwn'
    BY <1>6 DEF Seal, FilesAreOwn, Own, CallHasJob, Reports, Present
  <1>7. ASSUME NEW s \in solvers, Writes(s) PROVE EvidenceIsOwn'
    BY <1>7 DEF Writes, NoOldReport
  <1> QED
    BY <1>1, <1>2, <1>3, <1>4, <1>5, <1>6, <1>7
       DEF Next, Runs, Call, CheckReport, LookFor, Hash, Acquire, Refused, BuildMesh, Launch,
           Reap, TimesOut, Raises, Judge, Release, LeavesLock, Dies, Exits, vars

\* FluentInv is an invariant of the case directory, for every set of runners,
\* manifests and artifacts and every iteration limit.
THEOREM FluentInvariant == Spec => []FluentInv
  <1>1. FluentInv /\ [Next]_vars => FluentInv'
    BY FluentTypeStep, FluentHolderStep, FluentReportStep, FluentFilesStep,
       FluentEvidenceStep DEF FluentInv
  <1> QED
    BY <1>1, FluentInit, PTL DEF Spec

\* The variables of run_case keep their types: no phase runs beyond
\* iterations.hardMaximum, and the owner of case.lock is at work.
THEOREM FluentTypeOK == Spec => []TypeOK
  <1>1. FluentInv => TypeOK
    BY DEF FluentInv
  <1> QED
    BY <1>1, FluentInvariant, PTL

\* At most one solver works in a case directory, also when its runner died and
\* others call run_case again.
THEOREM FluentOneSolver == Spec => []OneSolver
  <1>1. ASSUME FluentInv PROVE OneSolver
    <2>1. CASE solvers = {}
      BY <2>1, FS_EmptySet DEF OneSolver
    <2>2. ASSUME NEW s \in solvers PROVE OneSolver
      <3>1. solvers = {s}
        BY <1>1, <2>2 DEF FluentInv, SolverIsOfHolder
      <3> QED
        BY <3>1, FS_Singleton DEF OneSolver
    <2> QED
      BY <2>1, <2>2
  <1> QED
    BY <1>1, FluentInvariant, PTL

\* A report of run_case whose engineering gate passed rests on artifacts that
\* the solver of its own run wrote, its pictures on the last phase of that run.
THEOREM FluentEvidence == Spec => []EvidenceIsOwn
  <1>1. FluentInv => EvidenceIsOwn
    BY DEF FluentInv
  <1> QED
    BY <1>1, FluentInvariant, PTL

-----------------------------------------------------------------------------
\* The newest call, made while nobody else was at work.
Undisturbed(r) == pc[r] # "idle" /\ job[r].alone /\ job[r].call = calls

\* Nobody has come since.
AloneIsAlone ==
    \A r \in Runners :
        /\ pc[r] # "idle" => job[r].call <= calls
        /\ Undisturbed(r) => \A q \in Runners \ {r} : pc[q] = "idle"

\* Such a call compares the report that lies there, and goes to the lock
\* because something does not match.
CheckIsCurrent ==
    \A r \in Runners : Undisturbed(r) /\ job[r].resume =>
        /\ pc[r] \in {"verify", "hash"} => job[r].seen = report /\ MayResume(r, report)
        /\ pc[r] \in {"lock", "clean"} => ~Completed(r)

SkipInv == FluentInv /\ AloneIsAlone /\ CheckIsCurrent

\* What a call is made with stays with it, and only a call leaves "idle".
LEMMA ArgumentsStay ==
  ASSUME TypeOK, CallHasJob, NEW r \in Runners, Runs(r) \/ Dies(r)
  PROVE  /\ calls' = calls
         /\ \A q \in Runners \ {r} : pc'[q] = pc[q] /\ job'[q] = job[q]
         /\ pc[r] # "idle"
         /\ pc'[r] # "idle" =>
               /\ job'[r].alone = job[r].alone /\ job'[r].call = job[r].call
               /\ job'[r].resume = job[r].resume /\ job'[r].manifest = job[r].manifest
  <1> USE DEF TypeOK, CallHasJob, Goto
  <1>1. CASE CheckReport(r)
    BY <1>1 DEF CheckReport, Jobs
  <1>2. CASE LookFor(r) \/ Acquire(r) \/ CleanArtifacts(r) \/ CleanReport(r) \/ Launch(r)
             \/ Raises(r) \/ WriteReport(r) \/ Seal(r)
    BY <1>2 DEF LookFor, Acquire, CleanArtifacts, CleanReport, Launch, Raises, Fallible,
                WriteReport, Seal
  <1>3. CASE Hash(r)
    BY <1>3 DEF Hash, Return, Jobs
  <1>4. CASE Refused(r) \/ Release(r) \/ LeavesLock(r) \/ Dies(r)
    BY <1>4 DEF Refused, Release, LeavesLock, Dies, Return
  <1>5. CASE BuildMesh(r) \/ Extend(r)
    BY <1>5 DEF BuildMesh, Extend, Jobs
  <1>6. CASE Reap(r) \/ TimesOut(r) \/ Judge(r)
    BY <1>6 DEF Reap, TimesOut, Judge, Jobs
  <1> QED
    BY <1>1, <1>2, <1>3, <1>4, <1>5, <1>6 DEF Runs

LEMMA AloneStep == FluentInv /\ AloneIsAlone /\ [Next]_vars => AloneIsAlone'
  <1> SUFFICES ASSUME FluentInv, AloneIsAlone, [Next]_vars PROVE AloneIsAlone'
    OBVIOUS
  <1>0. TypeOK /\ CallHasJob /\ calls \in Nat
    BY BoundAssumption DEF FluentInv, TypeOK, BoundAssumption
  <1>1. ASSUME NEW r \in Runners, Call(r) PROVE AloneIsAlone'
    <2>1. PICK m \in Manifests, resume \in BOOLEAN, prepare \in BOOLEAN :
             job' = [job EXCEPT ![r] = NewJob(m, resume, prepare, calls + 1,
                                              \A q \in Runners : pc[q] = "idle")]
      BY <1>1 DEF Call
    <2>2. /\ calls' = calls + 1 /\ pc'[r] # "idle"
          /\ \A q \in Runners \ {r} : pc'[q] = pc[q] /\ job'[q] = job[q]
      BY <1>0, <1>1, <2>1 DEF Call, Goto, TypeOK
    <2>3. /\ job'[r].call = calls + 1
          /\ job'[r].alone = (\A q \in Runners : pc[q] = "idle")
      BY <1>0, <2>1 DEF TypeOK, NewJob
    <2>4. \A q \in Runners \ {r} : pc[q] # "idle" => job[q].call \in Nat /\ job[q].call <= calls
      BY <1>0 DEF CallHasJob, AloneIsAlone
    <2>5. ASSUME NEW w \in Runners, pc'[w] # "idle"
          PROVE  /\ job'[w].call <= calls'
                 /\ Undisturbed(w)' => \A q \in Runners \ {w} : pc'[q] = "idle"
      <3>1. CASE w = r
        <4>1. Undisturbed(r)' => \A q \in Runners : pc[q] = "idle"
          BY <2>3, Zenon DEF Undisturbed
        <4>2. job'[r].call <= calls'
          BY <1>0, <2>2, <2>3
        <4> QED
          BY <2>2, <3>1, <4>1, <4>2
      <3>2. CASE w # r
        <4>1. job'[w].call \in Nat /\ job'[w].call <= calls
          BY <2>2, <2>4, <2>5, <3>2
        <4> QED
          BY <1>0, <2>2, <4>1 DEF Undisturbed
      <3> QED
        BY <3>1, <3>2
    <2> QED
      BY <2>5 DEF AloneIsAlone, Undisturbed
  <1>2. ASSUME NEW r \in Runners, Runs(r) \/ Dies(r) PROVE AloneIsAlone'
    BY <1>0, <1>2, ArgumentsStay DEF AloneIsAlone, Undisturbed
  <1>3. ASSUME UNCHANGED <<pc, job, calls>> PROVE AloneIsAlone'
    BY <1>3 DEF AloneIsAlone, Undisturbed
  <1> QED
    BY <1>1, <1>2, <1>3 DEF Next, Writes, Exits, vars

LEMMA CheckStep == SkipInv /\ [Next]_vars => CheckIsCurrent'
  <1> SUFFICES ASSUME SkipInv, [Next]_vars, NEW r \in Runners,
                      Undisturbed(r)', job'[r].resume
               PROVE  /\ pc'[r] \in {"verify", "hash"} =>
                            job'[r].seen = report' /\ MayResume(r, report)'
                      /\ pc'[r] \in {"lock", "clean"} => ~Completed(r)'
    BY DEF CheckIsCurrent
  <1> DEFINE Goal == /\ pc'[r] \in {"verify", "hash"} =>
                            job'[r].seen = report' /\ MayResume(r, report)'
                     /\ pc'[r] \in {"lock", "clean"} => ~Completed(r)'
  <1>0. /\ TypeOK /\ CallHasJob /\ NoOldReport /\ EvidenceIsOwn /\ AloneIsAlone
        /\ CheckIsCurrent
    BY DEF SkipInv, FluentInv
  <1>1. ASSUME NEW q \in Runners, Call(q) PROVE Goal
    <2>1. CASE q = r
      BY <1>0, <1>1, <2>1 DEF Call, Goto, TypeOK
    <2>2. CASE q # r
      <3>1. /\ pc'[r] = pc[r] /\ job'[r] = job[r] /\ calls' = calls + 1
        BY <1>0, <1>1, <2>2 DEF Call, Goto, TypeOK
      <3>2. job[r].call <= calls /\ job[r].call \in Nat /\ calls \in Nat
        BY <1>0, <3>1, BoundAssumption
           DEF AloneIsAlone, Undisturbed, CallHasJob, TypeOK, BoundAssumption
      <3> QED
        BY <3>1, <3>2 DEF Undisturbed
    <2> QED
      BY <2>1, <2>2
  \* Every other step finds the call undisturbed already, and is its own.
  <1>2. ASSUME NEW q \in Runners, Runs(q) \/ Dies(q)
        PROVE  /\ q = r /\ Undisturbed(r) /\ job[r].resume
               /\ job'[r].manifest = job[r].manifest
    <2>1. CASE q = r
      BY <1>0, <1>2, <2>1, ArgumentsStay DEF Undisturbed
    <2>2. CASE q # r
      <3>1. Undisturbed(r) /\ pc[q] # "idle"
        BY <1>0, <1>2, <2>2, ArgumentsStay DEF Undisturbed
      <3> QED
        BY <1>0, <2>2, <3>1 DEF AloneIsAlone
    <2> QED
      BY <2>1, <2>2
  <1>3. CASE CheckReport(r)
    <2>1. Undisturbed(r) /\ job[r].resume /\ UNCHANGED <<report, disk>>
      BY <1>2, <1>3 DEF Runs, CheckReport
    <2>2. CASE MayResume(r, report)
      BY <1>0, <1>3, <2>1, <2>2 DEF CheckReport, Goto, TypeOK, CallHasJob, Jobs, MayResume,
                                    Undisturbed
    <2>3. CASE ~MayResume(r, report)
      BY <1>0, <1>3, <2>1, <2>3 DEF CheckReport, Goto, TypeOK, MayResume, Completed
    <2> QED
      BY <2>2, <2>3
  <1>4. CASE LookFor(r)
    <2>1. /\ Undisturbed(r) /\ job[r].resume /\ UNCHANGED <<report, disk, job>>
          /\ pc[r] = "verify" /\ MayResume(r, report) /\ job[r].seen = report
      BY <1>0, <1>2, <1>4 DEF Runs, LookFor, CheckIsCurrent
    <2>2. PICK a \in job[r].unread : IF a \in Present THEN Goto(r, "hash") ELSE Goto(r, "lock")
      BY <1>4 DEF LookFor
    <2>3. CASE a \in Present
      BY <1>0, <2>1, <2>2, <2>3 DEF Goto, TypeOK, MayResume
    <2>4. CASE a \notin Present
      <3>1. a \in Artifacts
        BY <1>0, <2>1 DEF CallHasJob, Jobs
      <3>2. disk[a] = NoFile /\ report.sums[a] # NoFile
        BY <1>0, <2>1, <2>4, <3>1 DEF Present, EvidenceIsOwn, MayResume
      <3>3. ~Completed(r)
        BY <3>2 DEF Completed
      <3> QED
        BY <1>0, <2>1, <2>2, <2>4, <3>3 DEF Goto, TypeOK, Completed, MayResume
    <2> QED
      BY <2>3, <2>4
  <1>5. CASE Hash(r)
    <2>1. /\ Undisturbed(r) /\ job[r].resume /\ UNCHANGED <<report, disk>>
          /\ pc[r] = "hash" /\ MayResume(r, report) /\ job[r].seen = report
          /\ pc'[r] # "idle" /\ job[r] \in Jobs
      BY <1>0, <1>2, <1>5 DEF Runs, Hash, CheckIsCurrent, Undisturbed, CallHasJob
    <2>2. ASSUME NEW a \in job[r].unread, disk[a] # job[r].seen.sums[a], Goto(r, "lock"),
                 UNCHANGED job
          PROVE  Goal
      <3>1. ~Completed(r)
        BY <2>1, <2>2 DEF Completed
      <3> QED
        BY <1>0, <2>1, <2>2, <3>1 DEF Goto, TypeOK, Completed, MayResume
    <2>3. ASSUME NEW a \in job[r].unread, Goto(r, "verify"),
                 job' = [job EXCEPT ![r].unread = @ \ {a}]
          PROVE  Goal
      BY <1>0, <2>1, <2>3 DEF Goto, TypeOK, MayResume, Jobs
    <2>4. ASSUME Return(r) PROVE FALSE
      BY <1>0, <2>1, <2>4 DEF Return, Goto, TypeOK
    <2> QED
      BY <1>5, <2>2, <2>3, <2>4 DEF Hash
  <1>6. CASE Acquire(r)
    <2>1. /\ Undisturbed(r) /\ job[r].resume /\ UNCHANGED <<report, disk, job>>
          /\ pc[r] = "lock" /\ pc'[r] = "clean"
      BY <1>0, <1>2, <1>6 DEF Runs, Acquire, Goto, TypeOK
    <2> QED
      BY <1>0, <2>1 DEF CheckIsCurrent, Completed, MayResume
  <1>7. ASSUME \/ Refused(r) \/ CleanReport(r) \/ BuildMesh(r)
               \/ Launch(r) \/ Reap(r) \/ TimesOut(r) \/ Raises(r) \/ Judge(r) \/ Extend(r)
               \/ WriteReport(r) \/ Seal(r) \/ Release(r) \/ LeavesLock(r) \/ Dies(r)
        PROVE  Goal
    BY <1>0, <1>7
       DEF TypeOK, Refused, CleanReport, BuildMesh, Launch, Reap, TimesOut,
           Raises, Judge, Extend, WriteReport, Seal, Release, LeavesLock, Dies, Return, Goto, Fallible
  \* What is deleted is missed by a report that may be resumed.
  <1>10. CASE CleanArtifacts(r)
    <2>1. /\ Undisturbed(r) /\ job[r].resume /\ UNCHANGED <<report, job>>
          /\ pc[r] = "clean" /\ pc'[r] \in {"clean", "unreport"} /\ ~Completed(r)
      BY <1>0, <1>2, <1>10 DEF Runs, CleanArtifacts, CheckIsCurrent, Goto, TypeOK
    <2>2. CASE UNCHANGED disk
      BY <2>1, <2>2 DEF Completed, MayResume
    <2>3. ASSUME NEW a \in Artifacts, disk'[a] = NoFile PROVE Goal
      <3>1. MayResume(r, report) => report.sums[a] # NoFile
        BY <1>0 DEF EvidenceIsOwn, MayResume
      <3> QED
        BY <2>1, <2>3, <3>1 DEF Completed, MayResume
    <2>4. UNCHANGED disk \/ \E a \in Artifacts : disk'[a] = NoFile
      BY <1>0, <1>10 DEF CleanArtifacts, Present, TypeOK
    <2> QED
      BY <2>2, <2>3, <2>4
  \* A solver at work means no report.
  <1>8. ASSUME NEW s \in solvers, Writes(s) PROVE Goal
    BY <1>0, <1>8 DEF Writes, NoOldReport, CheckIsCurrent, Undisturbed, Completed, MayResume
  <1>9. ASSUME UNCHANGED <<disk, report, pc, job, calls>> PROVE Goal
    BY <1>0, <1>9 DEF CheckIsCurrent, Undisturbed, Completed, MayResume
  <1> QED
    BY <1>1, <1>2, <1>3, <1>4, <1>5, <1>6, <1>7, <1>8, <1>9, <1>10
       DEF Next, Runs, Exits, vars

\* _verified_resume before case.lock: a call with resume empties no completed
\* directory, if nobody ran beside it.
THEOREM FluentSkips == Spec => CompletedIsSkipped
  <1>1. Init => SkipInv
    BY FluentInit DEF Init, SkipInv, AloneIsAlone, CheckIsCurrent, Undisturbed
  <1>2. SkipInv /\ [Next]_vars => SkipInv'
    BY AloneStep, CheckStep, FluentTypeStep, FluentHolderStep, FluentReportStep,
       FluentFilesStep, FluentEvidenceStep DEF SkipInv, FluentInv
  <1>3. SkipInv => \A r \in Runners :
           CleanArtifacts(r) /\ job[r].resume /\ job[r].alone /\ job[r].call = calls
              => ~Completed(r)
    BY DEF SkipInv, CheckIsCurrent, Undisturbed, CleanArtifacts
  <1>4. SkipInv /\ [Next]_vars =>
          [\A r \in Runners :
              CleanArtifacts(r) /\ job[r].resume /\ job[r].alone /\ job[r].call = calls
                 => ~Completed(r)]_vars
    BY <1>3
  <1> QED
    BY <1>1, <1>2, <1>4, PTL DEF CompletedIsSkipped, Spec

-----------------------------------------------------------------------------
(* The dossier.  A solver finds only what is its own, also one whose       *)
(* runner died, and a report is sealed once.                               *)

SolverFindsOwn == \A s \in solvers, a \in Artifacts : Own(a, s)

SealIsOnce == \A r \in Runners : pc[r] = "seal" => report.sums = NoFile

CaseInv == FluentInv /\ SolverFindsOwn /\ SealIsOnce

DossierStep == [Case!DossierNext]_(Case!dossier)

LEMMA CaseInit == Init => SolverFindsOwn /\ SealIsOnce /\ Case!DossierInit
  BY DEF Init, SolverFindsOwn, SealIsOnce, Case!DossierInit

LEMMA SolverFindsOwnStep == CaseInv /\ [Next]_vars => SolverFindsOwn'
  <1> SUFFICES ASSUME CaseInv, [Next]_vars PROVE SolverFindsOwn'
    OBVIOUS
  <1> USE DEF CaseInv, FluentInv, SolverFindsOwn, Own
  <1>1. ASSUME UNCHANGED disk, solvers' \subseteq solvers PROVE SolverFindsOwn'
    BY <1>1
  <1>2. ASSUME NEW r \in Runners, CleanArtifacts(r) PROVE SolverFindsOwn'
    <2>1. UNCHANGED solvers /\ \A a \in Artifacts : disk'[a] \in {disk[a], NoFile}
      BY <1>2 DEF CleanArtifacts, Present, TypeOK
    <2> QED
      BY <2>1
  <1>3. ASSUME NEW r \in Runners, Launch(r) PROVE SolverFindsOwn'
    <2>1. /\ pc[r] = "launch" /\ UNCHANGED disk
          /\ solvers' = solvers \cup {[call |-> job[r].call, total |-> job[r].total]}
      BY <1>3 DEF Launch, Stamp
    <2>2. \A a \in Artifacts : Own(a, job[r])
      BY <2>1 DEF FilesAreOwn
    <2> QED
      BY <2>1, <2>2
  <1>4. ASSUME NEW r \in Runners, Extend(r) PROVE SolverFindsOwn'
    <2>1. disk' = [a \in Artifacts |-> IF a \in Images THEN NoFile ELSE disk[a]]
          /\ UNCHANGED solvers
      BY <1>4 DEF Extend
    <2> QED
      BY <2>1
  <1>5. ASSUME NEW s \in solvers, Writes(s) PROVE SolverFindsOwn'
    <2>1. PICK a \in Artifacts : disk' = [disk EXCEPT ![a] = s]
      BY <1>5 DEF Writes
    <2>2. \A t \in solvers : t = s
      BY DEF SolverIsOfHolder
    <2>3. disk \in [Artifacts -> Stamps \cup {NoFile}] /\ UNCHANGED solvers
      BY <1>5 DEF Writes, TypeOK
    <2> QED
      BY <2>1, <2>2, <2>3
  <1> QED
    BY <1>1, <1>2, <1>3, <1>4, <1>5
       DEF Next, Runs, Call, CheckReport, LookFor, Hash, Acquire, Refused, CleanReport,
           BuildMesh, Reap, TimesOut, Raises, Judge, WriteReport, Seal, Release, LeavesLock, Dies, Exits,
           vars

LEMMA SealIsOnceStep == CaseInv /\ [Next]_vars => SealIsOnce'
  <1> SUFFICES ASSUME CaseInv, [Next]_vars PROVE SealIsOnce'
    OBVIOUS
  <1> USE DEF CaseInv, FluentInv, SealIsOnce
  <1>0. pc \in [Runners -> Stages]
    BY DEF TypeOK
  <1>1. ASSUME NEW r \in Runners, WriteReport(r) PROVE SealIsOnce'
    BY <1>1 DEF WriteReport
  <1>2. ASSUME NEW r \in Runners, CleanReport(r) \/ Seal(r) PROVE SealIsOnce'
    <2>1. pc[r] \in Locked /\ pc'[r] # "seal" /\ \A q \in Runners \ {r} : pc'[q] = pc[q]
      BY <1>0, <1>2 DEF CleanReport, Seal, Goto, Locked, Stages
    <2>2. \A q \in Runners \ {r} : pc[q] \notin Locked
      BY <2>1, FluentHolderIsAlone
    <2> QED
      BY <2>1, <2>2 DEF Locked, Stages
  <1>3. ASSUME UNCHANGED report, \A r \in Runners : pc'[r] = "seal" => pc[r] = "seal"
        PROVE  SealIsOnce'
    BY <1>3
  <1>4. ASSUME NEW r \in Runners, NEW stage \in Stages \ {"seal"}, Goto(r, stage)
        PROVE  \A q \in Runners : pc'[q] = "seal" => pc[q] = "seal"
    BY <1>0, <1>4 DEF Goto
  <1>5. ASSUME NEW r \in Runners, \/ CheckReport(r) \/ LookFor(r) \/ Hash(r) \/ Acquire(r)
                                  \/ Refused(r) \/ BuildMesh(r)
                                  \/ Launch(r) \/ Reap(r) \/ TimesOut(r) \/ Raises(r)
                                  \/ Judge(r) \/ Extend(r) \/ Release(r) \/ LeavesLock(r) \/ Dies(r) \/ Call(r)
        PROVE  UNCHANGED report /\ \E stage \in Stages \ {"seal"} : Goto(r, stage)
    BY <1>5
       DEF CheckReport, LookFor, Hash, Acquire, Refused, BuildMesh, Launch,
           Reap, TimesOut, Raises, Judge, Extend, Release, LeavesLock, Dies, Call, Return, Stages
  <1>8. ASSUME NEW r \in Runners, CleanArtifacts(r)
        PROVE  UNCHANGED report /\ (UNCHANGED pc \/ Goto(r, "unreport"))
    BY <1>8 DEF CleanArtifacts
  <1>6. ASSUME NEW s \in solvers, Writes(s) \/ Exits(s) PROVE SealIsOnce'
    BY <1>6 DEF Writes, Exits
  <1>7. CASE UNCHANGED vars
    BY <1>7 DEF vars
  <1> QED
    BY <1>1, <1>2, <1>3, <1>4, <1>5, <1>6, <1>7, <1>8 DEF Next, Runs, Stages

LEMMA DossierSteps ==
  ASSUME CaseInv, [Next]_vars
  PROVE  DossierStep
  <1> USE DEF CaseInv, FluentInv
  <1>0. disk \in [Artifacts -> Stamps \cup {NoFile}]
    BY DEF TypeOK
  <1>1. ASSUME UNCHANGED <<disk, report>> PROVE DossierStep
    BY <1>1 DEF DossierStep, Case!dossier
  <1>2. ASSUME NEW r \in Runners, CleanArtifacts(r) PROVE DossierStep
    <2>1. \/ UNCHANGED disk
          \/ \E a \in Artifacts : disk' = [disk EXCEPT ![a] = NoFile]
      BY <1>2 DEF CleanArtifacts, Present
    <2> QED
      BY <1>1, <1>2, <2>1 DEF CleanArtifacts, Case!Discard, Case!DossierNext, DossierStep
  <1>3. ASSUME NEW r \in Runners, CleanReport(r) PROVE DossierStep
    <2>1. \A a \in Artifacts : disk[a] = NoFile
      BY <1>3 DEF CleanReport, FilesAreOwn
    <2>2. Case!Withdraw
      BY <1>3, <2>1 DEF CleanReport, Case!Withdraw
    <2> QED
      BY <2>2 DEF Case!DossierNext, DossierStep
  <1>4. ASSUME NEW r \in Runners, Extend(r) PROVE DossierStep
    <2>1. Case!Remove
      BY <1>4 DEF Extend, NoOldReport, Case!Remove
    <2> QED
      BY <2>1 DEF Case!DossierNext, DossierStep
  <1>5. ASSUME NEW r \in Runners, WriteReport(r) PROVE DossierStep
    <2>1. /\ pc[r] = "report" /\ report = NoFile /\ UNCHANGED disk
          /\ report' = [manifest |-> job[r].manifest, call |-> job[r].call,
                        total |-> job[r].total, process |-> job[r].process,
                        engineering |-> job[r].engineering, sums |-> NoFile]
      BY <1>5 DEF WriteReport, NoOldReport
    <2>2. report' \in Reports
      BY <1>5, <2>1 DEF CallHasJob, Jobs, Reports
    <2>3. \A a \in Artifacts : Own(a, job[r])
      BY <2>1 DEF FilesAreOwn
    <2>4. job[r].engineering => Present = Artifacts
      BY <2>1 DEF FilesAreOwn
    <2>5. \A a \in Artifacts : Case!IsOf(a, report')
      BY <2>1, <2>3 DEF Own, Case!IsOf
    <2>6. report'.engineering => Case!Complete
      BY <2>1, <2>4 DEF Case!Complete, Present
    <2>7. Case!Conclude
      BY <2>1, <2>2, <2>5, <2>6, FileAssumption DEF FileAssumption, Case!Conclude
    <2> QED
      BY <2>7 DEF Case!DossierNext, DossierStep
  <1>6. ASSUME NEW r \in Runners, Seal(r) PROVE DossierStep
    <2>1. report \in Reports /\ report.sums = NoFile
      BY <1>6 DEF Seal, CallHasJob, SealIsOnce
    <2>2. Case!Close
      BY <1>6, <2>1, FileAssumption DEF FileAssumption, Seal, Case!Close
    <2> QED
      BY <2>2 DEF Case!DossierNext, DossierStep
  <1>7. ASSUME NEW s \in solvers, Writes(s) PROVE DossierStep
    <2>1. PICK a \in Artifacts : disk' = [disk EXCEPT ![a] = s]
      BY <1>7 DEF Writes
    <2>2. report = NoFile /\ UNCHANGED report /\ s \in Stamps
      BY <1>7 DEF Writes, NoOldReport, TypeOK
    <2>3. \A b \in Artifacts : Case!IsOf(b, s)
      BY DEF SolverFindsOwn, Own, Case!IsOf
    <2>4. PICK t \in Stamps : t = s
      BY <2>2
    <2>5. Case!Write(a, t)
      BY <2>1, <2>2, <2>3, <2>4 DEF Case!Write
    <2> QED
      BY <2>5 DEF Case!DossierNext, DossierStep
  <1> QED
    BY <1>1, <1>2, <1>3, <1>4, <1>5, <1>6, <1>7
       DEF Next, Runs, Call, CheckReport, LookFor, Hash, Acquire, Refused, BuildMesh, Launch,
           Reap, TimesOut, Raises, Judge, Release, LeavesLock, Dies, Exits, vars

\* run_case and the solvers it starts, also those it leaves behind, keep a
\* dossier: no artifact changes under a report, and a report is never replaced
\* before the directory has been emptied.
THEOREM FluentImplementsDossier == Spec => ImplementsDossier
  <1>1. Init => CaseInv /\ Case!DossierInit
    BY FluentInit, CaseInit DEF CaseInv
  <1>2. FluentInv /\ [Next]_vars => FluentInv'
    BY FluentTypeStep, FluentHolderStep, FluentReportStep, FluentFilesStep,
       FluentEvidenceStep DEF FluentInv
  <1>3. CaseInv /\ [Next]_vars => CaseInv' /\ DossierStep
    BY <1>2, SolverFindsOwnStep, SealIsOnceStep, DossierSteps DEF CaseInv
  <1> QED
    BY <1>1, <1>3, PTL DEF Spec, ImplementsDossier, Case!DossierSpec, DossierStep

=============================================================================
