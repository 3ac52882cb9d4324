---------------------------- MODULE HotFolderProofs ----------------------------
(* What HotFolder promises for every set of names and manifests and every  *)
(* number of drops, failures and deaths.                                   *)
EXTENDS HotFolder, TLAPS

\* What a scan that has read a manifest knows of it.
ScanKnows ==
    /\ stage \in {"submit", "manifest"} =>
          \A n \in Names : At(n) => incoming[n] = manifest
    /\ stage \in {"manifest", "marker", "receipt"} =>
          frozen[Submission[manifest]] = manifest

FolderInv == TypeOK /\ ScanKnows /\ NothingIsLost /\ AcceptedIsFrozen

LEMMA FolderInit == Init => FolderInv
  BY FolderAssumption
     DEF FolderAssumption, Init, FolderInv, TypeOK, ScanKnows, NothingIsLost,
         AcceptedIsFrozen, Stages, Ids

\* The scan works on one marker at a time.
LEMMA AtIsUnique ==
  ASSUME NEW n \in Names, NEW k \in Names, At(n), At(k)
  PROVE  n = k
  BY FolderAssumption DEF FolderAssumption, At

LEMMA TypeStep == TypeOK /\ ScanKnows /\ [Next]_vars => TypeOK'
  <1> SUFFICES ASSUME TypeOK, ScanKnows, [Next]_vars PROVE TypeOK'
    OBVIOUS
  <1> USE FolderAssumption
      DEF FolderAssumption, TypeOK, Stages, Ids, files, outcomes, scanner, counters
  <1>1. ASSUME NEW n \in Names, NEW m \in Manifests, Drop(n, m) PROVE TypeOK'
    BY <1>1 DEF Drop
  <1>2. ASSUME NEW n \in Names, Commit(n) \/ Ages(n) PROVE TypeOK'
    BY <1>2 DEF Commit, Ages
  <1>3. ASSUME NEW n \in Names, IntakeFails(n) PROVE TypeOK'
    BY <1>3 DEF IntakeFails, At
  <1>4. CASE BeginScan
    BY <1>4 DEF BeginScan
  <1>5. ASSUME NEW n \in Names, ReadyWithoutManifest(n) \/ Read(n) PROVE TypeOK'
    BY <1>5 DEF ReadyWithoutManifest, Read, Goes, At
  <1>6. ASSUME NEW n \in Names, At(n), Finishes(n)
        PROVE  /\ markers' \subseteq Names /\ stage' \in {"idle", "next"}
               /\ markers' = {} <=> stage' = "idle"
               /\ manifest' = NoManifest /\ UNCHANGED counters
    BY <1>6 DEF At, Finishes
  <1>7. ASSUME NEW n \in Names, Defer(n) \/ QuarantineReceipt(n) \/ WriteReceipt(n)
        PROVE  TypeOK'
    <2>1. /\ markers' \subseteq Names /\ stage' \in {"idle", "next"}
          /\ markers' = {} <=> stage' = "idle"
          /\ manifest' = NoManifest /\ UNCHANGED counters
      BY <1>6, <1>7 DEF Defer, QuarantineReceipt, WriteReceipt
    <2>2. /\ UNCHANGED <<incoming, fresh, dropped, frozen, accepted, quarantined>>
          /\ ready' \in [Names -> BOOLEAN]
          /\ receipts' \subseteq Manifests
      BY <1>7 DEF Defer, QuarantineReceipt, WriteReceipt
    <2> QED
      BY <2>1, <2>2
  <1>8. ASSUME NEW n \in Names, Submit(n) PROVE TypeOK'
    BY <1>8 DEF Submit, Goes, At
  <1>9. ASSUME NEW n \in Names, MoveManifest(n) PROVE TypeOK'
    <2>1. manifest \in Valid /\ incoming[n] = manifest
      BY <1>9 DEF MoveManifest, At, ScanKnows
    <2> QED
      BY <1>9, <2>1 DEF MoveManifest, Goes, At
  <1>10. ASSUME NEW n \in Names, MoveMarker(n) \/ QuarantineMarker(n) PROVE TypeOK'
    BY <1>10 DEF MoveMarker, QuarantineMarker, Goes, At
  <1>11. ASSUME NEW n \in Names, QuarantineManifest(n) PROVE TypeOK'
    BY <1>11 DEF QuarantineManifest, Goes, At
  <1>12. CASE ScanRaises \/ Dies
    BY <1>12 DEF ScanRaises, Dies
  <1>13. CASE UNCHANGED vars
    BY <1>13 DEF vars
  <1> QED
    BY <1>1, <1>2, <1>3, <1>4, <1>5, <1>7, <1>8, <1>9, <1>10, <1>11, <1>12, <1>13
       DEF Next, Scan

\* What the scan knows stays true: nobody rewrites a committed manifest, and
\* a frozen one is never replaced.
LEMMA ScanStep == TypeOK /\ ScanKnows /\ [Next]_vars => ScanKnows'
  <1> SUFFICES ASSUME TypeOK, ScanKnows, [Next]_vars PROVE ScanKnows'
    OBVIOUS
  <1> USE FolderAssumption
      DEF FolderAssumption, TypeOK, ScanKnows, At, files, outcomes, scanner, counters
  <1>1. ASSUME NEW n \in Names, NEW m \in Manifests, Drop(n, m) PROVE ScanKnows'
    BY <1>1 DEF Drop
  <1>2. ASSUME NEW n \in Names, Commit(n) \/ Ages(n) \/ IntakeFails(n)
        PROVE  ScanKnows'
    BY <1>2 DEF Commit, Ages, IntakeFails
  <1>3. CASE BeginScan \/ ScanRaises \/ Dies
    BY <1>3 DEF BeginScan, ScanRaises, Dies
  <1>4. ASSUME NEW n \in Names, \/ ReadyWithoutManifest(n) \/ Defer(n)
                                \/ QuarantineMarker(n) \/ QuarantineReceipt(n)
                                \/ WriteReceipt(n)
        PROVE  ScanKnows'
    BY <1>4 DEF ReadyWithoutManifest, Defer, QuarantineMarker, QuarantineReceipt,
                WriteReceipt, Goes, Finishes
  <1>5. ASSUME NEW n \in Names, Read(n) PROVE ScanKnows'
    <2>1. \A k \in Names : At(k) => k = n
      BY <1>5, AtIsUnique DEF Read
    <2> QED
      BY <1>5, <2>1 DEF Read, Goes
  <1>6. ASSUME NEW n \in Names, Submit(n) PROVE ScanKnows'
    <2>1. manifest \in Manifests /\ Submission[manifest] \in Ids
      BY <1>6 DEF Submit, Ids
    <2> QED
      BY <1>6, <2>1 DEF Submit, Goes
  <1>7. ASSUME NEW n \in Names, MoveManifest(n) \/ MoveMarker(n) \/ QuarantineManifest(n)
        PROVE  ScanKnows'
    BY <1>7 DEF MoveManifest, MoveMarker, QuarantineManifest, Goes
  <1>8. CASE UNCHANGED vars
    BY <1>8 DEF vars
  <1> QED
    BY <1>1, <1>2, <1>3, <1>4, <1>5, <1>6, <1>7, <1>8 DEF Next, Scan

\* A file leaves incoming/ only for accepted/ or quarantine/.
LEMMA LossStep == TypeOK /\ NothingIsLost /\ [Next]_vars => NothingIsLost'
  <1> SUFFICES ASSUME TypeOK, NothingIsLost, [Next]_vars PROVE NothingIsLost'
    OBVIOUS
  <1> USE FolderAssumption
      DEF FolderAssumption, TypeOK, NothingIsLost, files, outcomes, scanner, counters
  <1>1. ASSUME NEW n \in Names, NEW m \in Manifests, Drop(n, m) PROVE NothingIsLost'
    BY <1>1 DEF Drop
  <1>2. ASSUME NEW n \in Names, MoveManifest(n) \/ QuarantineManifest(n)
        PROVE  NothingIsLost'
    BY <1>2 DEF MoveManifest, QuarantineManifest
  <1>3. ASSUME UNCHANGED <<incoming, dropped, accepted, quarantined>>
        PROVE  NothingIsLost'
    BY <1>3
  <1>4. ASSUME NEW n \in Names, \/ Commit(n) \/ Ages(n) \/ IntakeFails(n)
                                \/ ReadyWithoutManifest(n) \/ Defer(n) \/ Read(n)
                                \/ Submit(n) \/ MoveMarker(n) \/ WriteReceipt(n)
                                \/ QuarantineMarker(n) \/ QuarantineReceipt(n)
        PROVE  UNCHANGED <<incoming, dropped, accepted, quarantined>>
    BY <1>4 DEF Commit, Ages, IntakeFails, ReadyWithoutManifest, Defer, Read, Submit,
                MoveMarker, WriteReceipt, QuarantineMarker, QuarantineReceipt
  <1>5. CASE BeginScan \/ ScanRaises \/ Dies \/ UNCHANGED vars
    BY <1>3, <1>5 DEF BeginScan, ScanRaises, Dies, vars
  <1> QED
    BY <1>1, <1>2, <1>3, <1>4, <1>5 DEF Next, Scan

\* The queue keeps what it froze, and what is moved or gets a receipt is what
\* the scan submitted.
LEMMA FrozenStep ==
    TypeOK /\ ScanKnows /\ AcceptedIsFrozen /\ [Next]_vars => AcceptedIsFrozen'
  <1> SUFFICES ASSUME TypeOK, ScanKnows, AcceptedIsFrozen, [Next]_vars
               PROVE  AcceptedIsFrozen'
    OBVIOUS
  <1> USE FolderAssumption
      DEF FolderAssumption, TypeOK, AcceptedIsFrozen, files, outcomes, scanner, counters
  <1>1. ASSUME NEW n \in Names, Submit(n) PROVE AcceptedIsFrozen'
    <2>1. \A i \in Ids : frozen[i] # NoManifest => frozen'[i] = frozen[i]
      BY <1>1 DEF Submit, Goes
    <2>2. UNCHANGED <<accepted, receipts>>
      BY <1>1 DEF Submit, Goes
    <2>3. \A d \in accepted : d[2] \in Manifests /\ Submission[d[2]] \in Ids
      BY DEF Ids
    <2>4. \A m \in receipts : m \in Manifests /\ Submission[m] \in Ids
      BY DEF Ids
    <2> QED
      BY <2>1, <2>2, <2>3, <2>4
  <1>2. ASSUME NEW n \in Names, MoveManifest(n) PROVE AcceptedIsFrozen'
    <2>1. incoming[n] = manifest /\ frozen[Submission[manifest]] = manifest
      BY <1>2 DEF MoveManifest, ScanKnows, At
    <2> QED
      BY <1>2, <2>1 DEF MoveManifest
  <1>3. ASSUME NEW n \in Names, WriteReceipt(n) PROVE AcceptedIsFrozen'
    BY <1>3 DEF WriteReceipt, ScanKnows
  <1>4. ASSUME UNCHANGED <<frozen, accepted, receipts>> PROVE AcceptedIsFrozen'
    BY <1>4
  <1>5. ASSUME NEW n \in Names, \/ Commit(n) \/ Ages(n) \/ IntakeFails(n)
                                \/ ReadyWithoutManifest(n) \/ Defer(n) \/ Read(n)
                                \/ MoveMarker(n) \/ QuarantineManifest(n)
                                \/ QuarantineMarker(n) \/ QuarantineReceipt(n)
                                \/ \E m \in Manifests : Drop(n, m)
        PROVE  UNCHANGED <<frozen, accepted, receipts>>
    BY <1>5 DEF Commit, Ages, IntakeFails, ReadyWithoutManifest, Defer, Read,
                MoveMarker, QuarantineManifest, QuarantineMarker, QuarantineReceipt, Drop
  <1>6. CASE BeginScan \/ ScanRaises \/ Dies \/ UNCHANGED vars
    BY <1>4, <1>6 DEF BeginScan, ScanRaises, Dies, vars
  <1> QED
    BY <1>1, <1>2, <1>3, <1>4, <1>5, <1>6 DEF Next, Scan

\* The invariant is inductive.
THEOREM FolderInvariant == Spec => []FolderInv
  <1>1. FolderInv /\ [Next]_vars => FolderInv'
    BY TypeStep, ScanStep, LossStep, FrozenStep DEF FolderInv
  <1> QED
    BY FolderInit, <1>1, PTL DEF Spec

\* Every file and row keeps its type, and only valid manifests are submitted.
THEOREM FolderTypeOK == Spec => []TypeOK
  BY FolderInvariant, PTL DEF FolderInv

\* Whatever call fails and wherever the process dies, a dropped manifest is in
\* incoming/, in accepted/ or in quarantine/.
THEOREM FolderLosesNothing == Spec => []NothingIsLost
  BY FolderInvariant, PTL DEF FolderInv

\* accepted/ and the receipts agree with what create_job froze.
THEOREM FolderAcceptsTheFrozen == Spec => []AcceptedIsFrozen
  BY FolderInvariant, PTL DEF FolderInv

-----------------------------------------------------------------------------
(* The intake.  A scan that is about to write a receipt has moved the file. *)

MovedIsAccepted ==
    stage \in {"marker", "receipt"} =>
        \A n \in Names : At(n) => <<n, manifest>> \in accepted

IntakeStep == [Desk!IntakeNext]_(Desk!desk)

InIncoming == {<<n, incoming[n]>> : n \in {k \in Names : incoming[k] # NoManifest}}

LEMMA Handed ==
  ASSUME NEW n \in Names, NEW m
  PROVE  <<n, m>> \in InIncoming <=> incoming[n] = m /\ m # NoManifest
  BY DEF InIncoming

\* A file appears in incoming/, or leaves it.
LEMMA IncomingGains ==
  ASSUME incoming \in [Names -> Manifests \cup {NoManifest}],
         NEW n \in Names, NEW m \in Manifests,
         incoming[n] = NoManifest, incoming' = [incoming EXCEPT ![n] = m]
  PROVE  InIncoming' = InIncoming \cup {<<n, m>>}
  <1>1. m # NoManifest
    BY FolderAssumption DEF FolderAssumption
  <1> QED
    BY <1>1 DEF InIncoming

LEMMA IncomingLoses ==
  ASSUME incoming \in [Names -> Manifests \cup {NoManifest}],
         NEW n \in Names, incoming[n] # NoManifest,
         incoming' = [incoming EXCEPT ![n] = NoManifest]
  PROVE  InIncoming' = InIncoming \ {<<n, incoming[n]>>}
  BY DEF InIncoming

LEMMA IntakeStutter ==
  ASSUME UNCHANGED <<incoming, frozen, accepted, quarantined, receipts>>
  PROVE  IntakeStep
  BY DEF IntakeStep, Desk!desk

LEMMA IntakeMoves ==
  ASSUME NEW n \in Names, NEW m \in Manifests,
         \/ Desk!HandIn(n, m) \/ Desk!Register(n, m) \/ Desk!Admit(n, m)
         \/ Desk!Refuse(n, m) \/ Desk!Confirm(n, m)
  PROVE  IntakeStep
  <1>1. Desk!IntakeNext
    BY Zenon DEF Desk!IntakeNext
  <1> QED
    BY <1>1 DEF IntakeStep

LEMMA IntakeStarts == Init => MovedIsAccepted /\ Desk!IntakeInit
  <1> SUFFICES ASSUME Init PROVE MovedIsAccepted /\ Desk!IntakeInit
    OBVIOUS
  <1>1. InIncoming = {}
    BY DEF Init, InIncoming
  <1>2. MovedIsAccepted
    BY DEF Init, MovedIsAccepted
  <1> QED
    BY <1>1, <1>2 DEF Init, Desk!IntakeInit, InIncoming, Ids

LEMMA MovedStep ==
    FolderInv /\ MovedIsAccepted /\ [Next]_vars => MovedIsAccepted'
  <1> SUFFICES ASSUME FolderInv, MovedIsAccepted, [Next]_vars PROVE MovedIsAccepted'
    OBVIOUS
  <1> USE DEF FolderInv, TypeOK, MovedIsAccepted, At, files, outcomes, scanner, counters
  <1>1. ASSUME stage' \notin {"marker", "receipt"} PROVE MovedIsAccepted'
    BY <1>1
  <1>2. ASSUME UNCHANGED <<stage, markers, manifest, accepted>> PROVE MovedIsAccepted'
    BY <1>2
  <1>3. ASSUME NEW n \in Names, MoveManifest(n) PROVE MovedIsAccepted'
    <2>1. /\ incoming[n] = manifest /\ accepted' = accepted \cup {<<n, manifest>>}
          /\ UNCHANGED <<markers, manifest>>
      BY <1>3 DEF MoveManifest, Goes, ScanKnows
    <2>2. \A k \in Names : At(k) => k = n
      BY <1>3, AtIsUnique DEF MoveManifest
    <2> QED
      BY <2>1, <2>2
  <1>4. ASSUME NEW n \in Names, MoveMarker(n) PROVE MovedIsAccepted'
    BY <1>4 DEF MoveMarker, Goes
  <1>5. ASSUME NEW n \in Names, \/ IntakeFails(n) \/ ReadyWithoutManifest(n) \/ Defer(n)
                                \/ Read(n) \/ Submit(n) \/ WriteReceipt(n)
                                \/ QuarantineManifest(n) \/ QuarantineMarker(n)
                                \/ QuarantineReceipt(n)
        PROVE  stage' \notin {"marker", "receipt"}
    BY <1>5 DEF IntakeFails, ReadyWithoutManifest, Defer, Read, Submit, WriteReceipt,
                QuarantineManifest, QuarantineMarker, QuarantineReceipt, Goes, Finishes
  <1>6. CASE BeginScan \/ ScanRaises \/ Dies
    BY <1>1, <1>6 DEF BeginScan, ScanRaises, Dies
  <1>7. ASSUME NEW n \in Names, Commit(n) \/ Ages(n) \/ \E m \in Manifests : Drop(n, m)
        PROVE  UNCHANGED <<stage, markers, manifest, accepted>>
    BY <1>7 DEF Commit, Ages, Drop
  <1>8. CASE UNCHANGED vars
    BY <1>2, <1>8 DEF vars
  <1> QED
    BY <1>1, <1>2, <1>3, <1>4, <1>5, <1>6, <1>7, <1>8 DEF Next, Scan

LEMMA IntakeSteps ==
  ASSUME FolderInv, MovedIsAccepted, [Next]_vars
  PROVE  IntakeStep
  <1> USE DEF FolderInv, files, outcomes, scanner, counters
  <1>0. incoming \in [Names -> Manifests \cup {NoManifest}]
    BY DEF TypeOK
  <1>1. ASSUME NEW n \in Names, NEW m \in Manifests, Drop(n, m) PROVE IntakeStep
    <2>1. InIncoming' = InIncoming \cup {<<n, m>>}
      BY <1>0, <1>1, IncomingGains DEF Drop
    <2>2. \A d \in InIncoming : d[1] # n
      BY <1>1 DEF Drop, InIncoming
    <2>3. Desk!HandIn(n, m)
      BY <1>1, <2>1, <2>2 DEF Drop, Desk!HandIn, InIncoming
    <2> QED
      BY <2>3, IntakeMoves
  <1>2. ASSUME NEW n \in Names, Submit(n) PROVE IntakeStep
    <2>1. /\ At(n) /\ stage = "submit" /\ UNCHANGED <<incoming, accepted, quarantined, receipts>>
          /\ incoming[n] = manifest /\ manifest \in Valid /\ manifest \in Manifests
          /\ manifest # NoManifest
      BY <1>2, FolderAssumption DEF FolderAssumption, Submit, ScanKnows, TypeOK
    <2>2. CASE frozen[Submission[manifest]] = NoManifest
      <3>1. frozen' = [frozen EXCEPT ![Submission[manifest]] = manifest]
        BY <1>2, <2>2 DEF Submit
      <3>2. <<n, manifest>> \in InIncoming
        BY <2>1, Handed
      <3>3. Desk!Register(n, manifest)
        BY <2>1, <2>2, <3>1, <3>2 DEF Desk!Register, InIncoming
      <3> QED
        BY <2>1, <3>3, IntakeMoves
    <2>3. CASE frozen[Submission[manifest]] # NoManifest
      <3>1. frozen' = frozen
        BY <1>2, <2>3 DEF Submit, TypeOK
      <3> QED
        BY <2>1, <3>1, IntakeStutter
    <2> QED
      BY <2>2, <2>3
  <1>3. ASSUME NEW n \in Names, MoveManifest(n) PROVE IntakeStep
    <2>1. /\ At(n) /\ stage = "manifest" /\ UNCHANGED <<frozen, quarantined, receipts>>
          /\ incoming[n] = manifest /\ manifest \in Manifests /\ manifest # NoManifest
          /\ frozen[Submission[manifest]] = manifest
          /\ accepted' = accepted \cup {<<n, manifest>>}
      BY <1>3, FolderAssumption DEF FolderAssumption, MoveManifest, ScanKnows, TypeOK
    <2>2. InIncoming' = InIncoming \ {<<n, manifest>>}
      BY <1>0, <1>3, <2>1, IncomingLoses DEF MoveManifest
    <2>3. <<n, manifest>> \in InIncoming
      BY <2>1, Handed
    <2>5. PICK m \in Manifests : m = manifest
      BY <2>1
    <2>4. Desk!Admit(n, m)
      BY <2>1, <2>2, <2>3, <2>5 DEF Desk!Admit, InIncoming
    <2> QED
      BY <2>1, <2>4, IntakeMoves
  <1>4. ASSUME NEW n \in Names, QuarantineManifest(n) PROVE IntakeStep
    <2>1. UNCHANGED <<frozen, accepted, receipts>>
      BY <1>4 DEF QuarantineManifest
    <2>2. CASE incoming[n] = NoManifest
      <3>1. UNCHANGED <<incoming, quarantined>>
        BY <1>0, <1>4, <2>2 DEF QuarantineManifest
      <3> QED
        BY <2>1, <3>1, IntakeStutter
    <2>3. CASE incoming[n] # NoManifest
      <3>1. incoming[n] \in Manifests /\ quarantined' = quarantined \cup {<<n, incoming[n]>>}
        BY <1>0, <1>4, <2>3 DEF QuarantineManifest
      <3>2. InIncoming' = InIncoming \ {<<n, incoming[n]>>}
        BY <1>0, <1>4, <2>3, IncomingLoses DEF QuarantineManifest
      <3>3. <<n, incoming[n]>> \in InIncoming
        BY <2>3, Handed
      <3>5. PICK m \in Manifests : m = incoming[n]
        BY <3>1
      <3>4. Desk!Refuse(n, m)
        BY <2>1, <3>1, <3>2, <3>3, <3>5 DEF Desk!Refuse, InIncoming
      <3> QED
        BY <3>1, <3>4, IntakeMoves
    <2> QED
      BY <2>2, <2>3
  <1>5. ASSUME NEW n \in Names, WriteReceipt(n) PROVE IntakeStep
    <2>1. /\ At(n) /\ stage = "receipt" /\ receipts' = receipts \cup {manifest}
          /\ UNCHANGED <<incoming, frozen, accepted, quarantined>>
          /\ <<n, manifest>> \in accepted /\ manifest \in Manifests
      BY <1>5, FolderAssumption DEF FolderAssumption, WriteReceipt, MovedIsAccepted, TypeOK
    <2>2. Desk!Confirm(n, manifest)
      BY <2>1 DEF Desk!Confirm
    <2> QED
      BY <2>1, <2>2, IntakeMoves
  <1>6. ASSUME NEW n \in Names, \/ Commit(n) \/ Ages(n) \/ IntakeFails(n)
                                \/ ReadyWithoutManifest(n) \/ Defer(n) \/ Read(n)
                                \/ MoveMarker(n) \/ QuarantineMarker(n)
                                \/ QuarantineReceipt(n)
        PROVE  IntakeStep
    BY <1>6, IntakeStutter
       DEF Commit, Ages, IntakeFails, ReadyWithoutManifest, Defer, Read, MoveMarker,
           QuarantineMarker, QuarantineReceipt
  <1>7. CASE BeginScan \/ ScanRaises \/ Dies \/ UNCHANGED vars
    BY <1>7, IntakeStutter DEF BeginScan, ScanRaises, Dies, vars
  <1> QED
    BY <1>1, <1>2, <1>3, <1>4, <1>5, <1>6, <1>7 DEF Next, Scan

\* scan, create_job and the two ways out of incoming/ are an intake: every step
\* decides one manifest, registers one, hands one in, or leaves all as it was.
THEOREM FolderImplementsIntake == Spec => ImplementsIntake
  <1>1. Init => FolderInv /\ MovedIsAccepted /\ Desk!IntakeInit
    BY FolderInit, IntakeStarts
  <1>2. FolderInv /\ [Next]_vars => FolderInv'
    BY TypeStep, ScanStep, LossStep, FrozenStep DEF FolderInv
  <1>3. FolderInv /\ MovedIsAccepted /\ [Next]_vars => MovedIsAccepted' /\ IntakeStep
    BY MovedStep, IntakeSteps
  <1> QED
    BY <1>1, <1>2, <1>3, PTL DEF Spec, ImplementsIntake, Desk!IntakeSpec, IntakeStep

=============================================================================
