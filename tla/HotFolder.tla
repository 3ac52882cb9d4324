------------------------------- MODULE HotFolder -------------------------------
(***************************************************************************)
(* The Hot Folder (ingest.py): producers write NAME.json and then          *)
(* NAME.json.ready; the scan at the start of every cycle submits stable    *)
(* manifests to the queue and moves both files, or quarantines them.       *)
(* Every file operation may fail and the process may die between two.      *)
(***************************************************************************)
EXTENDS Integers, FiniteSets

CONSTANTS
    Names,          \* file names, in glob order
    Manifests,      \* contents, equal when their hashes are
    Valid,          \* those validate_manifest accepts
    Empty,          \* those of no bytes
    Submission,     \* submission_id of each
    NoManifest,
    DropBound,      \* bound of the model: files dropped
    FaultBound,     \* bound of the model: failing calls
    CrashBound      \* bound of the model: deaths

Ids == {Submission[m] : m \in Manifests}

ASSUME FolderAssumption ==
    /\ Names \subseteq Nat
    /\ Valid \subseteq Manifests
    /\ Empty \subseteq Manifests \ Valid
    /\ NoManifest \notin Manifests
    /\ DOMAIN Submission = Manifests
    /\ {DropBound, FaultBound, CrashBound} \subseteq Nat

VARIABLES
    incoming,   \* manifest under each name
    ready,      \* its marker exists
    fresh,      \* either file is younger than stable_seconds
    dropped,    \* <<name, manifest>> ever written
    frozen,     \* manifest the database holds for each submission
    accepted,   \* <<name, manifest>> in accepted/
    quarantined,\* <<name, manifest>> in quarantine/
    receipts,   \* manifests with a receipt
    stage,      \* of the scan
    markers,    \* ready markers it has not finished with
    manifest,   \* what it read
    drops, faults, crashes  \* counters for the bounds

files == <<incoming, ready, fresh, dropped>>
outcomes == <<accepted, quarantined, receipts>>
scanner == <<stage, markers, manifest>>
counters == <<drops, faults, crashes>>
vars == <<files, frozen, outcomes, scanner, counters>>

Stages == {"idle", "next", "submit", "manifest", "marker", "receipt",
           "refuse", "refuse_marker", "refuse_receipt"}

Init ==
    /\ incoming = [n \in Names |-> NoManifest]
    /\ ready = [n \in Names |-> FALSE]
    /\ fresh = [n \in Names |-> FALSE]
    /\ dropped = {} /\ accepted = {} /\ quarantined = {} /\ receipts = {}
    /\ frozen = [i \in Ids |-> NoManifest]
    /\ stage = "idle" /\ markers = {} /\ manifest = NoManifest
    /\ drops = 0 /\ faults = 0 /\ crashes = 0

-----------------------------------------------------------------------------
\* The contract of producers: the manifest first, then the marker.
Drop(n, m) ==
    /\ incoming[n] = NoManifest /\ ~ready[n] /\ drops < DropBound
    /\ incoming' = [incoming EXCEPT ![n] = m]
    /\ fresh' = [fresh EXCEPT ![n] = TRUE]
    /\ dropped' = dropped \cup {<<n, m>>}
    /\ drops' = drops + 1
    /\ UNCHANGED <<ready, frozen, outcomes, scanner, faults, crashes>>

Commit(n) ==
    /\ incoming[n] # NoManifest /\ ~ready[n]
    /\ ready' = [ready EXCEPT ![n] = TRUE]
    /\ fresh' = [fresh EXCEPT ![n] = TRUE]
    /\ UNCHANGED <<incoming, dropped, frozen, outcomes, scanner, counters>>

Ages(n) ==
    /\ fresh[n]
    /\ fresh' = [fresh EXCEPT ![n] = FALSE]
    /\ UNCHANGED <<incoming, ready, dropped, frozen, outcomes, scanner, counters>>

-----------------------------------------------------------------------------
BeginScan ==
    /\ stage = "idle"
    /\ markers' = {n \in Names : ready[n]}
    /\ markers' # {}
    /\ stage' = "next"
    /\ UNCHANGED <<files, frozen, outcomes, manifest, counters>>

At(n) == n \in markers /\ \A k \in markers : n <= k

Goes(to) ==
    /\ stage' = to
    /\ UNCHANGED <<markers, counters>>

\* On to the next marker, or the end of the scan.
Finishes(n) ==
    /\ markers' = markers \ {n}
    /\ stage' = IF markers = {n} THEN "idle" ELSE "next"
    /\ manifest' = NoManifest
    /\ UNCHANGED counters

ReadyWithoutManifest(n) ==
    /\ stage = "next" /\ At(n) /\ incoming[n] = NoManifest
    /\ Goes("refuse_marker")
    /\ UNCHANGED <<files, frozen, outcomes, manifest>>

\* _stable: both files are old enough and the manifest is not empty.  An
\* empty one is deferred again at every scan.
Stable(n) == ~fresh[n] /\ incoming[n] \notin Empty

Defer(n) ==
    /\ stage = "next" /\ At(n) /\ incoming[n] # NoManifest /\ ~Stable(n)
    /\ Finishes(n)
    /\ UNCHANGED <<files, frozen, outcomes>>

\* load_json, validate_manifest
Read(n) ==
    /\ stage = "next" /\ At(n) /\ incoming[n] # NoManifest /\ Stable(n)
    /\ manifest' = incoming[n]
    /\ Goes(IF incoming[n] \in Valid THEN "submit" ELSE "refuse")
    /\ UNCHANGED <<files, frozen, outcomes>>

\* Seeded fault: the newest manifest of a submission wins.
Submit_NewestWins(n) ==
    /\ stage = "submit" /\ At(n)
    /\ frozen' = [frozen EXCEPT ![Submission[manifest]] = manifest]
    /\ Goes("manifest")
    /\ UNCHANGED <<files, outcomes, manifest>>

\* create_job: the first manifest of a submission is frozen, the same one is
\* a duplicate, another one a conflict.
Submit(n) ==
    LET i == Submission[manifest] IN
    /\ stage = "submit" /\ At(n)
    /\ IF frozen[i] \in {NoManifest, manifest}
       THEN frozen' = [frozen EXCEPT ![i] = manifest] /\ Goes("manifest")
       ELSE UNCHANGED frozen /\ Goes("refuse")
    /\ UNCHANGED <<files, outcomes, manifest>>

\* Seeded fault: a manifest whose place is taken is dropped before the move.
MoveManifest_Unlinked(n) ==
    /\ stage = "manifest" /\ At(n)
    /\ accepted' = IF \E k \in Names : <<k, manifest>> \in accepted
                   THEN accepted ELSE accepted \cup {<<n, incoming[n]>>}
    /\ incoming' = [incoming EXCEPT ![n] = NoManifest]
    /\ Goes("marker")
    /\ UNCHANGED <<ready, fresh, dropped, frozen, quarantined, receipts, manifest>>

MoveManifest(n) ==
    /\ stage = "manifest" /\ At(n)
    /\ accepted' = accepted \cup {<<n, incoming[n]>>}
    /\ incoming' = [incoming EXCEPT ![n] = NoManifest]
    /\ Goes("marker")
    /\ UNCHANGED <<ready, fresh, dropped, frozen, quarantined, receipts, manifest>>

MoveMarker(n) ==
    /\ stage = "marker" /\ At(n)
    /\ ready' = [ready EXCEPT ![n] = FALSE]
    /\ Goes("receipt")
    /\ UNCHANGED <<incoming, fresh, dropped, frozen, outcomes, manifest>>

WriteReceipt(n) ==
    /\ stage = "receipt" /\ At(n)
    /\ receipts' = receipts \cup {manifest}
    /\ Finishes(n)
    /\ UNCHANGED <<files, frozen, accepted, quarantined>>

\* Any call of the try block raises: the except clauses quarantine what is
\* still there, although the queue may already have accepted it.
IntakeFails(n) ==
    /\ stage \in {"submit", "manifest", "marker", "receipt"} /\ At(n)
    /\ faults < FaultBound
    /\ faults' = faults + 1
    /\ stage' = "refuse"
    /\ UNCHANGED <<files, frozen, outcomes, markers, manifest, drops, crashes>>

\* _quarantine moves the manifest if it exists, then the marker if it exists.
QuarantineManifest(n) ==
    /\ stage = "refuse" /\ At(n)
    /\ quarantined' = IF incoming[n] = NoManifest THEN quarantined
                      ELSE quarantined \cup {<<n, incoming[n]>>}
    /\ incoming' = [incoming EXCEPT ![n] = NoManifest]
    /\ Goes("refuse_marker")
    /\ UNCHANGED <<ready, fresh, dropped, frozen, accepted, receipts, manifest>>

\* Seeded fault: a refused manifest leaves its marker behind.
QuarantineMarker_Kept(n) ==
    /\ stage = "refuse_marker" /\ At(n)
    /\ Goes("refuse_receipt")
    /\ UNCHANGED <<files, frozen, outcomes, manifest>>

QuarantineMarker(n) ==
    /\ stage = "refuse_marker" /\ At(n)
    /\ ready' = [ready EXCEPT ![n] = FALSE]
    /\ Goes("refuse_receipt")
    /\ UNCHANGED <<incoming, fresh, dropped, frozen, outcomes, manifest>>

\* The receipt lies in the quarantine; receipts/ has none of it.
QuarantineReceipt(n) ==
    /\ stage = "refuse_receipt" /\ At(n)
    /\ Finishes(n)
    /\ UNCHANGED <<files, frozen, outcomes>>

\* An exception in _quarantine, or in the stat calls of _stable, which lie
\* outside the try block, ends the scan and with it the whole cycle.
ScanRaises ==
    /\ \/ stage \in {"refuse", "refuse_marker", "refuse_receipt"}
       \/ stage = "next" /\ \E n \in Names : At(n) /\ incoming[n] # NoManifest
    /\ faults < FaultBound
    /\ faults' = faults + 1
    /\ stage' = "idle" /\ markers' = {} /\ manifest' = NoManifest
    /\ UNCHANGED <<files, frozen, outcomes, drops, crashes>>

Dies ==
    /\ stage # "idle" /\ crashes < CrashBound
    /\ crashes' = crashes + 1
    /\ stage' = "idle" /\ markers' = {} /\ manifest' = NoManifest
    /\ UNCHANGED <<files, frozen, outcomes, drops, faults>>

Scan ==
    \/ BeginScan
    \/ \E n \in Names :
        \/ ReadyWithoutManifest(n) \/ Defer(n) \/ Read(n) \/ Submit(n)
        \/ MoveManifest(n) \/ MoveMarker(n) \/ WriteReceipt(n)
        \/ QuarantineManifest(n) \/ QuarantineMarker(n) \/ QuarantineReceipt(n)

Next ==
    \/ \E n \in Names :
        \/ Commit(n) \/ Ages(n) \/ IntakeFails(n)
        \/ \E m \in Manifests : Drop(n, m)
    \/ Scan \/ ScanRaises \/ Dies

Spec == Init /\ [][Next]_vars

\* Cycles scan again and again; files age.
FairSpec == Spec /\ WF_vars(Scan) /\ \A n \in Names : WF_vars(Ages(n))

-----------------------------------------------------------------------------
(* The type of every variable; a scan has a marker to work on, and only    *)
(* valid manifests are submitted and frozen.                               *)
TypeOK ==
    /\ incoming \in [Names -> Manifests \cup {NoManifest}]
    /\ ready \in [Names -> BOOLEAN] /\ fresh \in [Names -> BOOLEAN]
    /\ frozen \in [Ids -> Valid \cup {NoManifest}]
    /\ dropped \subseteq Names \X Manifests
    /\ accepted \subseteq Names \X Manifests
    /\ quarantined \subseteq Names \X Manifests
    /\ receipts \subseteq Manifests
    /\ stage \in Stages /\ markers \subseteq Names
    /\ manifest \in Manifests \cup {NoManifest}
    /\ drops \in 0..DropBound /\ faults \in 0..FaultBound
    /\ crashes \in 0..CrashBound
    /\ markers = {} <=> stage = "idle"
    /\ stage \in {"submit", "manifest", "marker", "receipt"} => manifest \in Valid

(* No submission is lost: what a producer dropped is still in incoming/,   *)
(* in accepted/ or in quarantine/, whichever calls failed and wherever the *)
(* process died.                                                           *)
NothingIsLost ==
    \A d \in dropped :
        incoming[d[1]] = d[2] \/ d \in accepted \/ d \in quarantined

(* What lies in accepted/ or has a receipt is what the queue froze for its *)
(* submission: the first manifest, never a conflicting one.                *)
AcceptedIsFrozen ==
    /\ \A d \in accepted : frozen[Submission[d[2]]] = d[2]
    /\ \A m \in receipts : frozen[Submission[m]] = m

Desk == INSTANCE Intake WITH
    Places <- Names, Contents <- Manifests, Admissible <- Valid,
    Id <- Submission, Nobody <- NoManifest,
    waiting <- {<<n, incoming[n]>> : n \in {k \in Names : incoming[k] # NoManifest}},
    register <- frozen,
    refused <- quarantined,
    confirmed <- receipts

(* The folder implements the intake: through retries, failing moves,       *)
(* deaths and interrupted scans the first valid manifest of a submission   *)
(* stays registered, a file leaves incoming/ once and for one place, and   *)
(* only the registered manifest is ever accepted and gets a receipt.       *)
ImplementsIntake == Desk!IntakeSpec

(* Every committed drop is consumed, after crashes and failures too,       *)
(* unless its manifest is empty: no scan ever takes or refuses that one.   *)
DropIsConsumed ==
    \A n \in Names : ready[n] /\ incoming[n] \notin Empty ~> ~ready[n]

=============================================================================
