----------------------------- MODULE OutboxProofs -----------------------------
(* What Outbox promises for every set of messages, every batch size and    *)
(* every number of faults and deaths.                                      *)
EXTENDS Outbox, TLAPS, FiniteSetTheorems, WellFoundedInduction

\* A batch is leased as long as it is being sent: reconcile_outbox never runs
\* beside a drain.
BatchIsLeased == \A m \in batch : delivery[m] = "EXECUTING"

\* The relay accepted the message in hand, and nothing is recorded of it yet.
InDoubt(m) == First(m) /\ taken

\* Copies of a message, by what its latest row says.
CopiesFollow ==
    \A m \in Messages :
        /\ delivery[m] \notin Settled /\ ~InDoubt(m) => copies[m] <= doubts[m]
        /\ copies[m] <= 1 + doubts[m]

\* The acceptance in hand, if it will be given up as RETRY, is paid for by the
\* fault that made it, and each one given up before by a fault or a death.
LossesArePaid ==
    /\ IsFiniteSet(Lost)
    /\ Cardinality(Lost) + (IF taken /\ outcome = "RETRY" THEN 1 ELSE 0)
          <= faults + crashes

OutboxInv == TypeOK /\ BatchIsLeased /\ CopiesFollow

LEMMA OutboxInit == Init => OutboxInv
  <1> SUFFICES ASSUME Init PROVE OutboxInv
    OBVIOUS
  <1>1. /\ delivery \in [Messages -> DeliveryStates]
        /\ expired \in [Messages -> BOOLEAN]
        /\ copies \in [Messages -> Nat] /\ doubts \in [Messages -> Nat]
    BY DEF Init, DeliveryStates
  <1>2. /\ faults \in 0..FaultBound /\ crashes \in 0..CrashBound
        /\ policy \subseteq Messages /\ batch = {}
        /\ phase = "off" /\ outcome = "none" /\ fault = "none" /\ taken = FALSE
    BY OutboxAssumption DEF OutboxAssumption, Init
  <1>3. TypeOK
    BY <1>1, <1>2 DEF TypeOK
  <1>4. BatchIsLeased /\ CopiesFollow
    BY <1>2 DEF Init, BatchIsLeased, CopiesFollow
  <1> QED
    BY <1>3, <1>4 DEF OutboxInv

LEMMA FirstIsUnique ==
  ASSUME batch \subseteq Messages, NEW m \in Messages, NEW p \in Messages,
         First(m), First(p)
  PROVE  m = p
  BY OutboxAssumption DEF OutboxAssumption, First

\* What a send leaves for record_outbox_delivery.
LEMMA SendEnds ==
  ASSUME TypeOK, NEW m \in Messages, Send(m)
  PROVE  /\ phase = "send" /\ First(m)
         /\ \E o \in Settled \cup {"RETRY"}, f \in Faults \cup {"none"}, a \in BOOLEAN :
               Ends(m, o, f, a)
         /\ faults' \in 0..FaultBound
  <1> USE OutboxAssumption DEF OutboxAssumption, TypeOK
  <1>1. CASE Revoked(m) \/ Disabled(m) \/ Sent(m)
    BY <1>1 DEF Revoked, Disabled, Sent, Settled
  <1>2. ASSUME NEW f \in Faults, NEW a \in BOOLEAN, SendFails(m, f, a)
        PROVE  /\ phase = "send" /\ First(m)
               /\ Ends(m, Classify(f), f, a)
               /\ Classify(f) \in Settled \cup {"RETRY"}
               /\ faults' \in 0..FaultBound
    BY <1>2 DEF SendFails, Classify, Settled
  <1> QED
    BY <1>1, <1>2 DEF Send

LEMMA OutboxStep == OutboxInv /\ [Next]_vars => OutboxInv'
  <1> SUFFICES ASSUME OutboxInv, [Next]_vars PROVE OutboxInv'
    OBVIOUS
  <1> USE OutboxAssumption
      DEF OutboxAssumption, OutboxInv, TypeOK, BatchIsLeased, CopiesFollow, InDoubt,
          DeliveryStates, process
  <1>1. ASSUME NEW P \in SUBSET Messages, StartProcess(P) PROVE OutboxInv'
    BY <1>1 DEF StartProcess, First
  <1>2. CASE ReconcileOutbox
    <2>1. /\ phase = "idle" /\ phase' = "jobs" /\ batch = {} /\ ~taken
          /\ UNCHANGED <<expired, copies, policy, batch, outcome, fault, taken, doubts,
                         faults, crashes>>
      BY <1>2 DEF ReconcileOutbox
    <2>2. \A m \in Messages :
             \/ delivery'[m] = delivery[m]
             \/ delivery[m] = "EXECUTING" /\ delivery'[m] = "RETRY"
      BY <1>2 DEF ReconcileOutbox, StaleMessages
    <2>3. delivery' \in [Messages -> DeliveryStates]
      BY <1>2 DEF ReconcileOutbox
    <2>4. CopiesFollow'
      BY <2>1, <2>2 DEF First, Settled
    <2> QED
      BY <2>1, <2>3, <2>4
  <1>3. ASSUME NEW m \in Messages, QueueIntent(m) PROVE OutboxInv'
    BY <1>3 DEF QueueIntent, First, Settled
  <1>4. CASE ClaimOutbox
    <2>1. /\ phase = "jobs" /\ batch = {} /\ ~taken /\ batch' = NextBatch
          /\ NextBatch \subseteq Waiting /\ Waiting \subseteq Messages
          /\ phase' = (IF NextBatch = {} THEN "idle" ELSE "send")
          /\ UNCHANGED <<copies, policy, outcome, fault, taken, doubts, faults, crashes>>
      BY <1>4 DEF ClaimOutbox, NextBatch, Waiting
    <2>2. /\ delivery' = [m \in Messages |->
                            IF m \in NextBatch THEN "EXECUTING" ELSE delivery[m]]
          /\ expired' = [m \in Messages |-> expired[m] /\ m \notin NextBatch]
      BY <1>4 DEF ClaimOutbox
    <2>3. \A m \in NextBatch : delivery[m] \notin Settled
      BY <2>1 DEF Waiting, Settled
    <2>4. CopiesFollow'
      BY <2>1, <2>2, <2>3 DEF First
    <2>5. TypeOK'
      BY <2>1, <2>2
    <2> QED
      BY <2>1, <2>2, <2>4, <2>5
  <1>5. ASSUME NEW m \in Messages, Send(m) PROVE OutboxInv'
    <2>1. PICK o \in Settled \cup {"RETRY"}, f \in Faults \cup {"none"}, a \in BOOLEAN :
             Ends(m, o, f, a)
      BY <1>5, SendEnds
    <2>2. phase = "send" /\ First(m) /\ m \in batch /\ faults' \in 0..FaultBound
      BY <1>5, SendEnds DEF First
    <2>3. /\ phase' = "record" /\ outcome' = o /\ fault' = f /\ taken' = a
          /\ UNCHANGED <<delivery, expired, policy, batch, doubts, crashes>>
      BY <2>1 DEF Ends
    <2>4. \A p \in Messages :
             copies'[p] = IF p = m /\ a THEN copies[p] + 1 ELSE copies[p]
      BY <2>1 DEF Ends
    <2>5. copies' \in [Messages -> Nat]
      BY <2>1 DEF Ends
    <2>6. copies[m] <= doubts[m] /\ ~taken
      BY <2>2 DEF Settled
    <2>7. First(m)'
      BY <2>2, <2>3 DEF First
    <2>8. CopiesFollow'
      BY <2>3, <2>4, <2>6, <2>7
    <2>9. o # "none"
      BY DEF Settled
    <2> QED
      BY <2>2, <2>3, <2>5, <2>8, <2>9
  <1>6. ASSUME NEW m \in Messages, RecordDelivery(m) PROVE OutboxInv'
    <2>1. /\ phase = "record" /\ First(m) /\ m \in batch /\ batch' = batch \ {m}
          /\ delivery' = [delivery EXCEPT ![m] = outcome]
          /\ doubts' = [doubts EXCEPT ![m] =
                          @ + (IF taken /\ outcome = "RETRY" THEN 1 ELSE 0)]
          /\ phase' = (IF batch = {m} THEN "idle" ELSE "send")
          /\ outcome' = "none" /\ fault' = "none" /\ taken' = FALSE
          /\ UNCHANGED <<expired, copies, policy, faults, crashes>>
      BY <1>6 DEF RecordDelivery, First
    <2>2. outcome \in Settled \cup {"RETRY"}
      BY <2>1
    <2>3. \A p \in Messages \ {m} : ~First(p)
      BY <2>1, FirstIsUnique
    <2>4. TypeOK'
      <3>1. delivery' \in [Messages -> DeliveryStates]
        BY <2>1, <2>2
      <3>2. doubts' \in [Messages -> Nat]
        <4>1. doubts[m] + (IF taken /\ outcome = "RETRY" THEN 1 ELSE 0) \in Nat
          OBVIOUS
        <4> QED
          BY <2>1, <4>1
      <3>3. batch' # {} <=> phase' \in {"send", "record"}
        BY <2>1
      <3> QED
        BY <2>1, <3>1, <3>2, <3>3
    <2>5. CopiesFollow'
      <3> SUFFICES ASSUME NEW p \in Messages
                   PROVE  /\ delivery'[p] \notin Settled => copies[p] <= doubts'[p]
                          /\ copies[p] <= 1 + doubts'[p]
        BY <2>1
      <3>1. CASE p = m
        BY <2>1, <2>2, <3>1 DEF Settled
      <3>2. CASE p # m
        BY <2>1, <2>3, <3>2
      <3> QED
        BY <3>1, <3>2
    <2> QED
      BY <2>1, <2>4, <2>5
  <1>7. CASE ProcessEnds
    <2>1. /\ doubts' = [m \in Messages |->
                          doubts[m] + (IF First(m) /\ taken THEN 1 ELSE 0)]
          /\ phase' = "off" /\ policy' = {} /\ batch' = {} /\ crashes' \in 0..CrashBound
          /\ outcome' = "none" /\ fault' = "none" /\ taken' = FALSE
          /\ UNCHANGED <<delivery, expired, copies, faults>>
      BY <1>7 DEF ProcessEnds
    <2>2. doubts' \in [Messages -> Nat]
      <3>1. ASSUME NEW m \in Messages
            PROVE  doubts[m] + (IF First(m) /\ taken THEN 1 ELSE 0) \in Nat
        OBVIOUS
      <3> QED
        BY <2>1, <3>1
    <2>3. CopiesFollow'
      BY <2>1
    <2> QED
      BY <2>1, <2>2, <2>3
  <1>8. ASSUME NEW m \in Messages, LeaseExpires(m) PROVE OutboxInv'
    BY <1>8 DEF LeaseExpires, First
  <1>9. CASE UNCHANGED vars
    BY <1>9 DEF vars, First
  <1> QED
    BY <1>1, <1>2, <1>3, <1>4, <1>5, <1>6, <1>7, <1>8, <1>9 DEF Next, Cycle

LEMMA OneMore ==
  ASSUME NEW S, NEW x, IsFiniteSet(S)
  PROVE  /\ IsFiniteSet(S \cup {x}) /\ Cardinality(S \cup {x}) <= Cardinality(S) + 1
         /\ Cardinality(S \cup {x}) \in Nat
  <1>1. Cardinality(S) \in Nat
    BY FS_CardinalityType
  <1>2. /\ IsFiniteSet(S \cup {x})
        /\ Cardinality(S \cup {x}) \in {Cardinality(S), Cardinality(S) + 1}
    BY FS_AddElement
  <1> QED
    BY <1>1, <1>2

LEMMA LostGrows ==
  ASSUME doubts \in [Messages -> Nat], NEW m \in Messages, IsFiniteSet(Lost),
         \A p \in Messages \ {m} : doubts'[p] = doubts[p],
         doubts'[m] \in {doubts[m], doubts[m] + 1}
  PROVE  /\ IsFiniteSet(Lost') /\ Cardinality(Lost') \in Nat /\ Cardinality(Lost) \in Nat
         /\ Cardinality(Lost') <= Cardinality(Lost) + (doubts'[m] - doubts[m])
  <1> DEFINE more == Lost \cup {<<m, doubts[m] + 1>>}
  <1>1. Cardinality(Lost) \in Nat
    BY FS_CardinalityType
  <1>2. CASE doubts'[m] = doubts[m]
    <2>1. \A p \in Messages : doubts'[p] = doubts[p]
      BY <1>2
    <2>2. Lost' = Lost
      BY <2>1 DEF Lost
    <2>3. doubts'[m] - doubts[m] = 0
      BY <1>2
    <2>4. IsFiniteSet(Lost') /\ Cardinality(Lost') = Cardinality(Lost)
      BY <2>2
    <2> QED
      BY <1>1, <2>3, <2>4
  <1>3. CASE doubts'[m] = doubts[m] + 1
    <2>1. IsFiniteSet(more) /\ Cardinality(more) <= Cardinality(Lost) + 1
          /\ Cardinality(more) \in Nat
      BY OneMore
    <2>2. Lost' \subseteq more
      <3> SUFFICES ASSUME NEW p \in Messages, NEW k \in 1..doubts'[p]
                   PROVE  <<p, k>> \in more
        BY DEF Lost
      <3>1. CASE k \in 1..doubts[p]
        BY <3>1 DEF Lost
      <3>2. CASE k \notin 1..doubts[p]
        BY <1>3, <3>2
      <3> QED
        BY <3>1, <3>2
    <2> HIDE DEF more
    <2>3. IsFiniteSet(Lost') /\ Cardinality(Lost') <= Cardinality(more)
      BY <2>1, <2>2, FS_Subset
    <2>4. Cardinality(Lost') \in Nat
      BY <2>3, FS_CardinalityType
    <2>5. doubts'[m] - doubts[m] = 1
      BY <1>3
    <2> QED
      BY <1>1, <2>1, <2>3, <2>4, <2>5
  <1> QED
    BY <1>2, <1>3

LEMMA LossesStep == OutboxInv /\ LossesArePaid /\ [Next]_vars => LossesArePaid'
  <1> SUFFICES ASSUME OutboxInv, LossesArePaid, [Next]_vars PROVE LossesArePaid'
    OBVIOUS
  <1>0. /\ doubts \in [Messages -> Nat] /\ faults \in Nat /\ crashes \in Nat
        /\ Cardinality(Lost) \in Nat /\ batch \subseteq Messages
        /\ taken => phase = "record"
    BY OutboxAssumption, FS_CardinalityType
       DEF OutboxAssumption, OutboxInv, TypeOK, LossesArePaid
  <1>1. ASSUME UNCHANGED <<doubts, outcome, taken, faults, crashes>> PROVE LossesArePaid'
    BY <1>1 DEF LossesArePaid, Lost
  <1>2. ASSUME NEW m \in Messages, Send(m) PROVE LossesArePaid'
    <2>1. UNCHANGED <<doubts, crashes>> /\ ~taken
      BY <1>0, <1>2 DEF Send, Revoked, Disabled, Sent, SendFails, Ends
    <2>2. UNCHANGED Lost
      BY <2>1 DEF Lost
    <2>3. CASE Revoked(m) \/ Disabled(m) \/ Sent(m)
      <3>1. UNCHANGED faults /\ outcome' # "RETRY"
        BY <2>3 DEF Revoked, Disabled, Sent, Ends
      <3> QED
        BY <1>0, <2>1, <2>2, <3>1 DEF LossesArePaid
    <2>4. ASSUME NEW f \in Faults, NEW a \in BOOLEAN, SendFails(m, f, a)
          PROVE  LossesArePaid'
      <3>1. faults' = faults + 1
        BY <2>4 DEF SendFails
      <3> QED
        BY <1>0, <2>1, <2>2, <3>1 DEF LossesArePaid
    <2> QED
      BY <1>2, <2>3, <2>4 DEF Send
  <1>3. ASSUME NEW m \in Messages, RecordDelivery(m) PROVE LossesArePaid'
    <2>1. /\ doubts' = [doubts EXCEPT ![m] =
                           @ + (IF taken /\ outcome = "RETRY" THEN 1 ELSE 0)]
          /\ taken' = FALSE /\ UNCHANGED <<faults, crashes>>
      BY <1>3 DEF RecordDelivery
    <2>2. /\ \A p \in Messages \ {m} : doubts'[p] = doubts[p]
          /\ doubts'[m] = doubts[m] + (IF taken /\ outcome = "RETRY" THEN 1 ELSE 0)
      BY <1>0, <2>1
    <2>3. /\ IsFiniteSet(Lost') /\ Cardinality(Lost') \in Nat
          /\ Cardinality(Lost') <= Cardinality(Lost) + (doubts'[m] - doubts[m])
      BY <1>0, <2>2, LostGrows DEF LossesArePaid
    <2>4. doubts'[m] - doubts[m] = IF taken /\ outcome = "RETRY" THEN 1 ELSE 0
      BY <1>0, <2>2
    <2> QED
      BY <1>0, <2>1, <2>3, <2>4 DEF LossesArePaid
  <1>4. CASE ProcessEnds
    <2>1. /\ doubts' = [m \in Messages |->
                          doubts[m] + (IF First(m) /\ taken THEN 1 ELSE 0)]
          /\ taken' = FALSE /\ crashes' = crashes + 1 /\ UNCHANGED faults
      BY <1>4 DEF ProcessEnds
    <2>2. CASE \A m \in Messages : ~InDoubt(m)
      <3>1. \A m \in Messages : doubts'[m] = doubts[m]
        BY <1>0, <2>1, <2>2 DEF InDoubt
      <3>2. Lost' = Lost
        BY <3>1 DEF Lost
      <3> QED
        BY <1>0, <2>1, <3>2 DEF LossesArePaid
    <2>3. ASSUME NEW m \in Messages, InDoubt(m) PROVE LossesArePaid'
      <3>1. \A p \in Messages \ {m} : ~First(p)
        BY <1>0, <2>3, FirstIsUnique DEF InDoubt
      <3>2. /\ \A p \in Messages \ {m} : doubts'[p] = doubts[p]
            /\ doubts'[m] = doubts[m] + 1
        BY <1>0, <2>1, <2>3, <3>1 DEF InDoubt
      <3>3. /\ IsFiniteSet(Lost') /\ Cardinality(Lost') \in Nat
            /\ Cardinality(Lost') <= Cardinality(Lost) + (doubts'[m] - doubts[m])
        BY <1>0, <3>2, LostGrows DEF LossesArePaid
      <3>4. doubts'[m] - doubts[m] = 1
        BY <1>0, <3>2
      <3> QED
        BY <1>0, <2>1, <3>3, <3>4 DEF LossesArePaid
    <2> QED
      BY <2>2, <2>3
  <1>5. CASE \/ \E P \in SUBSET Messages : StartProcess(P)
             \/ ReconcileOutbox \/ ClaimOutbox
             \/ \E m \in Messages : QueueIntent(m) \/ LeaseExpires(m)
             \/ UNCHANGED vars
    BY <1>1, <1>5 DEF StartProcess, ReconcileOutbox, ClaimOutbox, QueueIntent, LeaseExpires,
                      process, vars
  <1> QED
    BY <1>2, <1>3, <1>4, <1>5 DEF Next, Cycle

\* OutboxInv is an invariant of the outbox.
THEOREM OutboxInvariant == Spec => []OutboxInv
  BY OutboxInit, OutboxStep, PTL DEF Spec

\* The rows and the local state of the drain keep their types.
THEOREM OutboxTypeOK == Spec => []TypeOK
  <1>1. OutboxInv => TypeOK
    BY DEF OutboxInv
  <1> QED
    BY <1>1, OutboxInvariant, PTL

\* send, reconcile_outbox and record_outbox_delivery deliver at least once: the
\* relay accepts a message once, and once more for each acceptance that was
\* lost, and all of these together are no more than the faults and deaths.
THEOREM OutboxCopies == Spec => []CopiesAreAccountedFor
  <1>1. Init => LossesArePaid
    <2> SUFFICES ASSUME Init PROVE LossesArePaid
      OBVIOUS
    <2>1. Lost = {} /\ ~taken /\ faults = 0 /\ crashes = 0
      BY DEF Init, Lost
    <2> QED
      BY <2>1, FS_EmptySet DEF LossesArePaid
  <1>2. OutboxInv /\ LossesArePaid => CopiesAreAccountedFor
    <2> SUFFICES ASSUME OutboxInv, LossesArePaid PROVE CopiesAreAccountedFor
      OBVIOUS
    <2>1. Cardinality(Lost) \in Nat /\ faults \in Nat /\ crashes \in Nat
      BY OutboxAssumption, FS_CardinalityType
         DEF OutboxAssumption, OutboxInv, TypeOK, LossesArePaid
    <2>2. Cardinality(Lost) <= faults + crashes
      BY <2>1 DEF LossesArePaid
    <2> QED
      BY <2>2 DEF OutboxInv, CopiesFollow, CopiesAreAccountedFor
  <1> QED
    BY <1>1, <1>2, OutboxInvariant, LossesStep, PTL DEF Spec

\* record_outbox_delivery appends blindly, yet a settled message stays settled:
\* whoever writes holds the lease.
THEOREM OutboxSettledIsFinal == Spec => SettledIsFinal
  <1>1. ASSUME OutboxInv, [Next]_vars, NEW m \in Messages, delivery[m] \in Settled
        PROVE  delivery'[m] = delivery[m]
    <2>1. delivery[m] \notin {"ABSENT", "PENDING", "RETRY", "EXECUTING"} /\ m \notin batch
      BY <1>1 DEF OutboxInv, BatchIsLeased, Settled
    <2>2. CASE ReconcileOutbox
      BY <2>1, <2>2 DEF ReconcileOutbox, StaleMessages
    <2>3. CASE ClaimOutbox
      BY <2>1, <2>3 DEF ClaimOutbox, NextBatch, Waiting
    <2>4. ASSUME NEW p \in Messages, QueueIntent(p) \/ RecordDelivery(p)
          PROVE  delivery'[m] = delivery[m]
      BY <1>1, <2>1, <2>4 DEF QueueIntent, RecordDelivery, First, OutboxInv, TypeOK
    <2> QED
      BY <1>1, <2>2, <2>3, <2>4
         DEF Next, Cycle, StartProcess, Send, Revoked, Disabled, Sent, SendFails, Ends,
             LeaseExpires, ProcessEnds, vars
  <1>2. OutboxInv /\ [Next]_vars =>
          [\A m \in Messages : delivery[m] \in Settled => delivery'[m] = delivery[m]]_vars
    BY <1>1
  <1> QED
    BY <1>2, OutboxInvariant, PTL DEF SettledIsFinal, Spec

-----------------------------------------------------------------------------
(* The mailbox.  What the drain holds back from the rows is one acceptance *)
(* at most, of the message in hand.                                        *)

MailKept ==
    /\ phase = "record" /\ outcome = "SENT" => taken
    /\ phase = "record" /\ outcome = "POLICY_REVOKED" => ~taken
    /\ \A m \in Messages :
          delivery[m] \notin Settled =>
              copies[m] = doubts[m] + (IF InDoubt(m) THEN 1 ELSE 0)

MailInv == OutboxInv /\ MailKept

MailStep == [Mail!MailNext]_(Mail!mail)

LEMMA ResultCases ==
  ASSUME NEW m \in Messages, delivery \in [Messages -> DeliveryStates]
  PROVE  /\ delivery[m] = "ABSENT" <=> ResultOf(m) = "none"
         /\ delivery[m] \in {"PENDING", "EXECUTING", "RETRY"} <=> ResultOf(m) = "open"
         /\ delivery[m] \in Settled => ResultOf(m) = delivery[m]
  BY DEF ResultOf, DeliveryStates, Settled

LEMMA MailInit == Init => MailKept /\ Mail!MailInit
  <1> SUFFICES ASSUME Init PROVE MailKept /\ Mail!MailInit
    OBVIOUS
  <1>1. MailKept
    BY DEF Init, MailKept, InDoubt, First
  <1>2. [m \in Messages |-> ResultOf(m)] = [m \in Messages |-> "none"]
    BY DEF Init, ResultOf, Settled
  <1> QED
    BY <1>1, <1>2 DEF Init, Mail!MailInit

\* What leaves every row's result and every counter alone is a stutter.
LEMMA MailStutter ==
  ASSUME UNCHANGED <<copies, doubts>>,
         \A m \in Messages : ResultOf(m)' = ResultOf(m)
  PROVE  MailStep
  <1>1. [m \in Messages |-> ResultOf(m)]' = [m \in Messages |-> ResultOf(m)]
    OBVIOUS
  <1> QED
    BY <1>1 DEF MailStep, Mail!mail

LEMMA SendDelivers ==
  ASSUME MailInv, NEW m \in Messages, Send(m)
  PROVE  MailKept' /\ MailStep
  <1> USE DEF MailInv, OutboxInv, TypeOK
  <1>1. PICK o \in Settled \cup {"RETRY"}, f \in Faults \cup {"none"}, a \in BOOLEAN :
           /\ Ends(m, o, f, a)
           /\ o = "SENT" => a
           /\ o = "POLICY_REVOKED" => ~a
    <2>1. CASE Revoked(m)
      BY <2>1 DEF Revoked, Settled
    <2>3. CASE Disabled(m)
      BY <2>3 DEF Disabled, Settled
    <2>4. CASE Sent(m)
      <3>1. Ends(m, "SENT", "none", TRUE)
        BY <2>4 DEF Sent
      <3>2. /\ "SENT" \in Settled \cup {"RETRY"} /\ "SENT" # "POLICY_REVOKED"
            /\ "none" \in Faults \cup {"none"} /\ TRUE \in BOOLEAN
        BY DEF Settled
      <3> QED
        BY <3>1, <3>2, Zenon
    <2>2. ASSUME NEW f \in Faults, NEW a \in BOOLEAN, SendFails(m, f, a)
          PROVE  /\ Ends(m, Classify(f), f, a)
                 /\ Classify(f) \in {"RETRY", "PERMANENT"}
      BY <2>2 DEF SendFails, Classify
    <2> QED
      BY <2>1, <2>2, <2>3, <2>4 DEF Send, Settled
  <1>2. phase = "send" /\ First(m) /\ m \in batch
    BY SendEnds DEF First
  <1>3. delivery[m] = "EXECUTING" /\ delivery[m] \notin Settled /\ ~taken
    BY <1>2 DEF BatchIsLeased, Settled
  <1>4. copies[m] = doubts[m]
    BY <1>3 DEF MailKept, InDoubt
  <1>5. /\ phase' = "record" /\ outcome' = o /\ taken' = a
        /\ UNCHANGED <<delivery, batch, doubts>>
        /\ copies' = IF a THEN [copies EXCEPT ![m] = @ + 1] ELSE copies
    BY <1>1 DEF Ends
  <1>6. \A p \in Messages : First(p)' <=> First(p)
    BY <1>5 DEF First
  <1>7. \A p \in Messages : First(p) <=> p = m
    BY <1>2, FirstIsUnique
  <1>8. MailKept'
    <2>1. ASSUME NEW p \in Messages, delivery[p] \notin Settled
          PROVE  copies'[p] = doubts[p] + (IF p = m /\ a THEN 1 ELSE 0)
      <3>1. copies[p] = doubts[p]
        BY <1>3, <2>1 DEF MailKept, InDoubt
      <3> QED
        BY <1>5, <3>1
    <2> QED
      BY <1>1, <1>5, <1>6, <1>7, <2>1 DEF MailKept, InDoubt
  <1> SUFFICES MailStep
    BY <1>8
  <1>9. \A p \in Messages : ResultOf(p)' = ResultOf(p)
    BY <1>5 DEF ResultOf
  <1>10. CASE ~a
    BY <1>5, <1>9, <1>10, MailStutter
  <1>11. CASE a
    <2>1. ResultOf(m) = "open"
      BY <1>3, ResultCases
    <2>2. [p \in Messages |-> ResultOf(p)]' = [p \in Messages |-> ResultOf(p)]
      BY <1>9
    <2>3. Mail!Deliver(m)
      BY <1>4, <1>5, <1>11, <2>1, <2>2 DEF Mail!Deliver
    <2> QED
      BY <2>3 DEF MailStep, Mail!MailNext
  <1> QED
    BY <1>10, <1>11

LEMMA RecordSettles ==
  ASSUME MailInv, NEW m \in Messages, RecordDelivery(m)
  PROVE  MailKept' /\ MailStep
  <1> USE DEF MailInv, OutboxInv, TypeOK
  <1>1. /\ phase = "record" /\ First(m) /\ m \in batch
        /\ phase' # "record" /\ taken' = FALSE /\ UNCHANGED copies
        /\ delivery' = [delivery EXCEPT ![m] = outcome]
        /\ doubts' = [doubts EXCEPT ![m] =
                        @ + (IF taken /\ outcome = "RETRY" THEN 1 ELSE 0)]
    BY DEF RecordDelivery, First
  <1>2. outcome \in Settled \cup {"RETRY"} /\ "RETRY" \notin Settled
    BY <1>1 DEF Settled
  <1>3. delivery[m] = "EXECUTING" /\ delivery[m] \notin Settled
    BY <1>1 DEF BatchIsLeased, Settled
  <1>4. \A p \in Messages : First(p) <=> p = m
    BY <1>1, FirstIsUnique
  <1>5. copies[m] = doubts[m] + (IF taken THEN 1 ELSE 0)
    BY <1>1, <1>3 DEF MailKept, InDoubt
  <1>6. \A p \in Messages \ {m} : delivery[p] \notin Settled => copies[p] = doubts[p]
    BY <1>4 DEF MailKept, InDoubt
  <1>7. MailKept'
    <2>1. ASSUME NEW p \in Messages, delivery'[p] \notin Settled
          PROVE  copies[p] = doubts'[p]
      <3>1. CASE p = m
        BY <1>1, <1>2, <1>5, <2>1, <3>1
      <3>2. CASE p # m
        BY <1>1, <1>6, <2>1, <3>2
      <3> QED
        BY <3>1, <3>2
    <2> QED
      BY <1>1, <2>1 DEF MailKept, InDoubt
  <1> SUFFICES MailStep
    BY <1>7
  <1>8. ResultOf(m) = "open"
    BY <1>3, ResultCases
  <1>9. \A p \in Messages \ {m} : ResultOf(p)' = ResultOf(p)
    BY <1>1 DEF ResultOf
  <1>10. CASE outcome \in Settled
    <2>1. ResultOf(m)' = outcome
      BY <1>1, <1>10 DEF ResultOf, Settled
    <2>2. [p \in Messages |-> ResultOf(p)]'
            = [[p \in Messages |-> ResultOf(p)] EXCEPT ![m] = outcome]
      BY <1>9, <2>1
    <2>3. UNCHANGED doubts
      BY <1>1, <1>2, <1>10
    <2>4. /\ outcome = "SENT" => copies[m] = doubts[m] + 1
          /\ outcome = "POLICY_REVOKED" => copies[m] # doubts[m] + 1
      BY <1>1, <1>5 DEF MailKept
    <2>5. Mail!Settle(m, outcome)
      BY <1>1, <1>8, <2>2, <2>3, <2>4 DEF Mail!Settle, Mail!Pending
    <2>6. outcome \in Mail!Results
      BY <1>10 DEF Mail!Results, Settled
    <2> QED
      BY <2>5, <2>6 DEF MailStep, Mail!MailNext
  <1>11. CASE outcome = "RETRY"
    <2>1. ResultOf(m)' = "open"
      BY <1>1, <1>11 DEF ResultOf, Settled
    <2>2. \A p \in Messages : ResultOf(p)' = ResultOf(p)
      BY <1>8, <1>9, <2>1
    <2>3. CASE ~taken
      <3>1. UNCHANGED doubts
        BY <1>1, <2>3
      <3> QED
        BY <1>1, <2>2, <3>1, MailStutter
    <2>4. CASE taken
      <3>1. doubts' = [doubts EXCEPT ![m] = @ + 1]
        BY <1>1, <1>11, <2>4
      <3>2. [p \in Messages |-> ResultOf(p)]' = [p \in Messages |-> ResultOf(p)]
        BY <2>2
      <3>3. Mail!Lose(m)
        BY <1>1, <1>5, <1>8, <2>4, <3>1, <3>2 DEF Mail!Lose, Mail!Pending
      <3> QED
        BY <3>3 DEF MailStep, Mail!MailNext
    <2> QED
      BY <2>3, <2>4
  <1> QED
    BY <1>2, <1>10, <1>11

LEMMA DeathLoses ==
  ASSUME MailInv, ProcessEnds
  PROVE  MailKept' /\ MailStep
  <1> USE DEF MailInv, OutboxInv, TypeOK
  <1>1. /\ doubts' = [m \in Messages |->
                        doubts[m] + (IF First(m) /\ taken THEN 1 ELSE 0)]
        /\ phase' = "off" /\ taken' = FALSE /\ UNCHANGED <<delivery, copies>>
    BY DEF ProcessEnds
  <1>2. MailKept'
    BY <1>1 DEF MailKept, InDoubt
  <1> SUFFICES MailStep
    BY <1>2
  <1>3. \A p \in Messages : ResultOf(p)' = ResultOf(p)
    BY <1>1 DEF ResultOf
  <1>4. CASE \A m \in Messages : ~InDoubt(m)
    <2>1. doubts' = doubts
      BY <1>1, <1>4 DEF InDoubt
    <2> QED
      BY <1>1, <1>3, <2>1, MailStutter
  <1>5. ASSUME NEW m \in Messages, InDoubt(m)
        PROVE  MailStep
    <2>1. taken /\ First(m)
      BY <1>5 DEF InDoubt
    <2>7. \A p \in Messages : First(p) <=> p = m
      BY <2>1, FirstIsUnique
    <2>2. doubts' = [doubts EXCEPT ![m] = @ + 1]
      <3>1. doubts \in [Messages -> Nat]
        OBVIOUS
      <3>2. doubts' = [p \in Messages |-> IF p = m THEN doubts[p] + 1 ELSE doubts[p] + 0]
        BY <1>1, <2>1, <2>7
      <3>3. \A p \in Messages : doubts[p] + 0 = doubts[p]
        BY <3>1
      <3> QED
        BY <3>1, <3>2, <3>3
    <2>3. delivery[m] = "EXECUTING" /\ delivery[m] \notin Settled
      BY <2>1 DEF BatchIsLeased, First, Settled
    <2>4. ResultOf(m) = "open" /\ copies[m] = doubts[m] + 1
      BY <1>5, <2>3, ResultCases DEF MailKept
    <2>5. [p \in Messages |-> ResultOf(p)]' = [p \in Messages |-> ResultOf(p)]
      BY <1>3
    <2>6. Mail!Lose(m)
      BY <1>1, <2>2, <2>4, <2>5 DEF Mail!Lose, Mail!Pending
    <2> QED
      BY <2>6 DEF MailStep, Mail!MailNext
  <1> QED
    BY <1>4, <1>5

LEMMA MailSteps ==
  ASSUME MailInv, [Next]_vars
  PROVE  MailKept' /\ MailStep
  <1> USE DEF MailInv, OutboxInv, TypeOK
  <1>1. ASSUME NEW P \in SUBSET Messages, StartProcess(P) PROVE MailKept' /\ MailStep
    BY <1>1, MailStutter DEF StartProcess, MailKept, InDoubt, First, ResultOf
  <1>2. CASE ReconcileOutbox
    <2>1. /\ phase' = "jobs" /\ ~taken /\ UNCHANGED <<copies, batch, taken, doubts>>
          /\ \A m \in Messages :
               \/ delivery'[m] = delivery[m]
               \/ delivery[m] = "EXECUTING" /\ delivery'[m] = "RETRY"
      BY <1>2 DEF ReconcileOutbox, StaleMessages
    <2>2. \A m \in Messages : ResultOf(m)' = ResultOf(m)
      BY <2>1 DEF ResultOf, Settled
    <2>3. MailKept'
      BY <2>1 DEF MailKept, InDoubt, First, Settled
    <2> QED
      BY <2>1, <2>2, <2>3, MailStutter
  <1>3. ASSUME NEW m \in Messages, QueueIntent(m) PROVE MailKept' /\ MailStep
    <2>1. /\ delivery[m] = "ABSENT" /\ delivery' = [delivery EXCEPT ![m] = "PENDING"]
          /\ UNCHANGED <<copies, doubts, phase, batch, taken, outcome>>
      BY <1>3 DEF QueueIntent, process
    <2>2. MailKept'
      BY <2>1 DEF MailKept, InDoubt, First, Settled
    <2>3. ResultOf(m) = "none" /\ ResultOf(m)' = "open"
      BY <2>1 DEF ResultOf, Settled
    <2>4. \A p \in Messages \ {m} : ResultOf(p)' = ResultOf(p)
      BY <2>1 DEF ResultOf
    <2>5. [p \in Messages |-> ResultOf(p)]'
            = [[p \in Messages |-> ResultOf(p)] EXCEPT ![m] = "open"]
      BY <2>3, <2>4
    <2>6. Mail!Post(m)
      BY <2>1, <2>3, <2>5 DEF Mail!Post
    <2> QED
      BY <2>2, <2>6 DEF MailStep, Mail!MailNext
  <1>4. CASE ClaimOutbox
    <2>1. /\ ~taken /\ phase' # "record" /\ UNCHANGED <<copies, taken, doubts>>
          /\ \A m \in Messages :
               \/ delivery'[m] = delivery[m]
               \/ delivery[m] \in {"PENDING", "RETRY"} /\ delivery'[m] = "EXECUTING"
      BY <1>4 DEF ClaimOutbox, NextBatch, Waiting
    <2>2. \A m \in Messages : ResultOf(m)' = ResultOf(m)
      BY <2>1 DEF ResultOf, Settled
    <2>3. MailKept'
      BY <2>1 DEF MailKept, InDoubt, Settled
    <2> QED
      BY <2>1, <2>2, <2>3, MailStutter
  <1>5. ASSUME NEW m \in Messages, Send(m) PROVE MailKept' /\ MailStep
    BY <1>5, SendDelivers
  <1>6. ASSUME NEW m \in Messages, RecordDelivery(m) PROVE MailKept' /\ MailStep
    BY <1>6, RecordSettles
  <1>7. CASE ProcessEnds
    BY <1>7, DeathLoses
  <1>8. ASSUME NEW m \in Messages, LeaseExpires(m) PROVE MailKept' /\ MailStep
    BY <1>8, MailStutter DEF LeaseExpires, process, MailKept, InDoubt, First, ResultOf
  <1>9. CASE UNCHANGED vars
    BY <1>9, MailStutter DEF vars, process, MailKept, InDoubt, First, ResultOf
  <1> QED
    BY <1>1, <1>2, <1>3, <1>4, <1>5, <1>6, <1>7, <1>8, <1>9 DEF Next, Cycle

\* claim_outbox, send, record_outbox_delivery and reconcile_outbox together
\* are a mailbox: every step is one of its steps or leaves it as it is.
THEOREM OutboxImplementsMailbox == Spec => ImplementsMailbox
  <1>1. Init => MailInv /\ Mail!MailInit
    BY OutboxInit, MailInit DEF MailInv
  <1>2. MailInv /\ [Next]_vars => MailInv' /\ MailStep
    BY OutboxStep, MailSteps DEF MailInv
  <1> QED
    BY <1>1, <1>2, PTL DEF Spec, ImplementsMailbox, Mail!MailSpec, MailStep

-----------------------------------------------------------------------------
(* claim_outbox.  Messages may be any set of numbers, also an infinite one: *)
(* that a batch is finite is part of what is shown.                        *)

Older(m) == {p \in Waiting : p < m}

LEMMA OlderFinite ==
  ASSUME NEW m \in Messages
  PROVE  IsFiniteSet(Older(m)) /\ Cardinality(Older(m)) \in Nat
  <1>1. m \in Nat /\ Older(m) \subseteq 0..m
    <2>1. m \in Nat /\ \A p \in Older(m) : p \in Nat /\ p < m
      BY OutboxAssumption DEF OutboxAssumption, Older, Waiting
    <2> QED
      BY <2>1
  <1> DEFINE below == 0..m
  <1>2. IsFiniteSet(below)
    BY <1>1, FS_Interval
  <1> HIDE DEF below
  <1>3. Older(m) \subseteq below
    BY <1>1 DEF below
  <1> QED
    BY <1>2, <1>3, FS_Subset, FS_CardinalityType

\* A later message has more older ones: at least the one it is later than.
LEMMA OlderGrows ==
  ASSUME NEW m \in Waiting, NEW p \in Waiting, m < p
  PROVE  Cardinality(Older(m)) < Cardinality(Older(p))
  <1>1. m \in Messages /\ p \in Messages /\ m \in Nat /\ p \in Nat
    BY OutboxAssumption DEF OutboxAssumption, Waiting
  <1>2. Older(m) \subseteq Older(p) /\ Older(m) # Older(p)
    <2>1. m \in Older(p) /\ m \notin Older(m)
      BY <1>1 DEF Older
    <2>2. ASSUME NEW q \in Older(m) PROVE q \in Older(p)
      <3>1. q \in Waiting /\ q < m /\ q \in Nat
        BY <2>2, OutboxAssumption DEF OutboxAssumption, Older, Waiting
      <3> QED
        BY <1>1, <3>1 DEF Older
    <2> QED
      BY <2>1, <2>2
  <1>3. IsFiniteSet(Older(p)) /\ Cardinality(Older(p)) \in Nat
        /\ Cardinality(Older(m)) \in Nat
    BY <1>1, OlderFinite
  <1> QED
    BY <1>2, <1>3, FS_Subset

\* The query of claim_outbox returns at most Limit rows.
LEMMA BatchFits == IsFiniteSet(NextBatch) /\ Cardinality(NextBatch) <= Limit
  <1> DEFINE places == 0..(Limit - 1)
             place == [m \in NextBatch |-> Cardinality(Older(m))]
  <1>1. Limit \in Nat /\ Limit > 0
    BY OutboxAssumption DEF OutboxAssumption
  <1>2. IsFiniteSet(places) /\ Cardinality(places) = Limit
    BY <1>1, FS_Interval
  <1>3. ASSUME NEW m \in NextBatch
        PROVE  m \in Messages /\ m \in Waiting /\ m \in Nat /\ Cardinality(Older(m)) \in places
    <2>1. m \in Messages /\ m \in Waiting /\ Cardinality(Older(m)) < Limit
      BY DEF NextBatch, Waiting, Older
    <2>2. Cardinality(Older(m)) \in Nat
      BY <2>1, OlderFinite
    <2> QED
      BY <1>1, <2>1, <2>2, OutboxAssumption DEF OutboxAssumption
  <1>4. ASSUME NEW m \in NextBatch, NEW p \in NextBatch, place[m] = place[p]
        PROVE  m = p
    <2>1. Cardinality(Older(m)) = Cardinality(Older(p))
      BY <1>4
    <2>2. ~(m < p) /\ ~(p < m)
      BY <1>3, <2>1, OlderGrows
    <2> QED
      BY <1>3, <2>2
  <1>5. place \in Injection(NextBatch, places)
    BY <1>3, <1>4 DEF Injection, IsInjective
  <1> HIDE DEF places, place
  <1> QED
    BY <1>2, <1>5, FS_Injection

\* It returns the oldest ones, and none only when nothing waits.
LEMMA BatchIsOldest ==
  /\ \A m \in NextBatch, p \in Waiting \ NextBatch : m < p
  /\ Waiting # {} => NextBatch # {}
  <1>1. ASSUME NEW m \in NextBatch, NEW p \in Waiting \ NextBatch PROVE m < p
    <2>1. m \in Waiting /\ m \in Nat /\ p \in Nat /\ m # p
          /\ m \in Messages /\ p \in Messages
      BY OutboxAssumption DEF OutboxAssumption, NextBatch, Waiting
    <2>2. Cardinality(Older(m)) < Limit /\ ~(Cardinality(Older(p)) < Limit)
      BY <2>1 DEF NextBatch, Older
    <2>3. Cardinality(Older(m)) \in Nat /\ Cardinality(Older(p)) \in Nat /\ Limit \in Nat
      BY <2>1, OlderFinite, OutboxAssumption DEF OutboxAssumption
    <2>4. ~(p < m)
      BY <2>1, <2>2, <2>3, OlderGrows
    <2> QED
      BY <2>1, <2>4
  <1>2. ASSUME Waiting # {} PROVE NextBatch # {}
    <2>1. Waiting \subseteq Nat
      BY OutboxAssumption DEF OutboxAssumption, Waiting
    <2>2. PICK m \in Waiting : \A p \in Waiting : ~(p < m)
      <3>1. PICK m \in Waiting : \A p \in Waiting : <<p, m>> \notin OpToRel(<, Nat)
        BY <1>2, <2>1, NatLessThanWellFounded, WFMin
      <3> QED
        BY <2>1, <3>1 DEF OpToRel
    <2>3. Older(m) = {}
      BY <2>2 DEF Older
    <2>4. Cardinality(Older(m)) < Limit
      BY <2>3, FS_EmptySet, OutboxAssumption DEF OutboxAssumption
    <2> QED
      BY <2>4 DEF NextBatch, Older
  <1> QED
    BY <1>1, <1>2

BatchIsBounded == IsFiniteSet(batch) /\ Cardinality(batch) <= Limit

\* Whatever fails, dies or expires, a process never holds leases on more
\* messages than its limit: what is requeued after its death is that much.
THEOREM OutboxBatches == Spec => []BatchIsBounded
  <1>0. Limit \in Nat
    BY OutboxAssumption DEF OutboxAssumption
  <1>1. ASSUME batch = {} PROVE BatchIsBounded
    BY <1>0, <1>1, FS_EmptySet DEF BatchIsBounded
  <1>2. Init => BatchIsBounded
    BY <1>1 DEF Init
  <1>3. ASSUME BatchIsBounded, [Next]_vars PROVE BatchIsBounded'
    <2>1. CASE ClaimOutbox
      BY <2>1, BatchFits DEF ClaimOutbox, BatchIsBounded
    <2>2. CASE batch' \subseteq batch
      <3>1. IsFiniteSet(batch') /\ Cardinality(batch') <= Cardinality(batch)
        BY <1>3, <2>2, FS_Subset DEF BatchIsBounded
      <3>2. Cardinality(batch) \in Nat /\ Cardinality(batch') \in Nat
        BY <1>3, <3>1, FS_CardinalityType DEF BatchIsBounded
      <3> QED
        BY <1>0, <1>3, <3>1, <3>2 DEF BatchIsBounded
    <2> QED
      BY <1>3, <2>1, <2>2
         DEF Next, Cycle, StartProcess, ReconcileOutbox, QueueIntent, Send, Revoked, Disabled,
             Sent, SendFails, Ends, RecordDelivery, LeaseExpires, ProcessEnds, process, vars
  <1> QED
    BY <1>2, <1>3, PTL DEF Spec

=============================================================================
