-------------------------------- MODULE Outbox --------------------------------
(***************************************************************************)
(* The SMTP outbox (db.py, notifications.py).  finish_attempt queues an    *)
(* intent; every cycle of the process that holds the dispatcher lock first *)
(* requeues stale leases, then runs jobs, then leases a batch and sends    *)
(* message by message, recording each result in a transaction of its own.  *)
(***************************************************************************)
EXTENDS Integers, FiniteSets

CONSTANTS
    Messages,       \* intents, numbered by created_at
    Limit,          \* messages per drain
    FaultBound,     \* bound of the model: faults of the relay
    CrashBound      \* bound of the model: drains that die or raise

ASSUME OutboxAssumption ==
    /\ Messages \subseteq Nat
    /\ Limit \in Nat \ {0}
    /\ FaultBound \in Nat /\ CrashBound \in Nat

VARIABLES
    delivery,   \* latest outbox_deliveries row; PENDING when there is none
    expired,    \* that row is older than stale_after_sec
    copies,     \* times the relay accepted a message for some recipient
    phase,      \* of the process: off, idle, jobs, send or record
    policy,     \* messages whose recipients its RecipientPolicy allows
    batch,      \* leased messages it has not recorded yet
    outcome,    \* what send made of the first of them
    fault,      \* the fault that made it
    taken,      \* the relay accepted it in this send
    doubts,     \* acceptances after which a message waits again
    faults, crashes     \* counters for the bounds

process == <<phase, policy, batch, outcome, fault, taken>>
vars == <<delivery, expired, copies, process, doubts, faults, crashes>>

Settled == {"SENT", "PERMANENT", "POLICY_REVOKED"}
DeliveryStates == {"ABSENT", "PENDING", "EXECUTING", "RETRY"} \cup Settled

\* What goes wrong in a send: a 4xx or 5xx reply, to all recipients of the
\* RCPT command or to some, a dropped connection, a socket error or timeout.
Faults == {"reply_4xx", "reply_5xx", "recipients_4xx", "recipients_5xx",
           "some_refused", "disconnected", "socket"}

\* The except clauses of send, in their order: SMTPRecipientsRefused and
\* SMTPServerDisconnected are SMTPExceptions.
Classify(f) == IF f \in {"reply_4xx", "socket"} THEN "RETRY" ELSE "PERMANENT"

\* Faults after which the relay may hold the message nevertheless: the reply
\* was lost, or QUIT was answered with an error.
MayBeAccepted ==
    {"reply_4xx", "reply_5xx", "some_refused", "disconnected", "socket"}

Init ==
    /\ delivery = [m \in Messages |-> "ABSENT"]
    /\ expired = [m \in Messages |-> FALSE]
    /\ copies = [m \in Messages |-> 0]
    /\ phase = "off" /\ policy = {} /\ batch = {}
    /\ outcome = "none" /\ fault = "none" /\ taken = FALSE
    /\ doubts = [m \in Messages |-> 0]
    /\ faults = 0 /\ crashes = 0

-----------------------------------------------------------------------------
\* drain or agent starts and reads its configuration.
StartProcess(P) ==
    /\ phase = "off"
    /\ phase' = "idle" /\ policy' = P
    /\ UNCHANGED <<delivery, expired, copies, batch, outcome, fault, taken,
                   doubts, faults, crashes>>

\* Seeded fault: the age of the first row decides, not of the latest.
StaleMessages_AnyState == {m \in Messages : delivery[m] # "ABSENT" /\ expired[m]}

StaleMessages == {m \in Messages : delivery[m] = "EXECUTING" /\ expired[m]}

\* reconcile_outbox at the start of a cycle, before any job is run.
ReconcileOutbox ==
    /\ phase = "idle"
    /\ delivery' = [m \in Messages |->
                      IF m \in StaleMessages THEN "RETRY" ELSE delivery[m]]
    /\ phase' = "jobs"
    /\ UNCHANGED <<expired, copies, policy, batch, outcome, fault, taken,
                   doubts, faults, crashes>>

\* finish_attempt: the intent commits with the terminal transition.
QueueIntent(m) ==
    /\ phase = "jobs" /\ delivery[m] = "ABSENT"
    /\ delivery' = [delivery EXCEPT ![m] = "PENDING"]
    /\ UNCHANGED <<expired, copies, process, doubts, faults, crashes>>

\* Seeded fault: a message that was tried before is not tried again.
Waiting_FirstTryOnly == {m \in Messages : delivery[m] = "PENDING"}

Waiting == {m \in Messages : delivery[m] \in {"PENDING", "RETRY"}}
NextBatch == {m \in Waiting : Cardinality({p \in Waiting : p < m}) < Limit}

\* claim_outbox: one transaction.
ClaimOutbox ==
    /\ phase = "jobs"
    /\ batch' = NextBatch
    /\ delivery' = [m \in Messages |->
                      IF m \in NextBatch THEN "EXECUTING" ELSE delivery[m]]
    /\ expired' = [m \in Messages |-> expired[m] /\ m \notin NextBatch]
    /\ phase' = IF NextBatch = {} THEN "idle" ELSE "send"
    /\ UNCHANGED <<copies, policy, outcome, fault, taken, doubts, faults,
                   crashes>>

First(m) == m \in batch /\ \A p \in batch : m <= p

\* The result of a send is what record_outbox_delivery will write.
Ends(m, o, f, accepted) ==
    /\ phase' = "record" /\ outcome' = o /\ fault' = f /\ taken' = accepted
    /\ copies' = IF accepted THEN [copies EXCEPT ![m] = @ + 1] ELSE copies
    /\ UNCHANGED <<delivery, expired, policy, batch, doubts, crashes>>

Revoked(m) ==
    /\ phase = "send" /\ First(m) /\ m \notin policy
    /\ Ends(m, "POLICY_REVOKED", "none", FALSE)
    /\ UNCHANGED faults

\* Seeded fault: a disabled sender reports what it was to send as sent.
Disabled_Sent(m) ==
    /\ phase = "send" /\ First(m) /\ m \in policy
    /\ Ends(m, "SENT", "none", FALSE)
    /\ UNCHANGED faults

\* The sender is disabled, or its credential is not available.
Disabled(m) ==
    /\ phase = "send" /\ First(m) /\ m \in policy
    /\ Ends(m, "PERMANENT", "none", FALSE)
    /\ UNCHANGED faults

Sent(m) ==
    /\ phase = "send" /\ First(m) /\ m \in policy
    /\ Ends(m, "SENT", "none", TRUE)
    /\ UNCHANGED faults

SendFails(m, f, accepted) ==
    /\ phase = "send" /\ First(m) /\ m \in policy
    /\ faults < FaultBound
    /\ accepted => f \in MayBeAccepted
    /\ f = "some_refused" => accepted
    /\ Ends(m, Classify(f), f, accepted)
    /\ faults' = faults + 1

\* record_outbox_delivery appends the result, whatever the latest row is.
RecordDelivery(m) ==
    /\ phase = "record" /\ First(m)
    /\ delivery' = [delivery EXCEPT ![m] = outcome]
    /\ batch' = batch \ {m}
    /\ phase' = IF batch = {m} THEN "idle" ELSE "send"
    /\ doubts' = [doubts EXCEPT ![m] =
                    @ + (IF taken /\ outcome = "RETRY" THEN 1 ELSE 0)]
    /\ outcome' = "none" /\ fault' = "none" /\ taken' = FALSE
    /\ UNCHANGED <<expired, copies, policy, faults, crashes>>

\* The process is killed or send raises what drain does not catch: the batch
\* stays EXECUTING, and what the relay accepted last is recorded nowhere.
ProcessEnds ==
    /\ phase # "off" /\ crashes < CrashBound
    /\ crashes' = crashes + 1
    /\ doubts' = [m \in Messages |->
          doubts[m] + (IF First(m) /\ taken THEN 1 ELSE 0)]
    /\ phase' = "off" /\ policy' = {} /\ batch' = {}
    /\ outcome' = "none" /\ fault' = "none" /\ taken' = FALSE
    /\ UNCHANGED <<delivery, expired, copies, faults>>

\* stale_after_sec passes, also over a batch that is still being sent.
LeaseExpires(m) ==
    /\ delivery[m] = "EXECUTING" /\ ~expired[m]
    /\ expired' = [expired EXCEPT ![m] = TRUE]
    /\ UNCHANGED <<delivery, copies, process, doubts, faults, crashes>>

Send(m) ==
    \/ Revoked(m) \/ Disabled(m) \/ Sent(m)
    \/ \E f \in Faults, accepted \in BOOLEAN : SendFails(m, f, accepted)

Cycle ==
    \/ ReconcileOutbox \/ ClaimOutbox
    \/ \E m \in Messages : Send(m) \/ RecordDelivery(m)

Next ==
    \/ \E P \in SUBSET Messages : StartProcess(P)
    \/ Cycle
    \/ \E m \in Messages : QueueIntent(m) \/ LeaseExpires(m)
    \/ ProcessEnds

Spec == Init /\ [][Next]_vars

\* A process is started after one ended and cycles on; time passes.
Fairness ==
    /\ WF_vars(\E P \in SUBSET Messages : StartProcess(P))
    /\ WF_vars(Cycle)
    /\ \A m \in Messages : WF_vars(LeaseExpires(m))

FairSpec == Spec /\ Fairness

-----------------------------------------------------------------------------
(* The type of every variable; a batch exists only while it is being sent  *)
(* and an outcome only until it is recorded.                               *)
TypeOK ==
    /\ delivery \in [Messages -> DeliveryStates]
    /\ expired \in [Messages -> BOOLEAN]
    /\ copies \in [Messages -> Nat] /\ doubts \in [Messages -> Nat]
    /\ phase \in {"off", "idle", "jobs", "send", "record"}
    /\ policy \subseteq Messages /\ batch \subseteq Messages
    /\ outcome \in Settled \cup {"RETRY", "none"}
    /\ fault \in Faults \cup {"none"}
    /\ faults \in 0..FaultBound /\ crashes \in 0..CrashBound
    /\ batch # {} <=> phase \in {"send", "record"}
    /\ outcome # "none" <=> phase = "record"
    /\ taken \in BOOLEAN /\ (taken => phase = "record")

\* The lost acceptances, numbered by message.
Lost == UNION {{m} \X (1..doubts[m]) : m \in Messages}

(* Delivery is at least once (PRD FR-MAIL-013), and no worse: a further    *)
(* copy follows an acceptance that was lost, and each lost acceptance had  *)
(* a death before record_outbox_delivery, or a fault after the relay took  *)
(* the message, of its own.  Leases, the expiry of a lease in use, requeues *)
(* and the blind append of results never cause one.  That a message in     *)
(* doubt is sent again at all is what FR-MAIL-033 forbids: it wants it     *)
(* UNKNOWN and left to a decision; reconcile_outbox makes it RETRY.        *)
CopiesAreAccountedFor ==
    /\ \A m \in Messages : copies[m] <= 1 + doubts[m]
    /\ Cardinality(Lost) <= faults + crashes

\* What the latest row of a message says of it.
ResultOf(m) ==
    CASE delivery[m] = "ABSENT" -> "none"
      [] delivery[m] \in Settled -> delivery[m]
      [] OTHER -> "open"

Mail == INSTANCE Mailbox WITH
    Letters <- Messages,
    result <- [m \in Messages |-> ResultOf(m)],
    taken <- copies,
    unheard <- doubts

(* The outbox implements a mailbox: leases, their expiry, requeues and     *)
(* blind appends neither reopen a message nor send it a second time; SENT  *)
(* is recorded only of a copy the relay took, and of every settled message *)
(* one row decided.  The mailbox resends after a lost acceptance, as the   *)
(* code does and FR-MAIL-033 does not want.                                *)
ImplementsMailbox == Mail!MailSpec

(* A settled message stays settled, though record_outbox_delivery checks   *)
(* no transition: only the holder of the lease ever writes.                *)
SettledIsFinal ==
    [][\A m \in Messages :
          delivery[m] \in Settled => delivery'[m] = delivery[m]]_vars

(* Every intent is settled: leases of dead processes are requeued, and a   *)
(* transient fault costs one cycle.  An intent in doubt is no exception:   *)
(* there is no state in which it waits for an operator.                    *)
IntentSettles ==
    \A m \in Messages : delivery[m] = "PENDING" ~> delivery[m] \in Settled

(* PRD FR-MAIL-009: SMTP 4xx and network timeouts are retried.             *)
TransientFaultsRetry ==
    fault \in {"reply_4xx", "recipients_4xx", "disconnected", "socket"} =>
        outcome = "RETRY"

=============================================================================
