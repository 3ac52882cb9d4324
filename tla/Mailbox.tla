-------------------------------- MODULE Mailbox --------------------------------
(***************************************************************************)
(* What the outbox promises of a message, without rows, leases, batches    *)
(* and processes: it is open until it gets one result, which is final; the *)
(* relay takes a further copy only while every earlier acceptance has been *)
(* lost; SENT is said only of a copy that was taken, POLICY_REVOKED only   *)
(* of a message no copy of which is taken in the same try.  This is the    *)
(* at-least-once mailbox the code is, not the one of PRD FR-MAIL-033, in   *)
(* which a message stays UNKNOWN after its acceptance was lost.            *)
(***************************************************************************)
EXTENDS Integers

CONSTANT Letters

VARIABLES
    result,     \* none before there is an intent, open, or how it ended
    taken,      \* copies the relay took of each
    unheard     \* those of them the outbox does not know of any more

mail == <<result, taken, unheard>>

Results == {"SENT", "PERMANENT", "POLICY_REVOKED"}

MailInit ==
    /\ result = [m \in Letters |-> "none"]
    /\ taken = [m \in Letters |-> 0]
    /\ unheard = [m \in Letters |-> 0]

\* A copy was taken in the try that is going on.
Pending(m) == taken[m] = unheard[m] + 1

Post(m) ==
    /\ result[m] = "none"
    /\ result' = [result EXCEPT ![m] = "open"]
    /\ UNCHANGED <<taken, unheard>>

Deliver(m) ==
    /\ result[m] = "open" /\ taken[m] = unheard[m]
    /\ taken' = [taken EXCEPT ![m] = @ + 1]
    /\ UNCHANGED <<result, unheard>>

\* The answer is lost, and the message stays open, to be delivered again:
\* FR-MAIL-033 would have no Deliver after a Lose.
Lose(m) ==
    /\ result[m] = "open" /\ Pending(m)
    /\ unheard' = [unheard EXCEPT ![m] = @ + 1]
    /\ UNCHANGED <<result, taken>>

Settle(m, r) ==
    /\ result[m] = "open"
    /\ r = "SENT" => Pending(m)
    /\ r = "POLICY_REVOKED" => ~Pending(m)
    /\ result' = [result EXCEPT ![m] = r]
    /\ UNCHANGED <<taken, unheard>>

MailNext ==
    \E m \in Letters :
        \/ Post(m) \/ Deliver(m) \/ Lose(m)
        \/ \E r \in Results : Settle(m, r)

MailSpec == MailInit /\ [][MailNext]_mail

=============================================================================
