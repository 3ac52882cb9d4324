---------------------------- MODULE AnalysisLedger ----------------------------
(***************************************************************************)
(* What the queue promises of an analysis, without dispatcher, process or  *)
(* transaction: a submission is solved by one attempt at a time, every     *)
(* attempt gets exactly one fate, a job that succeeded is never opened     *)
(* again, and only an operator reopens what was closed.                    *)
(***************************************************************************)
EXTENDS Integers

CONSTANTS Jobs, AttemptBound

VARIABLES
    status,     \* of each job
    tries,      \* attempts opened so far
    fate        \* of each attempt

ledger == <<status, tries, fate>>

Conclusions == {"SUCCEEDED", "FAILED", "TIMED_OUT", "CANCELLED"}

LedgerInit ==
    /\ status = [j \in Jobs |-> "absent"]
    /\ tries = [j \in Jobs |-> 0]
    /\ fate = [j \in Jobs |-> [n \in 1..AttemptBound |-> "none"]]

Move(j, from, to) ==
    /\ status[j] \in from
    /\ status' = [status EXCEPT ![j] = to]
    /\ UNCHANGED <<tries, fate>>

Accept(j) == Move(j, {"absent"}, "pending")
Withdraw(j) == Move(j, {"pending", "held"}, "closed")
Reopen(j) == Move(j, {"closed", "held"}, "pending")

Begin(j) ==
    /\ status[j] = "pending"
    /\ tries[j] < AttemptBound
    /\ status' = [status EXCEPT ![j] = "solving"]
    /\ tries' = [tries EXCEPT ![j] = @ + 1]
    /\ fate' = [fate EXCEPT ![j][tries[j] + 1] = "open"]

End(j, f, to) ==
    /\ status[j] = "solving"
    /\ status' = [status EXCEPT ![j] = to]
    /\ fate' = [fate EXCEPT ![j][tries[j]] = f]
    /\ UNCHANGED tries

Conclude(j, f) == End(j, f, IF f = "SUCCEEDED" THEN "succeeded" ELSE "closed")
Hold(j) == End(j, "INTERRUPTED", "held")

\* Several interrupted attempts are recovered at once.
Recover(S) ==
    /\ \A j \in S : status[j] = "solving"
    /\ \E to \in [S -> {"pending", "closed"}] :
          status' = [j \in Jobs |-> IF j \in S THEN to[j] ELSE status[j]]
    /\ fate' = [j \in Jobs |-> [n \in 1..AttemptBound |->
                  IF j \in S /\ n = tries[j] THEN "INTERRUPTED" ELSE fate[j][n]]]
    /\ UNCHANGED tries

LedgerNext ==
    \/ \E j \in Jobs :
        \/ Accept(j) \/ Withdraw(j) \/ Reopen(j) \/ Begin(j) \/ Hold(j)
        \/ \E f \in Conclusions : Conclude(j, f)
    \/ \E S \in SUBSET Jobs : Recover(S)

LedgerSpec == LedgerInit /\ [][LedgerNext]_ledger

=============================================================================
