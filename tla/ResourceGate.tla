----------------------------- MODULE ResourceGate -----------------------------
(***************************************************************************)
(* ResourceGate of supervisor.py: reservations of cpu, memory and license  *)
(* features by several threads.  What does not fit waits on a condition    *)
(* with a deadline; a reservation is returned when its block ends.         *)
(***************************************************************************)
EXTENDS Integers, FiniteSets

CONSTANTS
    Threads,
    Features,       \* license features of ResourceCapacity
    Unconfigured,   \* features it does not name, which requests may name
    Capacity,       \* amounts of "cpu", "memory" and of Features
    Requests        \* what threads may ask for

Host == {"cpu", "memory"}
Keys == Host \cup Features

ASSUME GateAssumption ==
    /\ IsFiniteSet(Threads)
    /\ Host \cap (Features \cup Unconfigured) = {}
    /\ Features \cap Unconfigured = {}
    /\ Capacity \in [Keys -> Nat]
    /\ \A q \in Requests :
        /\ q \in [DOMAIN q -> Nat]
        /\ Host \subseteq DOMAIN q
        /\ DOMAIN q \subseteq Keys \cup Unconfigured

VARIABLES
    available,  \* of each key
    thread,     \* idle, waiting, or holding
    request,    \* what each thread waits for or holds
    overdue,    \* its deadline has passed
    lost        \* of each key, what failed subtractions never gave back

vars == <<available, thread, request, overdue, lost>>

NoRequest == [k \in {} |-> 0]

\* More than the machine ever has; a missing feature has capacity 0.
Exceeds(q) ==
    \E k \in DOMAIN q : q[k] > (IF k \in Keys THEN Capacity[k] ELSE 0)

\* Seeded fault: the waiter looks at the machine's cpu and memory only.
Fits_HostOnly(q) == \A k \in Host : q[k] <= available[k]

Fits(q) ==
    \A k \in DOMAIN q : q[k] <= (IF k \in Keys THEN available[k] ELSE 0)

Init ==
    /\ available = Capacity
    /\ thread = [t \in Threads |-> "idle"]
    /\ request = [t \in Threads |-> NoRequest]
    /\ overdue = [t \in Threads |-> FALSE]
    /\ lost = [k \in Keys |-> 0]

-----------------------------------------------------------------------------
\* reserve raises, or its block is done.
Ends(t) ==
    /\ thread' = [thread EXCEPT ![t] = "idle"]
    /\ request' = [request EXCEPT ![t] = NoRequest]
    /\ overdue' = [overdue EXCEPT ![t] = FALSE]

Of(q, k) == IF k \in DOMAIN q THEN q[k] ELSE 0

Take(q) == available' = [k \in Keys |-> available[k] - Of(q, k)]

Refused(t, q) ==
    /\ thread[t] = "idle" /\ Exceeds(q)
    /\ Ends(t)
    /\ UNCHANGED <<available, lost>>

Waits(t, q) ==
    /\ thread[t] = "idle" /\ ~Exceeds(q) /\ ~Fits(q)
    /\ thread' = [thread EXCEPT ![t] = "waiting"]
    /\ request' = [request EXCEPT ![t] = q]
    /\ UNCHANGED <<available, overdue, lost>>

\* At once or after a wake-up, by notify_all or by the poll of 0.25 s.
Enters(t, q) ==
    /\ \/ thread[t] = "idle"
       \/ thread[t] = "waiting" /\ request[t] = q
    /\ ~Exceeds(q) /\ Fits(q) /\ DOMAIN q \subseteq Keys
    /\ Take(q)
    /\ thread' = [thread EXCEPT ![t] = "holding"]
    /\ request' = [request EXCEPT ![t] = q]
    /\ overdue' = [overdue EXCEPT ![t] = FALSE]
    /\ UNCHANGED lost

\* The subtraction meets a feature that is not configured (a request of 0
\* passes both tests) after cpu, memory and the features before it were taken.
TakesHalf(t, q) ==
    /\ \/ thread[t] = "idle"
       \/ thread[t] = "waiting" /\ request[t] = q
    /\ ~Exceeds(q) /\ Fits(q) /\ ~(DOMAIN q \subseteq Keys)
    /\ \E done \in SUBSET (DOMAIN q \cap Features) :
         LET half == [k \in Host \cup done |-> q[k]] IN
         /\ Take(half)
         /\ lost' = [k \in Keys |-> lost[k] + Of(half, k)]
    /\ Ends(t)

\* Seeded fault: every wake-up sets the deadline anew.
DeadlinePasses_Renewed(t) ==
    /\ thread[t] = "waiting" /\ ~overdue[t]
    /\ UNCHANGED vars

DeadlinePasses(t) ==
    /\ thread[t] = "waiting" /\ ~overdue[t]
    /\ overdue' = [overdue EXCEPT ![t] = TRUE]
    /\ UNCHANGED <<available, thread, request, lost>>

\* A deadline ends the wait only when the request still does not fit.
TimesOut(t) ==
    /\ thread[t] = "waiting" /\ overdue[t] /\ ~Fits(request[t])
    /\ Ends(t)
    /\ UNCHANGED <<available, lost>>

\* Seeded fault: the block returns its host resources, not its licenses.
Leaves_LicensesKept(t) ==
    /\ thread[t] = "holding"
    /\ available' = [k \in Keys |-> available[k] +
          (IF k \in DOMAIN request[t] \cap Host THEN request[t][k] ELSE 0)]
    /\ Ends(t)
    /\ UNCHANGED lost

\* The block of reserve ends, by an exception or not.
Leaves(t) ==
    /\ thread[t] = "holding"
    /\ available' = [k \in Keys |-> available[k] + Of(request[t], k)]
    /\ Ends(t)
    /\ UNCHANGED lost

Wakes(t) ==
    /\ thread[t] = "waiting"
    /\ TimesOut(t) \/ \E q \in Requests : Enters(t, q) \/ TakesHalf(t, q)

Next ==
    \E t \in Threads :
        \/ DeadlinePasses(t) \/ TimesOut(t) \/ Leaves(t)
        \/ \E q \in Requests :
            Refused(t, q) \/ Waits(t, q) \/ Enters(t, q) \/ TakesHalf(t, q)

Spec == Init /\ [][Next]_vars

\* A waiter polls its condition and its clock; holders may stay for ever.
Fairness == \A t \in Threads : WF_vars(Wakes(t)) /\ WF_vars(DeadlinePasses(t))

FairSpec == Spec /\ Fairness

-----------------------------------------------------------------------------
(* The type of every variable; no reservation drives an amount below zero, *)
(* and a waiting request is one that fits the machine.                     *)
TypeOK ==
    /\ available \in [Keys -> Nat]
    /\ thread \in [Threads -> {"idle", "waiting", "holding"}]
    /\ request \in [Threads -> Requests \cup {NoRequest}]
    /\ overdue \in [Threads -> BOOLEAN]
    /\ lost \in [Keys -> Nat]
    /\ \A t \in Threads :
        /\ thread[t] = "idle" <=> request[t] = NoRequest
        /\ overdue[t] => thread[t] = "waiting"
        /\ ~Exceeds(request[t])

\* What threads hold of a key, unit by unit.
HeldUnits(k) ==
    UNION {{t} \X (1..Of(request[t], k)) : t \in {u \in Threads : thread[u] = "holding"}}

Held(k) == Cardinality(HeldUnits(k))

(* Whatever threads enter, wait, time out and leave, in any order: what is *)
(* available and what is held add up to the capacity of the machine, but   *)
(* for what a subtraction took before it met a feature without a value.    *)
Conservation == \A k \in Keys : available[k] + Held(k) + lost[k] = Capacity[k]

(* A thread that waits enters or gives up, also when others keep the       *)
(* machine for ever.                                                       *)
WaitEnds == \A t \in Threads : thread[t] = "waiting" ~> thread[t] # "waiting"

=============================================================================
