--------------------------------- MODULE Intake ---------------------------------
(***************************************************************************)
(* What the Hot Folder promises of a manifest, without markers, ages,      *)
(* stages and scans: the first valid one of a submission is registered,    *)
(* for ever; each one handed in leaves once, to be accepted, when it is    *)
(* the registered one, or to be refused; only accepted ones are confirmed. *)
(***************************************************************************)
CONSTANTS Places, Contents, Admissible, Id, Nobody

VARIABLES
    waiting,    \* <<place, content>> handed in and not decided
    register,   \* content registered for each id
    accepted, refused,  \* <<place, content>> that were decided
    confirmed   \* contents with a confirmation

desk == <<waiting, register, accepted, refused, confirmed>>

IntakeInit ==
    /\ waiting = {} /\ accepted = {} /\ refused = {} /\ confirmed = {}
    /\ register = [i \in {Id[m] : m \in Contents} |-> Nobody]

HandIn(p, m) ==
    /\ \A d \in waiting : d[1] # p
    /\ waiting' = waiting \cup {<<p, m>>}
    /\ UNCHANGED <<register, accepted, refused, confirmed>>

Register(p, m) ==
    /\ <<p, m>> \in waiting /\ m \in Admissible
    /\ register[Id[m]] = Nobody
    /\ register' = [register EXCEPT ![Id[m]] = m]
    /\ UNCHANGED <<waiting, accepted, refused, confirmed>>

Admit(p, m) ==
    /\ <<p, m>> \in waiting /\ register[Id[m]] = m
    /\ waiting' = waiting \ {<<p, m>>}
    /\ accepted' = accepted \cup {<<p, m>>}
    /\ UNCHANGED <<register, refused, confirmed>>

Refuse(p, m) ==
    /\ <<p, m>> \in waiting
    /\ waiting' = waiting \ {<<p, m>>}
    /\ refused' = refused \cup {<<p, m>>}
    /\ UNCHANGED <<register, accepted, confirmed>>

Confirm(p, m) ==
    /\ <<p, m>> \in accepted
    /\ confirmed' = confirmed \cup {m}
    /\ UNCHANGED <<waiting, register, accepted, refused>>

IntakeNext ==
    \E p \in Places, m \in Contents :
        HandIn(p, m) \/ Register(p, m) \/ Admit(p, m) \/ Refuse(p, m) \/ Confirm(p, m)

IntakeSpec == IntakeInit /\ [][IntakeNext]_desk

=============================================================================
