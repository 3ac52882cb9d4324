-------------------------- MODULE ResourceGateProofs --------------------------
(***************************************************************************)
(* What the gate promises for any finite set of threads, any machine and   *)
(* any set of requests.                                                    *)
(***************************************************************************)
EXTENDS ResourceGate, TLAPS, FiniteSetTheorems

LEMMA RequestTyped ==
  ASSUME NEW q \in Requests
  PROVE  /\ q \in [DOMAIN q -> Nat] /\ Host \subseteq DOMAIN q
         /\ DOMAIN q \subseteq Keys \cup Unconfigured
         /\ q # NoRequest
  <1>1. q \in [DOMAIN q -> Nat] /\ Host \subseteq DOMAIN q
        /\ DOMAIN q \subseteq Keys \cup Unconfigured
    BY GateAssumption DEF GateAssumption
  <1>2. "cpu" \in DOMAIN q
    BY <1>1 DEF Host
  <1>3. DOMAIN NoRequest = {}
    BY DEF NoRequest
  <1> QED
    BY <1>1, <1>2, <1>3

\* The amount of a key in a request, or in the part of one, is a number.
LEMMA OfTyped ==
  ASSUME NEW q \in Requests \cup {NoRequest}, NEW k \in Keys
  PROVE  Of(q, k) \in Nat
  <1>1. CASE q \in Requests
    BY <1>1, RequestTyped DEF Of
  <1>2. CASE q = NoRequest
    BY <1>2 DEF Of, NoRequest
  <1> QED
    BY <1>1, <1>2

\* What fits is there, key by key.
LEMMA FitsIsThere ==
  ASSUME available \in [Keys -> Nat], NEW q \in Requests, Fits(q), NEW k \in Keys
  PROVE  Of(q, k) \in Nat /\ Of(q, k) <= available[k]
  <1>1. Of(q, k) \in Nat
    BY OfTyped
  <1>2. CASE k \in DOMAIN q
    BY <1>1, <1>2 DEF Of, Fits
  <1>3. CASE k \notin DOMAIN q
    BY <1>3 DEF Of
  <1> QED
    BY <1>1, <1>2, <1>3

LEMMA GateTypeInit == Init => TypeOK
  <1> SUFFICES ASSUME Init PROVE TypeOK
    OBVIOUS
  <1>1. available \in [Keys -> Nat] /\ lost \in [Keys -> Nat]
    BY GateAssumption DEF Init, GateAssumption
  <1>2. ~Exceeds(NoRequest)
    BY DEF Exceeds, NoRequest
  <1> QED
    BY <1>1, <1>2 DEF Init, TypeOK

\* A thread that becomes idle keeps the type.
LEMMA EndsTyped ==
  ASSUME TypeOK, NEW t \in Threads, Ends(t),
         available' \in [Keys -> Nat], lost' \in [Keys -> Nat]
  PROVE  TypeOK'
  <1>1. ~Exceeds(NoRequest)
    BY DEF Exceeds, NoRequest
  <1>2. /\ thread' \in [Threads -> {"idle", "waiting", "holding"}]
        /\ request' \in [Threads -> Requests \cup {NoRequest}]
        /\ overdue' \in [Threads -> BOOLEAN]
    BY DEF TypeOK, Ends
  <1>3. ASSUME NEW u \in Threads
        PROVE  /\ thread'[u] = "idle" <=> request'[u] = NoRequest
               /\ overdue'[u] => thread'[u] = "waiting"
               /\ ~Exceeds(request[u])'
    <2>1. CASE u = t
      BY <2>1, <1>1 DEF TypeOK, Ends, Exceeds
    <2>2. CASE u # t
      BY <2>2 DEF TypeOK, Ends, Exceeds
    <2> QED
      BY <2>1, <2>2
  <1> QED
    BY <1>2, <1>3 DEF TypeOK

LEMMA GateTypeStep == TypeOK /\ [Next]_vars => TypeOK'
  <1> SUFFICES ASSUME TypeOK, [Next]_vars PROVE TypeOK'
    OBVIOUS
  <1>0. available \in [Keys -> Nat] /\ lost \in [Keys -> Nat]
    BY DEF TypeOK
  <1>1. ASSUME NEW t \in Threads, DeadlinePasses(t) PROVE TypeOK'
    BY <1>1 DEF DeadlinePasses, TypeOK, Exceeds
  <1>2. ASSUME NEW t \in Threads, TimesOut(t) PROVE TypeOK'
    BY <1>0, <1>2, EndsTyped DEF TimesOut
  <1>3. ASSUME NEW t \in Threads, Leaves(t) PROVE TypeOK'
    <2>1. \A k \in Keys : Of(request[t], k) \in Nat
      BY OfTyped DEF TypeOK
    <2>2. available' \in [Keys -> Nat]
      BY <1>0, <1>3, <2>1 DEF Leaves
    <2> QED
      BY <1>0, <1>3, <2>2, EndsTyped DEF Leaves
  <1>4. ASSUME NEW t \in Threads, NEW q \in Requests, Refused(t, q) PROVE TypeOK'
    BY <1>0, <1>4, EndsTyped DEF Refused
  <1>5. ASSUME NEW t \in Threads, NEW q \in Requests, Waits(t, q) PROVE TypeOK'
    BY <1>5, RequestTyped DEF Waits, TypeOK, Exceeds
  <1>6. ASSUME NEW t \in Threads, NEW q \in Requests, Enters(t, q) PROVE TypeOK'
    <2>1. available' \in [Keys -> Nat]
      BY <1>0, <1>6, FitsIsThere DEF Enters, Take
    <2> QED
      BY <1>6, <2>1, RequestTyped DEF Enters, TypeOK, Exceeds
  <1>7. ASSUME NEW t \in Threads, NEW q \in Requests, TakesHalf(t, q) PROVE TypeOK'
    <2>1. PICK done \in SUBSET (DOMAIN q \cap Features) :
             LET half == [k \in Host \cup done |-> q[k]] IN
             /\ Take(half)
             /\ lost' = [k \in Keys |-> lost[k] + Of(half, k)]
      BY <1>7 DEF TakesHalf
    <2> DEFINE half == [k \in Host \cup done |-> q[k]]
    <2>2. \A k \in Keys : Of(half, k) \in Nat /\ Of(half, k) <= available[k]
      <3> SUFFICES ASSUME NEW k \in Keys
                   PROVE  Of(half, k) \in Nat /\ Of(half, k) <= available[k]
        OBVIOUS
      <3>1. Of(q, k) \in Nat /\ Of(q, k) <= available[k]
        BY <1>0, <1>7, FitsIsThere DEF TakesHalf
      <3>2. Host \cup done \subseteq DOMAIN q
        BY RequestTyped
      <3>3. CASE k \in Host \cup done
        BY <3>1, <3>2, <3>3 DEF Of
      <3>4. CASE k \notin Host \cup done
        BY <1>0, <3>4 DEF Of
      <3> QED
        BY <3>3, <3>4
    <2>3. Take(half) /\ lost' = [k \in Keys |-> lost[k] + Of(half, k)]
      BY <2>1
    <2> HIDE DEF half
    <2>4. available' \in [Keys -> Nat] /\ lost' \in [Keys -> Nat]
      BY <1>0, <2>2, <2>3 DEF Take
    <2> QED
      BY <1>7, <2>4, EndsTyped DEF TakesHalf
  <1>8. CASE UNCHANGED vars
    BY <1>8 DEF vars, TypeOK, Exceeds
  <1> QED
    BY <1>1, <1>2, <1>3, <1>4, <1>5, <1>6, <1>7, <1>8 DEF Next

(* Amounts stay natural numbers: no interleaving takes more of a resource  *)
(* than there is, and whoever waits asks for what the machine could give.  *)
THEOREM GateTypeOK == Spec => []TypeOK
  BY GateTypeInit, GateTypeStep, PTL DEF Spec

-----------------------------------------------------------------------------
(* The sum.  It is counted unit by unit, so that what one thread takes or  *)
(* returns is the union or difference with a set of its own.               *)

Holding == {u \in Threads : thread[u] = "holding"}
UnitsOf(t, k) == {t} \X (1..Of(request[t], k))

LEMMA DisjointUnion ==
  ASSUME NEW S, NEW T, IsFiniteSet(S), IsFiniteSet(T), S \cap T = {}
  PROVE  Cardinality(S \cup T) = Cardinality(S) + Cardinality(T)
  <1>1. Cardinality(S) \in Nat /\ Cardinality(T) \in Nat
    BY FS_CardinalityType
  <1>2. Cardinality(S \cap T) = 0
    BY FS_EmptySet
  <1>3. Cardinality(S \cup T) = Cardinality(S) + Cardinality(T) - Cardinality(S \cap T)
    BY FS_Union
  <1> QED
    BY <1>1, <1>2, <1>3

\* A thread has as many units as its request says.
LEMMA UnitsCounted ==
  ASSUME NEW t, NEW n \in Nat
  PROVE  IsFiniteSet({t} \X (1..n)) /\ Cardinality({t} \X (1..n)) = n
  <1> DEFINE one == {t}
             units == 1..n
  <1>1. IsFiniteSet(one) /\ Cardinality(one) = 1
    BY FS_Singleton
  <1>2. IsFiniteSet(units) /\ Cardinality(units) = n
    BY FS_Interval
  <1> HIDE DEF one, units
  <1>3. IsFiniteSet(one \X units) /\ Cardinality(one \X units) = Cardinality(one) * Cardinality(units)
    BY <1>1, <1>2, FS_Product
  <1>4. IsFiniteSet(one \X units) /\ Cardinality(one \X units) = n
    BY <1>1, <1>2, <1>3
  <1> QED
    BY <1>4 DEF one, units

LEMMA HeldFinite ==
  ASSUME TypeOK, NEW k \in Keys
  PROVE  IsFiniteSet(HeldUnits(k)) /\ Held(k) \in Nat
  <1>1. Capacity[k] \in Nat /\ IsFiniteSet(Threads)
    BY GateAssumption DEF GateAssumption
  <1>2. IsFiniteSet(Threads \X (1..Capacity[k]))
    <2> DEFINE units == 1..Capacity[k]
    <2>1. IsFiniteSet(units)
      BY <1>1, FS_Interval
    <2> HIDE DEF units
    <2>2. IsFiniteSet(Threads \X units)
      BY <1>1, <2>1, FS_Product
    <2> QED
      BY <2>2 DEF units
  <1>3. ASSUME NEW t \in Threads
        PROVE  Of(request[t], k) \in Nat /\ Of(request[t], k) <= Capacity[k]
    <2>1. Of(request[t], k) \in Nat
      BY OfTyped DEF TypeOK
    <2>2. CASE k \in DOMAIN request[t]
      BY <1>1, <2>1, <2>2 DEF TypeOK, Exceeds, Of
    <2>3. CASE k \notin DOMAIN request[t]
      BY <1>1, <2>3 DEF Of
    <2> QED
      BY <2>1, <2>2, <2>3
  <1>4. HeldUnits(k) \subseteq Threads \X (1..Capacity[k])
    BY <1>1, <1>3 DEF HeldUnits
  <1> QED
    BY <1>2, <1>4, FS_Subset, FS_CardinalityType DEF Held

\* Whoever begins to hold adds its units.
LEMMA HeldGrows ==
  ASSUME TypeOK, TypeOK', NEW t \in Threads, NEW k \in Keys,
         thread[t] # "holding", thread'[t] = "holding",
         \A u \in Threads \ {t} : thread'[u] = thread[u] /\ request'[u] = request[u]
  PROVE  Held(k)' = Held(k) + Of(request'[t], k)
  <1> DEFINE new == {t} \X (1..Of(request'[t], k))
  <1>1. Of(request'[t], k) \in Nat
    BY OfTyped DEF TypeOK
  <1>2. IsFiniteSet(new) /\ Cardinality(new) = Of(request'[t], k)
    BY <1>1, UnitsCounted
  <1>3. HeldUnits(k)' = HeldUnits(k) \cup new
    BY DEF HeldUnits
  <1>4. HeldUnits(k) \cap new = {}
    BY DEF HeldUnits
  <1>5. IsFiniteSet(HeldUnits(k)) /\ Held(k) \in Nat
    BY HeldFinite
  <1> HIDE DEF new
  <1>6. Cardinality(HeldUnits(k) \cup new) = Cardinality(HeldUnits(k)) + Cardinality(new)
    BY <1>2, <1>4, <1>5, DisjointUnion
  <1> QED
    BY <1>2, <1>3, <1>6 DEF Held

\* Whoever leaves takes its units along.
LEMMA HeldShrinks ==
  ASSUME TypeOK, TypeOK', NEW t \in Threads, NEW k \in Keys,
         thread[t] = "holding", thread'[t] # "holding",
         \A u \in Threads \ {t} : thread'[u] = thread[u] /\ request'[u] = request[u]
  PROVE  Held(k)' \in Nat /\ Held(k) = Held(k)' + Of(request[t], k)
  <1> DEFINE old == {t} \X (1..Of(request[t], k))
  <1>1. Of(request[t], k) \in Nat
    BY OfTyped DEF TypeOK
  <1>2. IsFiniteSet(old) /\ Cardinality(old) = Of(request[t], k)
    BY <1>1, UnitsCounted
  <1>3. HeldUnits(k) = HeldUnits(k)' \cup old
    BY DEF HeldUnits
  <1>4. HeldUnits(k)' \cap old = {}
    BY DEF HeldUnits
  <1>5. IsFiniteSet(HeldUnits(k)') /\ Held(k)' \in Nat
    <2>1. IsFiniteSet(HeldUnits(k))
      BY HeldFinite
    <2>2. HeldUnits(k)' \subseteq HeldUnits(k)
      BY <1>3
    <2> QED
      BY <2>1, <2>2, FS_Subset, FS_CardinalityType DEF Held
  <1> HIDE DEF old
  <1>6. Cardinality(HeldUnits(k)' \cup old) = Cardinality(HeldUnits(k)') + Cardinality(old)
    BY <1>2, <1>4, <1>5, DisjointUnion
  <1> QED
    BY <1>2, <1>3, <1>5, <1>6 DEF Held

\* Nobody begins or ceases to hold.
LEMMA HeldStays ==
  ASSUME NEW k \in Keys,
         \A u \in Threads : thread[u] = "holding" <=> thread'[u] = "holding",
         \A u \in Threads : thread[u] = "holding" => request'[u] = request[u]
  PROVE  Held(k)' = Held(k)
  <1>1. HeldUnits(k)' = HeldUnits(k)
    BY DEF HeldUnits
  <1> QED
    BY <1>1 DEF Held

GateInv == TypeOK /\ Conservation

LEMMA GateInit == Init => GateInv
  <1> SUFFICES ASSUME Init PROVE GateInv
    OBVIOUS
  <1>1. ASSUME NEW k \in Keys PROVE available[k] + Held(k) + lost[k] = Capacity[k]
    <2>1. HeldUnits(k) = {}
      BY DEF HeldUnits, Init
    <2>2. Held(k) = 0
      BY <2>1, FS_EmptySet DEF Held
    <2> QED
      BY <2>2, GateAssumption DEF Init, GateAssumption
  <1> QED
    BY <1>1, GateTypeInit DEF GateInv, Conservation

LEMMA GateStep == GateInv /\ [Next]_vars => GateInv'
  <1> SUFFICES ASSUME GateInv, [Next]_vars PROVE GateInv'
    OBVIOUS
  <1>0. TypeOK /\ TypeOK' /\ Conservation
    BY GateTypeStep DEF GateInv
  <1> SUFFICES ASSUME NEW k \in Keys
               PROVE  available'[k] + Held(k)' + lost'[k] = Capacity[k]
    BY <1>0 DEF GateInv, Conservation
  <1>a. /\ available[k] \in Nat /\ Held(k) \in Nat /\ lost[k] \in Nat /\ Capacity[k] \in Nat
        /\ available[k] + Held(k) + lost[k] = Capacity[k]
    BY <1>0, HeldFinite, GateAssumption DEF TypeOK, Conservation, GateAssumption
  <1>1. ASSUME NEW t \in Threads, DeadlinePasses(t)
        PROVE  available'[k] + Held(k)' + lost'[k] = Capacity[k]
    BY <1>a, <1>1, HeldStays DEF DeadlinePasses
  <1>2. ASSUME NEW t \in Threads, TimesOut(t)
        PROVE  available'[k] + Held(k)' + lost'[k] = Capacity[k]
    <2>1. Held(k)' = Held(k)
      BY <1>0, <1>2, HeldStays DEF TimesOut, Ends, TypeOK
    <2> QED
      BY <1>a, <1>2, <2>1 DEF TimesOut
  <1>3. ASSUME NEW t \in Threads, Leaves(t)
        PROVE  available'[k] + Held(k)' + lost'[k] = Capacity[k]
    <2>1. Held(k)' \in Nat /\ Held(k) = Held(k)' + Of(request[t], k)
      BY <1>0, <1>3, HeldShrinks DEF Leaves, Ends, TypeOK
    <2>2. Of(request[t], k) \in Nat
      BY <1>0, OfTyped DEF TypeOK
    <2>4. available'[k] = available[k] + Of(request[t], k) /\ lost'[k] = lost[k]
      BY <1>3 DEF Leaves
    <2> QED
      BY <1>a, <2>1, <2>2, <2>4
  <1>4. ASSUME NEW t \in Threads, NEW q \in Requests, Refused(t, q)
        PROVE  available'[k] + Held(k)' + lost'[k] = Capacity[k]
    <2>1. Held(k)' = Held(k)
      BY <1>0, <1>4, HeldStays DEF Refused, Ends, TypeOK
    <2> QED
      BY <1>a, <1>4, <2>1 DEF Refused
  <1>5. ASSUME NEW t \in Threads, NEW q \in Requests, Waits(t, q)
        PROVE  available'[k] + Held(k)' + lost'[k] = Capacity[k]
    <2>1. Held(k)' = Held(k)
      BY <1>0, <1>5, HeldStays DEF Waits, TypeOK
    <2> QED
      BY <1>a, <1>5, <2>1 DEF Waits
  <1>6. ASSUME NEW t \in Threads, NEW q \in Requests, Enters(t, q)
        PROVE  available'[k] + Held(k)' + lost'[k] = Capacity[k]
    <2>1. request'[t] = q /\ thread'[t] = "holding" /\ thread[t] # "holding"
      BY <1>0, <1>6 DEF Enters, TypeOK
    <2>2. \A u \in Threads \ {t} : thread'[u] = thread[u] /\ request'[u] = request[u]
      BY <1>0, <1>6 DEF Enters, TypeOK
    <2>5. Held(k)' = Held(k) + Of(request'[t], k)
      BY <1>0, <2>1, <2>2, HeldGrows
    <2>3. Of(q, k) \in Nat
      BY OfTyped
    <2>4. available'[k] = available[k] - Of(q, k) /\ lost'[k] = lost[k]
      BY <1>6 DEF Enters, Take
    <2> QED
      BY <1>a, <2>1, <2>3, <2>4, <2>5
  <1>7. ASSUME NEW t \in Threads, NEW q \in Requests, TakesHalf(t, q)
        PROVE  available'[k] + Held(k)' + lost'[k] = Capacity[k]
    <2>1. Held(k)' = Held(k)
      BY <1>0, <1>7, HeldStays DEF TakesHalf, Ends, TypeOK
    <2>2. PICK done \in SUBSET (DOMAIN q \cap Features) :
             LET half == [i \in Host \cup done |-> q[i]] IN
             /\ Take(half)
             /\ lost' = [i \in Keys |-> lost[i] + Of(half, i)]
      BY <1>7 DEF TakesHalf
    <2> DEFINE half == [i \in Host \cup done |-> q[i]]
    <2>3. available'[k] = available[k] - Of(half, k) /\ lost'[k] = lost[k] + Of(half, k)
      BY <2>2 DEF Take
    <2>4. Of(half, k) \in Nat
      <3>1. Of(q, k) \in Nat /\ Host \cup done \subseteq DOMAIN q
        BY OfTyped, RequestTyped
      <3> QED
        BY <3>1 DEF Of
    <2> HIDE DEF half
    <2> QED
      BY <1>a, <2>1, <2>3, <2>4
  <1>8. CASE UNCHANGED vars
    BY <1>8, <1>a, HeldStays DEF vars
  <1> QED
    BY <1>1, <1>2, <1>3, <1>4, <1>5, <1>6, <1>7, <1>8 DEF Next

(* Whatever threads enter, wait, time out and leave: available, held and   *)
(* lost amounts add up to the capacity of the machine.                     *)
THEOREM GateConservation == Spec => []Conservation
  <1>1. GateInv => Conservation
    BY DEF GateInv
  <1> QED
    BY <1>1, GateInit, GateStep, PTL DEF Spec

-----------------------------------------------------------------------------
(* Where every feature that requests name is configured, nothing is ever   *)
(* lost: the reservations are the only thing that stands between what is   *)
(* available and the whole machine, and they never exceed it.              *)

AllConfigured == \A q \in Requests : DOMAIN q \subseteq Keys

Whole == \A k \in Keys : Held(k) <= Capacity[k] /\ available[k] = Capacity[k] - Held(k)

NothingLost == lost = [k \in Keys |-> 0]

LEMMA NothingLostStep ==
  AllConfigured /\ TypeOK /\ NothingLost /\ [Next]_vars
      => NothingLost'
  BY DEF NothingLost, AllConfigured, Next, vars, DeadlinePasses, TimesOut, Leaves, Refused, Waits,
         Enters, TakesHalf

(* On a machine that configures every feature a profile may name, reserve  *)
(* gives back all it took: what is not available is held by some thread,   *)
(* and the threads together never hold more than the machine has.          *)
THEOREM GateWhole ==
  ASSUME AllConfigured
  PROVE  Spec => []Whole
  <1>1. Init => NothingLost
    BY DEF Init, NothingLost
  <1>2. GateInv /\ NothingLost => Whole
    <2> SUFFICES ASSUME GateInv, NothingLost, NEW k \in Keys
                 PROVE  Held(k) <= Capacity[k] /\ available[k] = Capacity[k] - Held(k)
      BY DEF Whole
    <2>1. available[k] \in Nat /\ Held(k) \in Nat /\ lost[k] = 0
      BY HeldFinite DEF GateInv, TypeOK, NothingLost
    <2>2. available[k] + Held(k) + lost[k] = Capacity[k]
      BY DEF GateInv, Conservation
    <2> QED
      BY <2>1, <2>2
  <1>3. TypeOK /\ NothingLost /\ [Next]_vars => NothingLost'
    BY NothingLostStep
  <1>4. GateInv => TypeOK
    BY DEF GateInv
  <1> QED
    BY <1>1, <1>2, <1>3, <1>4, GateInit, GateStep, PTL DEF Spec

=============================================================================
