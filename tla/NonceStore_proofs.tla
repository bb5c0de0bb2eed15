-------------------------- MODULE NonceStore_proofs --------------------------
(***************************************************************************)
(* Proofs about NonceStore, for any handlers, messages and keys, any skew, *)
(* TTL and capacity, and with or without a second reading of the clock.    *)
(***************************************************************************)
EXTENDS NonceStore, FiniteSetTheorems, TLAPS

-----------------------------------------------------------------------------
(* The inductive invariant *)

(* The times that handlers and the cleanup goroutine carry are not ahead. *)
TimeInv ==
    /\ \A h \in Handlers : pc[h] # "idle" => read[h] <= now[h] /\ now[h] <= clock
    /\ \A h \in Handlers : pc[h] \in {"verifying", "checking", "accepted"} =>
          Timely(MessageOf[h], read[h])
    /\ sweepPc = "sweeping" => cutoff <= clock - TTL

(***************************************************************************)
(* An accepted key is remembered, with the time of its acceptance or a     *)
(* later one, until TTL has passed.                                        *)
(***************************************************************************)
Remembered(h) == Key(h) \in stored /\ stamp[Key(h)] >= now[h]

RememberInv == \A h \in Accepted : Remembered(h) \/ clock >= now[h] + TTL

(* Two acceptances of a key are TTL apart, in one order or the other. *)
ApartInv ==
    \A g, h \in Accepted :
        g # h /\ Key(g) = Key(h) =>
            checkedAt[h] >= now[g] + TTL \/ checkedAt[g] >= now[h] + TTL

(* Every entry stems from an accepted delivery. *)
OriginInv ==
    \A k \in stored : \E g \in Accepted : Key(g) = k /\ now[g] = stamp[k]

IInv == TypeOK /\ TimeInv /\ RememberInv /\ ApartInv /\ OriginInv

LEMMA KeyInKeys == ASSUME NEW h \in Handlers PROVE Key(h) \in Keys
  BY ConstantsOK DEF ConstantsOK, Key

LEMMA InitIInv == Init => IInv
<1> USE ConstantsOK DEF ConstantsOK, Init
<1>1. Init => TypeOK
  <2>1. 0 \in 0..MaxTime /\ 0 \in Int
    OBVIOUS
  <2>2. QED
    BY <2>1 DEF TypeOK
<1>2. Init => TimeInv /\ RememberInv /\ ApartInv /\ OriginInv
  BY DEF TimeInv, RememberInv, ApartInv, OriginInv, Accepted
<1>3. QED
  BY <1>1, <1>2 DEF IInv

(* Time passes: what was past stays past. *)
LEMMA TickIInv == ASSUME IInv, Tick PROVE IInv'
<1> USE ConstantsOK DEF ConstantsOK, IInv, TypeOK, Tick, sweepVars
<1>1. TypeOK'
  OBVIOUS
<1>2. TimeInv'
  BY DEF TimeInv, Timely
<1>3. RememberInv'
  BY DEF RememberInv, Remembered, Accepted, Key
<1>4. ApartInv' /\ OriginInv'
  BY DEF ApartInv, OriginInv, Accepted, Key
<1>5. QED
  BY <1>1, <1>2, <1>3, <1>4

(* Steps of a handler outside the nonce store. *)
LEMMA OutsideIInv ==
  ASSUME IInv, NEW h \in Handlers, Parse(h) \/ Verify(h)
  PROVE  IInv'
<1> USE ConstantsOK DEF ConstantsOK, IInv, TypeOK, Parse, Verify, sweepVars
<1>1. TypeOK'
  OBVIOUS
<1>2. TimeInv'
  BY DEF TimeInv
<1>3. /\ Accepted' = Accepted
      /\ \A g \in Accepted : now'[g] = now[g] /\ checkedAt'[g] = checkedAt[g]
  BY DEF Accepted
<1>4. RememberInv' /\ ApartInv' /\ OriginInv'
  BY <1>3 DEF RememberInv, Remembered, ApartInv, OriginInv, Key
<1>5. QED
  BY <1>1, <1>2, <1>4

(* The cleanup deletes what is out of date only. *)
LEMMA SweepIInv ==
  ASSUME IInv, (SweepTick \/ Sweep) \/ (StopCleanup \/ SweeperExit)
  PROVE  IInv'
<1> USE ConstantsOK DEF ConstantsOK, IInv, TypeOK, SweepTick, Sweep,
        StopCleanup, SweeperExit
<1>1. TypeOK' /\ TimeInv'
  <2>1. CASE SweepTick
    BY <2>1 DEF TimeInv
  <2>2. CASE Sweep
    BY <2>2 DEF TimeInv
  <2>3. CASE StopCleanup \/ SweeperExit
    BY <2>3 DEF TimeInv
  <2>4. QED
    BY <2>1, <2>2, <2>3
<1>2. UNCHANGED <<clock, pc, now, stamp, checkedAt>>
  OBVIOUS
<1>3. stored' = stored \/ (Sweep /\ stored' = {k \in stored : stamp[k] >= cutoff})
  OBVIOUS
<1>4. RememberInv'
  BY <1>2, <1>3, KeyInKeys
     DEF RememberInv, Remembered, Accepted, Key, TimeInv
<1>5. ApartInv' /\ OriginInv'
  BY <1>2, <1>3 DEF ApartInv, OriginInv, Accepted, Key
<1>6. QED
  BY <1>1, <1>4, <1>5

(***************************************************************************)
(* The nonce store: an acceptance finds every earlier one of its key TTL   *)
(* or more in the past.                                                    *)
(***************************************************************************)
LEMMA AcceptedApart ==
  ASSUME IInv, NEW h \in Handlers, CheckAndStoreNonce(h), pc'[h] = "accepted",
         NEW g \in Accepted, Key(g) = Key(h)
  PROVE  clock >= now[g] + TTL
<1>1. ~ Fresh(h)
  BY DEF CheckAndStoreNonce, IInv, TypeOK
<1>2. CASE Remembered(g)
  BY <1>1, <1>2, ConstantsOK, KeyInKeys
     DEF ConstantsOK, Fresh, Remembered, IInv, TypeOK, TimeInv,
         CheckAndStoreNonce, Accepted
<1>3. CASE ~ Remembered(g)
  BY <1>3 DEF IInv, RememberInv
<1>4. QED
  BY <1>2, <1>3

LEMMA CheckIInv ==
  ASSUME IInv, NEW h \in Handlers, CheckAndStoreNonce(h)
  PROVE  IInv'
<1> USE ConstantsOK, KeyInKeys DEF ConstantsOK, IInv, sweepVars
<1>1. Purged(h) \subseteq stored /\ Purged(h) \subseteq Keys
  BY DEF Purged, TypeOK
<1>2. TypeOK'
  BY <1>1 DEF CheckAndStoreNonce, TypeOK
<1>3. TimeInv'
  BY DEF CheckAndStoreNonce, TypeOK, TimeInv, Timely
<1>4. h \notin Accepted /\ now[h] <= clock
  BY DEF CheckAndStoreNonce, Accepted, TimeInv
<1>5. ASSUME NEW g \in Accepted, Remembered(g), Key(g) \notin Purged(h)
      PROVE  clock >= now[g] + TTL
  <2>1. stamp[Key(g)] < now[h] - TTL
    BY <1>5 DEF Purged, Remembered, TypeOK, Accepted
  <2>2. QED
    BY <1>4, <1>5, <2>1 DEF Remembered, TypeOK, Accepted
<1>6. CASE pc'[h] = "accepted"
  <2>1. /\ Accepted' = Accepted \cup {h}
        /\ stored' = Purged(h) \cup {Key(h)}
        /\ stamp' = [stamp EXCEPT ![Key(h)] = now[h]]
        /\ checkedAt' = [checkedAt EXCEPT ![h] = clock]
        /\ UNCHANGED <<clock, now>>
    BY <1>6 DEF CheckAndStoreNonce, TypeOK, Accepted
  <2>2. \A g \in Accepted : Key(g) = Key(h) => clock >= now[g] + TTL
    BY <1>6, AcceptedApart
  <2>3. Accepted \subseteq Handlers
    BY DEF Accepted
  <2>4. RememberInv'
    <3> SUFFICES ASSUME NEW g \in Accepted'
                 PROVE  Remembered(g)' \/ clock >= now[g] + TTL
      BY <2>1 DEF RememberInv
    <3>1. CASE Key(g) = Key(h)
      BY <2>1, <2>2, <2>3, <3>1 DEF Remembered, Key, TypeOK
    <3>2. CASE Key(g) # Key(h)
      BY <1>5, <2>1, <2>3, <3>2 DEF RememberInv, Remembered, Key, TypeOK
    <3>3. QED
      BY <3>1, <3>2
  <2>5. ApartInv'
    <3> SUFFICES ASSUME NEW f \in Accepted', NEW g \in Accepted',
                        f # g, Key(f) = Key(g)
                 PROVE  checkedAt'[g] >= now[f] + TTL \/ checkedAt'[f] >= now[g] + TTL
      BY <2>1 DEF ApartInv, Key
    <3>1. CASE f = h \/ g = h
      BY <2>1, <2>2, <2>3, <3>1, <1>4 DEF TypeOK
    <3>2. CASE f # h /\ g # h
      BY <2>1, <2>3, <3>2 DEF ApartInv, TypeOK
    <3>3. QED
      BY <3>1, <3>2
  <2>6. OriginInv'
    <3> SUFFICES ASSUME NEW k \in stored'
                 PROVE  \E g \in Accepted' : Key(g) = k /\ now[g] = stamp'[k]
      BY <2>1 DEF OriginInv, Key
    <3>1. CASE k = Key(h)
      BY <2>1, <3>1 DEF TypeOK
    <3>2. CASE k # Key(h)
      BY <1>1, <2>1, <3>2 DEF OriginInv, TypeOK
    <3>3. QED
      BY <3>1, <3>2
  <2>7. QED
    BY <1>2, <1>3, <2>4, <2>5, <2>6
<1>7. CASE pc'[h] # "accepted"
  <2>1. /\ Accepted' = Accepted
        /\ stored' \in {stored, Purged(h)}
        /\ \A g \in Accepted : checkedAt'[g] = checkedAt[g]
        /\ UNCHANGED <<clock, now, stamp>>
    BY <1>4, <1>7 DEF CheckAndStoreNonce, TypeOK, Accepted
  <2>2. RememberInv'
    BY <1>5, <2>1 DEF RememberInv, Remembered, Key
  <2>3. ApartInv' /\ OriginInv'
    BY <1>1, <2>1 DEF ApartInv, OriginInv, Key
  <2>4. QED
    BY <1>2, <1>3, <2>2, <2>3
<1>8. QED
  BY <1>6, <1>7

LEMMA NextIInv == IInv /\ [Next]_vars => IInv'
<1> SUFFICES ASSUME IInv, [Next]_vars PROVE IInv'
  OBVIOUS
<1>1. CASE Next
  BY <1>1, TickIInv, OutsideIInv, SweepIInv, CheckIInv DEF Next, HandlerStep
<1>2. CASE UNCHANGED vars
  BY <1>2 DEF vars, IInv, TypeOK, TimeInv, Timely, RememberInv, Remembered,
     ApartInv, OriginInv, Accepted, Key
<1>3. QED
  BY <1>1, <1>2

LEMMA Invariant == Spec => []IInv
  BY InitIInv, NextIInv, PTL DEF Spec

-----------------------------------------------------------------------------
(* The variables of the nonce store always have their types. *)
THEOREM TypeCorrect == Spec => []TypeOK
<1>1. IInv => TypeOK
  BY DEF IInv
<1>2. QED
  BY <1>1, Invariant, PTL

(***************************************************************************)
(* An accepted key is not accepted again within TTL of the time it was     *)
(* stored with: neither a stale time that a handler carries from before    *)
(* its password check nor a cleanup that runs late can forget it too soon. *)
(***************************************************************************)
THEOREM OncePerTTLAlways == Spec => OncePerTTL
<1> DEFINE Apart == \A h \in Accepted' \ Accepted : \A g \in Accepted :
             Key(g) = Key(h) => clock >= now[g] + TTL
<1>1. ASSUME IInv, [Next]_vars
      PROVE  [Apart]_vars
  <2> SUFFICES ASSUME NEW h \in Accepted' \ Accepted, NEW g \in Accepted,
                      Key(g) = Key(h)
               PROVE  clock >= now[g] + TTL
    OBVIOUS
  <2>1. h \in Handlers /\ pc[h] # "accepted" /\ pc'[h] = "accepted"
    BY DEF Accepted
  <2>2. CheckAndStoreNonce(h)
    BY <1>1, <2>1 DEF Next, HandlerStep, Tick, Parse, Verify, SweepTick, Sweep,
       StopCleanup, SweeperExit, CheckAndStoreNonce, vars, IInv, TypeOK
  <2>3. QED
    BY <1>1, <2>1, <2>2, AcceptedApart
<1>2. QED
  BY <1>1, Invariant, PTL DEF Spec, OncePerTTL

(***************************************************************************)
(* A message signed no later than the server reads its clock is accepted   *)
(* at most once, provided handlers get from reading the clock to the nonce *)
(* store in less than TTL - Skew.                                          *)
(***************************************************************************)
THEOREM AcceptedOnceAlways == Spec => []AcceptedOnce
<1>1. ASSUME IInv PROVE AcceptedOnce
  <2> SUFFICES ASSUME NEW g \in Accepted, NEW h \in Accepted, g # h,
                      MessageOf[g] = MessageOf[h],
                      TimestampOf[MessageOf[g]] <= read[g],
                      TimestampOf[MessageOf[h]] <= read[h]
               PROVE  \/ checkedAt[g] - read[g] >= TTL - Skew
                      \/ checkedAt[h] - read[h] >= TTL - Skew
    BY DEF AcceptedOnce
  <2> DEFINE m == MessageOf[g]
  <2>1. m \in Messages /\ TimestampOf[m] \in Int /\ Skew \in Nat /\ TTL \in Nat
    BY ConstantsOK DEF ConstantsOK, Accepted
  <2>2. /\ read[g] \in Int /\ now[g] \in Int /\ checkedAt[g] \in Int
        /\ read[h] \in Int /\ now[h] \in Int /\ checkedAt[h] \in Int
    BY <1>1, ConstantsOK DEF IInv, TypeOK, Accepted, ConstantsOK
  <2>3. /\ read[g] <= now[g] /\ read[g] - TimestampOf[m] <= Skew
        /\ read[h] <= now[h] /\ read[h] - TimestampOf[m] <= Skew
    BY <1>1, <2>1, <2>2 DEF IInv, TimeInv, Timely, Accepted
  <2>4. checkedAt[h] >= now[g] + TTL \/ checkedAt[g] >= now[h] + TTL
    BY <1>1 DEF IInv, ApartInv, Key
  <2>5. QED
    BY <2>1, <2>2, <2>3, <2>4
<1>2. QED
  BY <1>1, Invariant, PTL

(***************************************************************************)
(* A delivery that the nonce store turns away was either stored within TTL *)
(* before, or the map is full of keys that were.                           *)
(***************************************************************************)
THEOREM RejectedForAReasonAlways == Spec => RejectedForAReason
<1> DEFINE Recent(h) == {k \in Keys : \E g \in Accepted :
                           Key(g) = k /\ now[g] >= now[h] - TTL}
           Reason == \A h \in Handlers :
             pc[h] # "rejected" /\ pc'[h] = "rejected" =>
                 \/ \E g \in Accepted : Key(g) = Key(h) /\ now[g] > now[h] - TTL
                 \/ Cardinality(Recent(h)) >= MaxNonces
<1>1. ASSUME IInv, [Next]_vars
      PROVE  [Reason]_vars
  <2> SUFFICES ASSUME NEW h \in Handlers, pc[h] # "rejected", pc'[h] = "rejected"
               PROVE  \/ \E g \in Accepted : /\ Key(g) = Key(h)
                                            /\ now[g] > now[h] - TTL
                      \/ Cardinality(Recent(h)) >= MaxNonces
    OBVIOUS
  <2>1. CheckAndStoreNonce(h)
    BY <1>1 DEF Next, HandlerStep, Tick, Parse, Verify, SweepTick, Sweep,
       StopCleanup, SweeperExit, CheckAndStoreNonce, vars, IInv, TypeOK
  <2>2. CASE Fresh(h)
    BY <1>1, <2>2 DEF Fresh, IInv, OriginInv
  <2>3. CASE ~ Fresh(h)
    <3>1. Cardinality(Purged(h)) >= MaxNonces
      BY <1>1, <2>1, <2>3 DEF CheckAndStoreNonce, IInv, TypeOK
    <3>2. /\ Purged(h) \subseteq stored
          /\ \/ Purged(h) = stored /\ Cardinality(stored) < MaxNonces
             \/ \A k \in Purged(h) : stamp[k] >= now[h] - TTL
      <4>1. CASE Cardinality(stored) >= MaxNonces
        BY <4>1 DEF Purged
      <4>2. CASE ~ (Cardinality(stored) >= MaxNonces)
        <5>1. Purged(h) = stored
          BY <4>2 DEF Purged
        <5>2. IsFiniteSet(stored)
          BY <1>1, ConstantsOK, FS_Subset DEF IInv, TypeOK, ConstantsOK
        <5>3. Cardinality(stored) < MaxNonces
          BY <4>2, <5>2, FS_CardinalityType, ConstantsOK DEF ConstantsOK
        <5>4. QED
          BY <5>1, <5>3
      <4>3. QED
        BY <4>1, <4>2
    <3>3. IsFiniteSet(Recent(h)) /\ IsFiniteSet(Purged(h))
      BY <1>1, <3>2, ConstantsOK, FS_Subset DEF IInv, TypeOK, ConstantsOK
    <3>4. CASE \A k \in Purged(h) : stamp[k] >= now[h] - TTL
      <4>1. Purged(h) \subseteq Recent(h)
        BY <1>1, <3>2, <3>4 DEF IInv, TypeOK, OriginInv
      <4>2. Cardinality(Purged(h)) <= Cardinality(Recent(h))
        BY <3>3, <4>1, FS_Subset
      <4>3. QED
        BY <3>1, <3>3, <4>2, FS_CardinalityType, ConstantsOK DEF ConstantsOK
    <3>5. CASE Purged(h) = stored /\ Cardinality(stored) < MaxNonces
      BY <3>1, <3>3, <3>5, FS_CardinalityType, ConstantsOK DEF ConstantsOK
    <3>6. QED
      BY <3>2, <3>4, <3>5
  <2>4. QED
    BY <2>2, <2>3
<1>2. QED
  BY <1>1, Invariant, PTL DEF Spec, RejectedForAReason

(* The map never holds more than MaxNonces entries. *)
THEOREM WithinCapacityAlways == Spec => []WithinCapacity
<1> USE ConstantsOK DEF ConstantsOK
<1>1. Init => WithinCapacity
  BY FS_EmptySet DEF Init, WithinCapacity
<1>2. ASSUME IInv, WithinCapacity, [Next]_vars
      PROVE  WithinCapacity'
  <2>1. IsFiniteSet(stored) /\ Cardinality(stored) \in Nat
    BY <1>2, FS_Subset, FS_CardinalityType DEF IInv, TypeOK
  <2>2. ASSUME stored' \subseteq stored
        PROVE  WithinCapacity'
    <3>1. IsFiniteSet(stored') /\ Cardinality(stored') <= Cardinality(stored)
      BY <2>1, <2>2, FS_Subset
    <3>2. Cardinality(stored') \in Nat
      BY <3>1, FS_CardinalityType
    <3>3. QED
      BY <1>2, <2>1, <3>1, <3>2 DEF WithinCapacity
  <2>3. ASSUME NEW h \in Handlers, CheckAndStoreNonce(h)
        PROVE  WithinCapacity'
    <3>1. IsFiniteSet(Purged(h)) /\ Cardinality(Purged(h)) \in Nat
      <4>1. Purged(h) \subseteq stored
        BY DEF Purged
      <4>2. IsFiniteSet(Purged(h))
        BY <2>1, <4>1, FS_Subset
      <4>3. QED
        BY <4>2, FS_CardinalityType
    <3>2. CASE stored' \subseteq stored
      BY <2>2, <3>2
    <3>3. CASE stored' = Purged(h) \cup {Key(h)} /\ Cardinality(Purged(h)) < MaxNonces
      <4>1. IsFiniteSet(stored')
        BY <3>1, <3>3, FS_AddElement
      <4>2. Cardinality(stored') \in Nat
        BY <4>1, FS_CardinalityType
      <4>3. Cardinality(stored') <= Cardinality(Purged(h)) + 1
        <5>1. CASE Key(h) \in Purged(h)
          <6>1. stored' = Purged(h)
            BY <3>3, <5>1
          <6>2. QED
            BY <3>1, <6>1
        <5>2. CASE Key(h) \notin Purged(h)
          <6>1. Cardinality(stored') = Cardinality(Purged(h)) + 1
            BY <3>1, <3>3, <5>2, FS_AddElement
          <6>2. QED
            BY <3>1, <6>1
        <5>3. QED
          BY <5>1, <5>2
      <4>4. QED
        BY <3>1, <3>3, <4>2, <4>3 DEF WithinCapacity
    <3>4. QED
      BY <2>3, <3>2, <3>3 DEF CheckAndStoreNonce, Purged
  <2>4. CASE Sweep
    BY <2>2, <2>4 DEF Sweep
  <2>5. CASE UNCHANGED stored
    BY <2>2, <2>5
  <2>6. QED
    BY <1>2, <2>3, <2>4, <2>5 DEF Next, HandlerStep, Tick, Parse, Verify,
       SweepTick, StopCleanup, SweeperExit, vars
<1>3. QED
  BY <1>1, <1>2, Invariant, PTL DEF Spec

=============================================================================
