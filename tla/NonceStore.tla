----------------------------- MODULE NonceStore -----------------------------
(***************************************************************************)
(* The nonce store of both servers: Auth.checkAndStoreNonce as the         *)
(* concurrent handlers call it, and the goroutine of StartNonceCleanup.    *)
(*                                                                         *)
(* A client signs a message that names its user, a timestamp and a nonce.  *)
(* The network or the client may deliver a message several times: each     *)
(* delivery is a handler.  The key of a message is its user and nonce; two *)
(* messages may have the same key.  Time is counted in integer ticks; the  *)
(* timestamp is compared with the same clock.                              *)
(*                                                                         *)
(* The map a.nonces is given by its domain, stored, and its values, stamp. *)
(***************************************************************************)
EXTENDS Integers, FiniteSets

CONSTANTS Handlers,     \* deliveries of messages
          Messages,     \* signed messages
          Keys,         \* user ":" nonce
          MessageOf,    \* MessageOf[h]: what handler h was delivered
          KeyOf,        \* KeyOf[m]: user and nonce of message m
          TimestampOf,  \* TimestampOf[m]: when its client says it was signed
          Skew,         \* allowedTimeSkew (30 s)
          TTL,          \* nonceTTL (60 s)
          MaxNonces,    \* maxNonces (100000 in tincver, none in src/esa)
          RereadClock,  \* does the handler read the clock again after the
                        \* password check, as src/esa does and tincver does not?
          MaxTime       \* bound on the clock, for TLC

ASSUME ConstantsOK ==
    /\ IsFiniteSet(Keys)
    /\ MessageOf \in [Handlers -> Messages]
    /\ KeyOf \in [Messages -> Keys]
    /\ TimestampOf \in [Messages -> Int]
    /\ Skew \in Nat /\ TTL \in Nat /\ MaxTime \in Nat
    /\ MaxNonces \in Nat \ {0}
    /\ RereadClock \in BOOLEAN

VARIABLES
    clock,     \* time.Now()
    pc,        \* where the handler is
    read,      \* read[h]: the clock when the request was parsed
    now,       \* now[h]: the argument now of checkAndStoreNonce
    stored,    \* the keys in a.nonces
    stamp,     \* stamp[k]: a.nonces[k], for k in stored
    sweepPc,   \* where the cleanup goroutine is
    cutoff,    \* the cutoff it computed
    stopped,   \* is stopCh closed?
    checkedAt  \* history: the clock when the handler was in checkAndStoreNonce

vars == <<clock, pc, read, now, stored, stamp, sweepPc, cutoff, stopped, checkedAt>>
sweepVars == <<sweepPc, cutoff, stopped>>

Key(h) == KeyOf[MessageOf[h]]

TypeOK ==
    /\ clock \in 0..MaxTime
    /\ pc \in [Handlers -> {"idle", "verifying", "checking", "accepted",
                            "rejected", "refused"}]
    /\ read \in [Handlers -> 0..MaxTime]
    /\ now \in [Handlers -> 0..MaxTime]
    /\ stored \subseteq Keys
    /\ stamp \in [Keys -> 0..MaxTime]
    /\ sweepPc \in {"waiting", "sweeping", "exited"}
    /\ cutoff \in Int
    /\ stopped \in BOOLEAN
    /\ checkedAt \in [Handlers -> 0..MaxTime]

Init ==
    /\ clock = 0
    /\ pc = [h \in Handlers |-> "idle"]
    /\ read = [h \in Handlers |-> 0]
    /\ now = [h \in Handlers |-> 0]
    /\ stored = {}
    /\ stamp = [k \in Keys |-> 0]
    /\ sweepPc = "waiting"
    /\ cutoff = 0
    /\ stopped = FALSE
    /\ checkedAt = [h \in Handlers |-> 0]

Tick ==
    /\ clock < MaxTime
    /\ clock' = clock + 1
    /\ UNCHANGED <<pc, read, now, stored, stamp, sweepVars, checkedAt>>

-----------------------------------------------------------------------------
(* The handler *)

(* ValidateTimestamp: the two clocks differ by no more than Skew. *)
Timely(m, t) == t - TimestampOf[m] \in -Skew..Skew

(* now := time.Now(); ParseAuthRequest accepts or refuses the request. *)
Parse(h) ==
    /\ pc[h] = "idle"
    /\ read' = [read EXCEPT ![h] = clock]
    /\ now' = [now EXCEPT ![h] = clock]
    /\ pc' = [pc EXCEPT ![h] = IF Timely(MessageOf[h], clock) THEN "verifying"
                                                              ELSE "refused"]
    /\ UNCHANGED <<clock, stored, stamp, sweepVars, checkedAt>>

(***************************************************************************)
(* The handler waited for a verification token and computed the hash; the  *)
(* password and the signature are good, or not.  Only src/esa reads the    *)
(* clock again for the nonce store.                                        *)
(***************************************************************************)
Verify(h) ==
    /\ pc[h] = "verifying"
    /\ now' = [now EXCEPT ![h] = IF RereadClock THEN clock ELSE now[h]]
    /\ \E next \in {"checking", "refused"} : pc' = [pc EXCEPT ![h] = next]
    /\ UNCHANGED <<clock, read, stored, stamp, sweepVars, checkedAt>>

(* The key was stored less than TTL before the time the handler has. *)
Fresh(h) == Key(h) \in stored /\ stamp[Key(h)] > now[h] - TTL

(* Mutant of Purged: the cleanup also drops entries that still count. *)
PurgedTooMuch(h) ==
    IF Cardinality(stored) >= MaxNonces
    THEN {k \in stored : stamp[k] > now[h]}
    ELSE stored

(* Mutant of Purged: a full map is not cleaned up. *)
PurgedNever(h) == stored

(* What is left of the map after the cleanup that a full map gets. *)
Purged(h) ==
    IF Cardinality(stored) >= MaxNonces
    THEN {k \in stored : stamp[k] >= now[h] - TTL}
    ELSE stored

(* Mutant of CheckAndStoreNonce: a map that stays full still takes the key. *)
CheckAndStoreAnyway(h) ==
    /\ pc[h] = "checking"
    /\ checkedAt' = [checkedAt EXCEPT ![h] = clock]
    /\ \/ /\ Fresh(h)
          /\ pc' = [pc EXCEPT ![h] = "rejected"]
          /\ UNCHANGED <<stored, stamp>>
       \/ /\ ~ Fresh(h)
          /\ pc' = [pc EXCEPT ![h] = "accepted"]
          /\ stored' = Purged(h) \cup {Key(h)}
          /\ stamp' = [stamp EXCEPT ![Key(h)] = now[h]]
    /\ UNCHANGED <<clock, read, now, sweepVars>>

(***************************************************************************)
(* checkAndStoreNonce, under nonceMu: a key that is fresh is rejected, a   *)
(* full map is cleaned up, and if it still is full the key is rejected.    *)
(***************************************************************************)
CheckAndStoreNonce(h) ==
    /\ pc[h] = "checking"
    /\ checkedAt' = [checkedAt EXCEPT ![h] = clock]
    /\ \/ /\ Fresh(h)
          /\ pc' = [pc EXCEPT ![h] = "rejected"]
          /\ UNCHANGED <<stored, stamp>>
       \/ /\ ~ Fresh(h)
          /\ Cardinality(Purged(h)) >= MaxNonces
          /\ pc' = [pc EXCEPT ![h] = "rejected"]
          /\ stored' = Purged(h)
          /\ UNCHANGED stamp
       \/ /\ ~ Fresh(h)
          /\ Cardinality(Purged(h)) < MaxNonces
          /\ pc' = [pc EXCEPT ![h] = "accepted"]
          /\ stored' = Purged(h) \cup {Key(h)}
          /\ stamp' = [stamp EXCEPT ![Key(h)] = now[h]]
    /\ UNCHANGED <<clock, read, now, sweepVars>>

HandlerStep(h) == Parse(h) \/ Verify(h) \/ CheckAndStoreNonce(h)

-----------------------------------------------------------------------------
(* The cleanup goroutine *)

(* Mutant of SweepTick: the ticker fires once. *)
SweepTickOnce ==
    /\ sweepPc = "waiting"
    /\ cutoff = 0
    /\ sweepPc' = "sweeping"
    /\ cutoff' = clock - TTL
    /\ UNCHANGED <<clock, pc, read, now, stored, stamp, stopped, checkedAt>>

(* The ticker fires: the cutoff is computed before nonceMu is taken. *)
SweepTick ==
    /\ sweepPc = "waiting"
    /\ sweepPc' = "sweeping"
    /\ cutoff' = clock - TTL
    /\ UNCHANGED <<clock, pc, read, now, stored, stamp, stopped, checkedAt>>

(* Mutant of Sweep: the map is emptied. *)
SweepAll ==
    /\ sweepPc = "sweeping"
    /\ stored' = {}
    /\ sweepPc' = "waiting"
    /\ UNCHANGED <<clock, pc, read, now, stamp, cutoff, stopped, checkedAt>>

(* Entries older than the cutoff are deleted under nonceMu. *)
Sweep ==
    /\ sweepPc = "sweeping"
    /\ stored' = {k \in stored : stamp[k] >= cutoff}
    /\ sweepPc' = "waiting"
    /\ UNCHANGED <<clock, pc, read, now, stamp, cutoff, stopped, checkedAt>>

(* main calls StopCleanup; handlers may still be running. *)
StopCleanup ==
    /\ ~ stopped
    /\ stopped' = TRUE
    /\ UNCHANGED <<clock, pc, read, now, stored, stamp, sweepPc, cutoff, checkedAt>>

SweeperExit ==
    /\ sweepPc = "waiting"
    /\ stopped
    /\ sweepPc' = "exited"
    /\ UNCHANGED <<clock, pc, read, now, stored, stamp, cutoff, stopped, checkedAt>>

Next ==
    \/ Tick
    \/ \E h \in Handlers : HandlerStep(h)
    \/ SweepTick \/ Sweep
    \/ StopCleanup \/ SweeperExit

Spec == Init /\ [][Next]_vars

(* The ticker keeps firing and the cleanup goroutine is scheduled. *)
FairSpec == Spec /\ WF_vars(SweepTick) /\ WF_vars(Sweep)

-----------------------------------------------------------------------------
(* Properties *)

Accepted == {h \in Handlers : pc[h] = "accepted"}

(***************************************************************************)
(* Once a key is accepted, no delivery with the same key is accepted until *)
(* TTL has passed since the time it was stored with, whatever stale times  *)
(* waiting handlers carry and whenever the map is cleaned up.              *)
(***************************************************************************)
OncePerTTL ==
    [][\A h \in Accepted' \ Accepted : \A g \in Accepted :
          Key(g) = Key(h) => clock >= now[g] + TTL]_vars

(***************************************************************************)
(* A message that was signed no later than the server read the clock is    *)
(* accepted at most once, unless a handler took TTL - Skew or longer to    *)
(* get from reading the clock to the nonce store.                          *)
(***************************************************************************)
AcceptedOnce ==
    \A g, h \in Accepted :
        /\ g # h
        /\ MessageOf[g] = MessageOf[h]
        /\ TimestampOf[MessageOf[g]] <= read[g]
        /\ TimestampOf[MessageOf[h]] <= read[h]
        => \E k \in {g, h} : checkedAt[k] - read[k] >= TTL - Skew

(* The map never outgrows its limit: memory is bounded. *)
WithinCapacity == Cardinality(stored) <= MaxNonces

(***************************************************************************)
(* A delivery is turned away only for one of its own kind that was stored  *)
(* within TTL, or because as many keys as the map holds were stored within *)
(* TTL: the entries of other users never block a first delivery otherwise. *)
(***************************************************************************)
RejectedForAReason ==
    [][\A h \in Handlers :
          pc[h] # "rejected" /\ pc'[h] = "rejected" =>
              \/ \E g \in Accepted : Key(g) = Key(h) /\ now[g] > now[h] - TTL
              \/ Cardinality({k \in Keys : \E g \in Accepted :
                     Key(g) = k /\ now[g] >= now[h] - TTL}) >= MaxNonces]_vars

(* An entry that is out of date goes, unless cleanup has been stopped. *)
Stale(k) == k \in stored /\ stamp[k] < clock - TTL

StaleGo == \A k \in Keys : Stale(k) ~> ~ Stale(k) \/ stopped
=============================================================================
