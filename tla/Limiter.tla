------------------------------- MODULE Limiter -------------------------------
(***************************************************************************)
(* The rate limiter of the HTTP handlers (tincver/http_.go, and the same   *)
(* code in src/esa/http_.go): a map from IP addresses to token buckets,    *)
(* filled by getLimiter up to a maximum, emptied by a sweeper.  A handler  *)
(* keeps the pointer getLimiter gave it, and the sweeper does not know: it *)
(* may drop a bucket from the map just before a handler takes a token from *)
(* it.  Handlers also read the clock before they get the bucket's mutex.   *)
(* (failCount and lastFail, which only decide how long a failing handler   *)
(* waits, are left out.)                                                   *)
(*                                                                         *)
(* The buckets are those of addresses, and clientIP decides about them;    *)
(* what counts is what a client gets, over any of the ways that Received   *)
(* of ClientIP lists.                                                      *)
(*                                                                         *)
(* A bucket is named by the handler and the call that created it.          *)
(***************************************************************************)
EXTENDS Integers, FiniteSets, ClientIP

CONSTANTS Handlers,    \* the requests being served
          NoBucket,    \* nil
          Burst,       \* burstTokens
          Rate,        \* tokens a bucket gains in a tick
          IdleTTL,     \* limiterIdleTTL, in ticks
          MaxEntries,  \* maxLimiterEntries
          MaxLag,      \* bound: ticks a handler waits for lim.mu
          MaxTime      \* bound of the clock

Buckets == Handlers \X {"allow", "fail"}

(* The machines requests come from. *)
Clients == {ip \in IPs : ~ IsTrustedProxy(ip)}

ASSUME ConstantsOK ==
    /\ IsFiniteSet(Handlers)
    /\ NoBucket \notin Buckets
    /\ Burst \in Nat \ {0}
    /\ Rate \in Nat \ {0}
    /\ IdleTTL \in Nat
    /\ MaxEntries \in Nat \ {0}
    /\ MaxLag \in Nat
    /\ MaxTime \in Nat
    \* a bucket fills up in less than the time after which it is dropped:
    \* 5 seconds and 15 minutes in the code
    /\ Rate * (IdleTTL - MaxLag) >= Burst

VARIABLES
    clock,
    \* Auth
    limiters,     \* limiters[ip]: the bucket of ip in the map
    limiterCount,
    tokens,       \* of each bucket: the fields of ipLimiter
    last,
    lastSeen,
    \* the handlers
    client,       \* the machine the request comes from
    ipOf,         \* ip of ServeHTTP, which clientIP returned
    pc,           \* where the handler is
    ptr,          \* the bucket it got from getLimiter
    now,          \* the time allowRequest read
    \* the sweeper, which has limiterMu from "range" to the end of its round
    sweepPc,
    cutoff,
    toVisit,      \* addresses Range has yet to visit
    target,       \* the address whose bucket it found stale, or Junk
    \* history: not in the program, read by the properties only
    ideal,        \* tokens of a client's bucket that is never dropped
    dropped,      \* buckets the sweeper deleted
    strays,       \* admissions by a bucket that was dropped, or found stale
    used,         \* when a handler last used the bucket in the map
    touched       \* has target been used since it was found stale?

mapVars     == <<limiters, limiterCount>>
bucketVars  == <<tokens, last, lastSeen>>
requestVars == <<client, ipOf>>
handlerVars == <<pc, ptr, now>>
sweepVars   == <<sweepPc, cutoff, toVisit, target>>
historyVars == <<ideal, dropped, strays, used, touched>>
vars == <<clock, requestVars, mapVars, bucketVars, handlerVars, sweepVars, historyVars>>

TypeOK ==
    /\ clock \in 0..MaxTime
    /\ limiters \in [IPs -> Buckets \cup {NoBucket}]
    /\ limiterCount \in 0..MaxEntries
    /\ tokens \in [Buckets -> Int]
    /\ \A b \in Buckets : tokens[b] <= Burst
    /\ last \in [Buckets -> 0..MaxTime]
    /\ lastSeen \in [Buckets -> 0..MaxTime]
    /\ client \in [Handlers -> Clients]
    /\ ipOf \in [Handlers -> IPs]
    /\ pc \in [Handlers -> {"idle", "allow", "clock", "take", "admitted",
                            "fail", "failing", "succeeding", "done"}]
    /\ ptr \in [Handlers -> Buckets \cup {NoBucket}]
    /\ now \in [Handlers -> 0..MaxTime]
    /\ sweepPc \in {"idle", "lock", "range", "delete"}
    /\ cutoff \in Int
    /\ toVisit \subseteq IPs
    /\ target \in IPs \cup {Junk}
    /\ ideal \in [Clients -> Int]
    /\ dropped \subseteq Buckets
    /\ strays \in [Clients -> Nat]
    /\ used \in [IPs -> 0..MaxTime]
    /\ touched \in BOOLEAN

(* A client's request, and what ServeHTTP's first call makes of it. *)
Arrivals == UNION {{<<c, ClientIP(req)>> : req \in Received(c)} : c \in Clients}

Init ==
    /\ clock = 0
    /\ \E arrival \in [Handlers -> Arrivals] :
          /\ client = [h \in Handlers |-> arrival[h][1]]
          /\ ipOf = [h \in Handlers |-> arrival[h][2]]
    /\ limiters = [ip \in IPs |-> NoBucket]
    /\ limiterCount = 0
    /\ tokens = [b \in Buckets |-> 0]
    /\ last = [b \in Buckets |-> 0]
    /\ lastSeen = [b \in Buckets |-> 0]
    /\ pc = [h \in Handlers |-> "idle"]
    /\ ptr = [h \in Handlers |-> NoBucket]
    /\ now = [h \in Handlers |-> 0]
    /\ sweepPc = "idle"
    /\ cutoff = 0
    /\ toVisit = {}
    /\ target = Junk
    /\ ideal = [c \in Clients |-> Burst]
    /\ dropped = {}
    /\ strays = [c \in Clients |-> 0]
    /\ used = [ip \in IPs |-> 0]
    /\ touched = FALSE

AtMost(n, m) == IF n <= m THEN n ELSE m

GoTo(h, place) == pc' = [pc EXCEPT ![h] = place]

(* limiterMu is held by the sweeper from "range" to the end of its round. *)
MapLocked == sweepPc \in {"range", "delete"}

-----------------------------------------------------------------------------
(***************************************************************************)
(* getLimiter(ip), which allowRequest and recordFailure begin with.  First *)
(* the map is read without a lock; a handler that finds nothing goes on to *)
(* "place" with no bucket and takes limiterMu.                             *)
(***************************************************************************)
Found(h, place) ==
    /\ limiters[ipOf[h]] # NoBucket
    /\ ptr' = [ptr EXCEPT ![h] = limiters[ipOf[h]]]
    /\ GoTo(h, place)

NotFound(h, place) ==
    /\ limiters[ipOf[h]] = NoBucket
    /\ GoTo(h, place)
    /\ UNCHANGED ptr

(* Mutant of NewBucket: the map may grow past its maximum by one. *)
NewBucketOffByOne(h, b, place) ==
    /\ limiterCount <= MaxEntries
    /\ limiters' = [limiters EXCEPT ![ipOf[h]] = b]
    /\ limiterCount' = limiterCount + 1
    /\ tokens' = [tokens EXCEPT ![b] = Burst]
    /\ last' = [last EXCEPT ![b] = clock]
    /\ lastSeen' = [lastSeen EXCEPT ![b] = clock]
    /\ ptr' = [ptr EXCEPT ![h] = b]
    /\ used' = [used EXCEPT ![ipOf[h]] = clock]
    /\ GoTo(h, place)

(* getLimiter with limiterMu: make a bucket, unless the map is full. *)
NewBucket(h, b, place) ==
    /\ limiterCount < MaxEntries
    /\ limiters' = [limiters EXCEPT ![ipOf[h]] = b]
    /\ limiterCount' = limiterCount + 1
    /\ tokens' = [tokens EXCEPT ![b] = Burst]
    /\ last' = [last EXCEPT ![b] = clock]
    /\ lastSeen' = [lastSeen EXCEPT ![b] = clock]
    /\ ptr' = [ptr EXCEPT ![h] = b]
    /\ used' = [used EXCEPT ![ipOf[h]] = clock]
    /\ GoTo(h, place)

(* Mutant of GetLocked: the map is not read again under limiterMu. *)
GetLockedNoRecheck(h, b, place) ==
    /\ ~ MapLocked
    /\ \/ NewBucket(h, b, place)
       \/ /\ limiterCount >= MaxEntries
          /\ GoTo(h, "done")
          /\ UNCHANGED <<mapVars, bucketVars, ptr, used>>

GetLocked(h, b, place) ==
    /\ ~ MapLocked
    /\ \/ Found(h, place) /\ UNCHANGED <<mapVars, bucketVars, used>>
       \/ limiters[ipOf[h]] = NoBucket /\ NewBucket(h, b, place)
       \/ /\ limiters[ipOf[h]] = NoBucket
          /\ limiterCount >= MaxEntries
          /\ GoTo(h, "done")
          /\ UNCHANGED <<mapVars, bucketVars, ptr, used>>

(* A request arrives; allowRequest looks its address up. *)
Allow(h) ==
    /\ pc[h] = "idle"
    /\ Found(h, "clock") \/ NotFound(h, "allow")
    /\ UNCHANGED <<clock, mapVars, bucketVars, now, sweepVars, historyVars>>

AllowLocked(h) ==
    /\ pc[h] = "allow"
    /\ GetLocked(h, <<h, "allow">>, "clock")
    /\ UNCHANGED <<clock, now, sweepVars, ideal, dropped, strays, touched>>

(* allowRequest: now := time.Now(), before lim.mu.Lock(). *)
ReadClock(h) ==
    /\ pc[h] = "clock"
    /\ now' = [now EXCEPT ![h] = clock]
    /\ GoTo(h, "take")
    /\ UNCHANGED <<clock, mapVars, bucketVars, ptr, sweepVars, historyVars>>

(* h uses its bucket: has the sweeper given it up? *)
Stray(h) ==
    \/ ptr[h] \in dropped
    \/ sweepPc = "delete" /\ limiters[target] = ptr[h]

Use(h) ==
    /\ used' = IF limiters[ipOf[h]] = ptr[h] THEN
                  [used EXCEPT ![ipOf[h]] = clock] ELSE used
    /\ touched' = (touched \/ (sweepPc = "delete" /\ target = ipOf[h]))

Admit(h) ==
    /\ ideal' = [ideal EXCEPT ![client[h]] = @ - 1]
    /\ strays' = IF Stray(h) THEN [strays EXCEPT ![client[h]] = @ + 1] ELSE strays

(***************************************************************************)
(* allowRequest with lim.mu: add what the bucket gained since it was last  *)
(* used, at most to Burst, and take a token.  Another handler that read    *)
(* the clock later may have come first; then the elapsed time is negative. *)
(***************************************************************************)
Gained(h) == AtMost(Burst, tokens[ptr[h]] + Rate * (now[h] - last[ptr[h]]))

Take(h) ==
    /\ pc[h] = "take"
    /\ last' = [last EXCEPT ![ptr[h]] = now[h]]
    /\ lastSeen' = [lastSeen EXCEPT ![ptr[h]] = now[h]]
    /\ \/ /\ Gained(h) < 1
          /\ tokens' = [tokens EXCEPT ![ptr[h]] = Gained(h)]
          /\ GoTo(h, "done")
          /\ UNCHANGED <<ideal, strays>>
       \/ /\ Gained(h) >= 1
          /\ tokens' = [tokens EXCEPT ![ptr[h]] = Gained(h) - 1]
          /\ GoTo(h, "admitted")
          /\ Admit(h)
    /\ Use(h)
    /\ now' = [now EXCEPT ![h] = 0]
    /\ ptr' = [ptr EXCEPT ![h] = NoBucket]
    /\ UNCHANGED <<clock, mapVars, sweepVars, dropped>>

(* Authentication failed: recordFailure looks the address up. *)
Fail(h) ==
    /\ pc[h] = "admitted"
    /\ Found(h, "failing") \/ NotFound(h, "fail")
    /\ UNCHANGED <<clock, mapVars, bucketVars, now, sweepVars, historyVars>>

(* A full map gives no bucket: the handler delays by maxFailDelay. *)
FailLocked(h) ==
    /\ pc[h] = "fail"
    /\ GetLocked(h, <<h, "fail">>, "failing")
    /\ UNCHANGED <<clock, now, sweepVars, ideal, dropped, strays, touched>>

(* recordFailure with lim.mu. *)
RecordFailure(h) ==
    /\ pc[h] = "failing"
    /\ lastSeen' = [lastSeen EXCEPT ![ptr[h]] = clock]
    /\ GoTo(h, "done")
    /\ Use(h)
    /\ ptr' = [ptr EXCEPT ![h] = NoBucket]
    /\ UNCHANGED <<clock, mapVars, tokens, last, now, sweepVars, ideal, dropped,
                   strays>>

(* Authentication succeeded: recordSuccess, which makes no new bucket. *)
Succeed(h) ==
    /\ pc[h] = "admitted"
    /\ Found(h, "succeeding") \/ NotFound(h, "done")
    /\ UNCHANGED <<clock, mapVars, bucketVars, now, sweepVars, historyVars>>

RecordSuccess(h) ==
    /\ pc[h] = "succeeding"
    /\ lastSeen' = [lastSeen EXCEPT ![ptr[h]] = clock]
    /\ GoTo(h, "done")
    /\ Use(h)
    /\ ptr' = [ptr EXCEPT ![h] = NoBucket]
    /\ UNCHANGED <<clock, mapVars, tokens, last, now, sweepVars, ideal, dropped,
                   strays>>

(* The request is refused before it comes to either. *)
Leave(h) ==
    /\ pc[h] = "admitted"
    /\ GoTo(h, "done")
    /\ UNCHANGED <<clock, mapVars, bucketVars, ptr, now, sweepVars, historyVars>>

-----------------------------------------------------------------------------
(* Mutant of SweepTick: the idle time is not subtracted. *)
SweepTickNow ==
    /\ sweepPc = "idle"
    /\ cutoff' = clock
    /\ sweepPc' = "lock"
    /\ UNCHANGED <<clock, mapVars, bucketVars, handlerVars, toVisit, target,
                   historyVars>>

(* The ticker of StartLimiterCleanup fires: the cutoff is computed. *)
SweepTick ==
    /\ sweepPc = "idle"
    /\ cutoff' = clock - IdleTTL
    /\ sweepPc' = "lock"
    /\ UNCHANGED <<clock, mapVars, bucketVars, handlerVars, toVisit, target,
                   historyVars>>

(* a.limiterMu.Lock(), and Range begins. *)
SweepLock ==
    /\ sweepPc = "lock"
    /\ sweepPc' = "range"
    /\ toVisit' = {ip \in IPs : limiters[ip] # NoBucket}
    /\ UNCHANGED <<clock, mapVars, bucketVars, handlerVars, cutoff, target,
                   historyVars>>

(* Range visits ip: is its bucket stale?  lim.mu is released again. *)
SweepVisit(ip) ==
    /\ sweepPc = "range"
    /\ ip \in toVisit
    /\ toVisit' = toVisit \ {ip}
    /\ IF lastSeen[limiters[ip]] < cutoff
       THEN sweepPc' = "delete" /\ target' = ip /\ touched' = FALSE
       ELSE UNCHANGED <<sweepPc, target, touched>>
    /\ UNCHANGED <<clock, mapVars, bucketVars, handlerVars, cutoff, ideal,
                   dropped, strays, used>>

(* Mutant of SweepDelete: the counter is not decremented. *)
SweepDeleteUncounted ==
    /\ sweepPc = "delete"
    /\ limiters' = [limiters EXCEPT ![target] = NoBucket]
    /\ target' = Junk
    /\ sweepPc' = "range"
    /\ UNCHANGED <<clock, limiterCount, bucketVars, handlerVars, cutoff, toVisit,
                   historyVars>>

(* The stale bucket is deleted from the map. *)
SweepDelete ==
    /\ sweepPc = "delete"
    /\ limiters' = [limiters EXCEPT ![target] = NoBucket]
    /\ limiterCount' = limiterCount - 1
    /\ dropped' = dropped \cup {limiters[target]}
    /\ touched' = FALSE
    /\ target' = Junk
    /\ sweepPc' = "range"
    /\ UNCHANGED <<clock, bucketVars, handlerVars, cutoff, toVisit, ideal,
                   strays, used>>

SweepUnlock ==
    /\ sweepPc = "range"
    /\ toVisit = {}
    /\ sweepPc' = "idle"
    /\ cutoff' = 0
    /\ UNCHANGED <<clock, mapVars, bucketVars, handlerVars, toVisit, target,
                   historyVars>>

(* Time passes. *)
Tick ==
    /\ clock < MaxTime
    /\ \A h \in Handlers : pc[h] = "take" => clock - now[h] < MaxLag
    /\ clock' = clock + 1
    /\ ideal' = [c \in Clients |-> AtMost(Burst, ideal[c] + Rate)]
    /\ UNCHANGED <<mapVars, bucketVars, handlerVars, sweepVars, dropped, strays,
                   used, touched>>

HandlerStep(h) ==
    \/ Allow(h) \/ AllowLocked(h) \/ ReadClock(h) \/ Take(h)
    \/ Fail(h) \/ FailLocked(h) \/ RecordFailure(h)
    \/ Succeed(h) \/ RecordSuccess(h) \/ Leave(h)

Sweeper ==
    \/ SweepTick \/ SweepLock \/ SweepDelete \/ SweepUnlock
    \/ \E ip \in IPs : SweepVisit(ip)

Next ==
    /\ (\E h \in Handlers : HandlerStep(h)) \/ Sweeper \/ Tick
    /\ UNCHANGED requestVars

Spec == Init /\ [][Next]_vars

-----------------------------------------------------------------------------
(* Properties *)

(***************************************************************************)
(* limiterCount, which decides whether a new address is served at all, is  *)
(* the number of buckets in the map, although it is a counter beside it    *)
(* that three functions change.                                            *)
(***************************************************************************)
CountMatches == limiterCount = Cardinality({ip \in IPs : limiters[ip] # NoBucket})

(***************************************************************************)
(* allowRequest lets no more requests of a client in than one bucket that  *)
(* is never dropped would, directly or through proxies that are set up as  *)
(* Received says, but for what the bucket gains while a handler that read  *)
(* the clock waits for the mutex, and for the handlers that got their      *)
(* pointer from the map before a sweep dropped the bucket.                 *)
(***************************************************************************)
NoFlood == \A c \in Clients : ideal[c] + strays[c] + Rate * MaxLag >= 0

(***************************************************************************)
(* The sweeper forgets the bucket of an address only when nobody used it   *)
(* for the idle time, less the lag of a handler; or when a handler used it *)
(* between the sweeper's look at the bucket and its removal.               *)
(***************************************************************************)
OnlyIdleForgotten ==
    [][\A ip \in IPs :
          limiters[ip] # NoBucket /\ limiters'[ip] # limiters[ip] =>
              touched \/ used[ip] + (IdleTTL - MaxLag) <= clock]_vars
=============================================================================
