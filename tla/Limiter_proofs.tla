--------------------------- MODULE Limiter_proofs ---------------------------
(***************************************************************************)
(* Proofs about ClientIP and Limiter, for any number of requests, clients  *)
(* and proxies, and for every rate, burst and idle time of the buckets.    *)
(***************************************************************************)
EXTENDS Limiter, FiniteSetTheorems, SequenceTheorems, WellFoundedInduction,
        TLAPS

-----------------------------------------------------------------------------
(* Whose request is it? *)

(* A maximum, when there is one, is what Max chooses. *)
LEMMA MaxIs ==
  ASSUME NEW S \in SUBSET Int, NEW m \in S, \A i \in S : i <= m
  PROVE  Max(S) = m
<1>1. \E x \in S : \A y \in S : x >= y
  OBVIOUS
<1>2. Max(S) \in S /\ \A y \in S : Max(S) >= y
  BY <1>1, Zenon DEF Max
<1>3. Max(S) >= m /\ Max(S) <= m /\ Max(S) \in Int
  BY <1>2
<1>4. QED
  BY <1>3

(* Some number up to n is the greatest of any: the order is well-founded. *)
LEMMA HasGreatest ==
  ASSUME NEW n \in Nat, NEW S \in SUBSET (1..n), S # {}
  PROVE  \E m \in S : \A i \in S : i <= m
<1> DEFINE T == {n - i : i \in S}
<1>1. T \subseteq Nat /\ T # {}
  <2>1. \A i \in S : i \in 1..n /\ n - i \in Nat
    OBVIOUS
  <2>2. QED
    BY <2>1, Zenon
<1>2. PICK t \in T : \A u \in T : ~ (<<u, t>> \in OpToRel(<, Nat))
  BY <1>1, NatLessThanWellFounded, WFMin
<1> HIDE DEF T
<1>3. ASSUME NEW u \in T PROVE t <= u
  <2>1. u \in Nat /\ t \in Nat
    BY <1>1
  <2>2. ~ (<<u, t>> \in {ss \in Nat \X Nat : ss[1] < ss[2]})
    BY <1>2, Zenon DEF OpToRel
  <2>3. ~ (u < t)
    BY <2>1, <2>2
  <2>4. QED
    BY <2>1, <2>3
<1>4. PICK m \in S : t = n - m
  BY Zenon DEF T
<1>5. ASSUME NEW i \in S PROVE i <= m
  <2>1. n - i \in T
    BY Zenon DEF T
  <2>2. n - m <= n - i
    BY <1>3, <1>4, <2>1
  <2>3. i \in Int /\ m \in Int
    OBVIOUS
  <2>4. QED
    BY <2>2, <2>3
<1>6. QED
  BY <1>5

(***************************************************************************)
(* What clientIP may be asked about: any peer, any number of lines of any  *)
(* number of fields, any X-Real-IP.                                        *)
(***************************************************************************)
Requests == [peer : IPs, forwarded : Seq(Seq(Texts)), realIP : Texts]

(* The texts that clientIP passes over: junk and proxies. *)
Passed == {text \in Texts : ~ Outside(text)}

(* The last machine that the line names is c. *)
EndsIn(line, c) ==
    \E before \in Seq(Texts), after \in Seq(Passed) :
        line = before \o <<c>> \o after

(***************************************************************************)
(* The requests that count as c's: they come from c itself; or from a      *)
(* proxy whose header, in its first line, names c last but for proxies and *)
(* junk, or names nobody else while X-Real-IP names c.                     *)
(***************************************************************************)
CountsAs(req, c) ==
    IF ~ IsTrustedProxy(req.peer) THEN req.peer = c
    ELSE \/ EndsIn(Forwarded(req), c)
         \/ Forwarded(req) \in Seq(Passed) /\ req.realIP = c

LEMMA ForwardedIsLine == \A req \in Requests : Forwarded(req) \in Seq(Texts)
  BY DEF Requests, Forwarded, Get

(* The decomposition of a line at its last machine, and the index of it. *)
LEMMA EndsInAt ==
  ASSUME NEW line \in Seq(Texts), NEW c \in Clients
  PROVE  EndsIn(line, c) <=>
            \E i \in 1..Len(line) :
                line[i] = c /\ \A j \in (i + 1)..Len(line) : ~ Outside(line[j])
<1>1. ASSUME NEW before \in Seq(Texts), NEW after \in Seq(Passed),
             line = before \o <<c>> \o after
      PROVE  \E i \in 1..Len(line) :
                line[i] = c /\ \A j \in (i + 1)..Len(line) : ~ Outside(line[j])
  <2>1. c \in Texts
    BY DEF Clients, Texts
  <2>2. /\ Len(line) = Len(before) + 1 + Len(after)
        /\ line[Len(before) + 1] = c
        /\ \A j \in (Len(before) + 2)..Len(line) :
              line[j] = after[j - (Len(before) + 1)]
    BY <1>1, <2>1 DEF Passed
  <2>3. ASSUME NEW j \in (Len(before) + 2)..Len(line)
        PROVE  ~ Outside(line[j])
    <3>1. j - (Len(before) + 1) \in 1..Len(after)
      BY <2>2
    <3>2. after[j - (Len(before) + 1)] \in Passed
      BY <3>1
    <3>3. QED
      BY <2>2, <3>2 DEF Passed
  <2>4. QED
    BY <2>2, <2>3
<1>2. ASSUME NEW i \in 1..Len(line), line[i] = c,
             \A j \in (i + 1)..Len(line) : ~ Outside(line[j])
      PROVE  EndsIn(line, c)
  <2> DEFINE before == SubSeq(line, 1, i - 1)
             after == [j \in 1..(Len(line) - i) |-> line[i + j]]
  <2>1. before \in Seq(Texts) /\ Len(before) = i - 1
        /\ \A j \in 1..(i - 1) : before[j] = line[j]
    OBVIOUS
  <2>2. after \in Seq(Passed) /\ Len(after) = Len(line) - i
        /\ \A j \in 1..(Len(line) - i) : after[j] = line[i + j]
    <3>1. \A j \in 1..(Len(line) - i) : line[i + j] \in Passed
      BY <1>2 DEF Passed
    <3>2. QED
      BY <3>1, IsASeq
  <2> HIDE DEF before, after
  <2>3. c \in Texts /\ after \in Seq(Texts)
    BY <2>2 DEF Clients, Texts, Passed
  <2> DEFINE front == before \o <<c>>
             whole == front \o after
  <2>4. /\ whole \in Seq(Texts)
        /\ Len(whole) = Len(before) + 1 + Len(after)
        /\ \A j \in 1..Len(before) : whole[j] = before[j]
        /\ whole[Len(before) + 1] = c
        /\ \A j \in 1..Len(after) : whole[Len(before) + 1 + j] = after[j]
    <3>1. <<c>> \in Seq(Texts) /\ Len(<<c>>) = 1 /\ <<c>>[1] = c
      BY <2>3
    <3>2. /\ front \in Seq(Texts) /\ Len(front) = Len(before) + 1
          /\ \A j \in 1..Len(before) : front[j] = before[j]
          /\ front[Len(before) + 1] = c
      BY <2>1, <3>1, ConcatProperties
    <3> HIDE DEF front
    <3>3. /\ whole \in Seq(Texts)
          /\ Len(whole) = Len(front) + Len(after)
          /\ \A j \in 1..(Len(front) + Len(after)) :
                whole[j] = IF j <= Len(front) THEN front[j] ELSE after[j - Len(front)]
      BY <2>3, <3>2, ConcatProperties
    <3> HIDE DEF whole
    <3>4. ASSUME NEW j \in 1..Len(after)
          PROVE  whole[Len(before) + 1 + j] = after[j]
      <4>1. /\ Len(before) + 1 + j \in 1..(Len(front) + Len(after))
            /\ ~ (Len(before) + 1 + j <= Len(front))
            /\ Len(before) + 1 + j - Len(front) = j
        BY <2>1, <2>3, <3>2
      <4>2. QED
        BY <3>3, <4>1
    <3>5. QED
      BY <2>1, <2>3, <3>2, <3>3, <3>4
  <2> HIDE DEF front, whole
  <2>5. Len(whole) = Len(line) /\ \A j \in 1..Len(line) : whole[j] = line[j]
    <3>1. /\ Len(whole) = Len(line)
          /\ \A j \in 1..(i - 1) : whole[j] = line[j]
          /\ whole[i] = line[i]
          /\ \A j \in 1..(Len(line) - i) : whole[i + j] = line[i + j]
      BY <1>2, <2>1, <2>2, <2>4
    <3>2. ASSUME NEW j \in 1..Len(line), j > i PROVE whole[j] = line[j]
      <4>1. j - i \in 1..(Len(line) - i) /\ i + (j - i) = j
        BY <3>2
      <4>2. QED
        BY <3>1, <4>1
    <3>3. QED
      BY <3>1, <3>2
  <2>6. line = before \o <<c>> \o after
    <3>1. whole = line
      BY <2>4, <2>5, SeqEqual
    <3>2. QED
      BY <3>1 DEF front, whole
  <2>7. QED
    BY <2>1, <2>2, <2>6 DEF EndsIn
<1>3. QED
  BY <1>1, <1>2 DEF EndsIn

(***************************************************************************)
(* clientIP returns a machine's address for the requests that count as its *)
(* own and for no others, whatever the headers; and for a request without  *)
(* one, the proxy that it comes from.                                      *)
(***************************************************************************)
THEOREM ClientIPIsClient ==
  ASSUME NEW req \in Requests
  PROVE  /\ \A c \in Clients : ClientIP(req) = c <=> CountsAs(req, c)
         /\ ClientIP(req) \in Clients \cup {req.peer}
<1> DEFINE line == Forwarded(req)
<1>1. line \in Seq(Texts) /\ req.peer \in IPs /\ req.realIP \in Texts
  BY ForwardedIsLine DEF Requests
<1>2. Hops(req) = {i \in 1..Len(line) : Outside(line[i])}
  BY <1>1 DEF Hops
<1> HIDE DEF line
<1>3. CASE ~ IsTrustedProxy(req.peer)
  BY <1>1, <1>3 DEF ClientIP, CountsAs
<1>4. CASE IsTrustedProxy(req.peer) /\ Hops(req) # {}
  <2>1. PICK m \in Hops(req) : \A i \in Hops(req) : i <= m
    <3>1. Len(line) \in Nat /\ Hops(req) \in SUBSET (1..Len(line))
      BY <1>1, <1>2
    <3>2. QED
      BY <1>4, <3>1, HasGreatest, Zenon
  <2>2. Max(Hops(req)) = m
    <3>1. Hops(req) \in SUBSET Int
      BY <1>1, <1>2
    <3>2. QED
      BY <2>1, <3>1, MaxIs, Zenon
  <2>3. ClientIP(req) = line[m] /\ line[m] \in Clients
    BY <1>2, <1>4, <2>1, <2>2 DEF ClientIP, line, Outside, Clients
  <2>4. line \notin Seq(Passed)
    BY <1>1, <1>2, <2>1 DEF Passed
  <2>5. ASSUME NEW c \in Clients
        PROVE  EndsIn(line, c) <=> line[m] = c
    <3>1. ASSUME line[m] = c PROVE EndsIn(line, c)
      BY <1>1, <1>2, <2>1, <3>1, EndsInAt
    <3>2. ASSUME EndsIn(line, c) PROVE line[m] = c
      <4>1. PICK i \in 1..Len(line) :
               line[i] = c /\ \A j \in (i + 1)..Len(line) : ~ Outside(line[j])
        BY <1>1, <3>2, EndsInAt
      <4>2. i \in Hops(req)
        BY <1>2, <4>1 DEF Clients, Outside
      <4>3. i = m
        BY <1>1, <1>2, <2>1, <4>1, <4>2
      <4>4. QED
        BY <4>1, <4>3
    <3>3. QED
      BY <3>1, <3>2
  <2>6. QED
    BY <1>4, <2>3, <2>4, <2>5 DEF CountsAs, line
<1>5. CASE IsTrustedProxy(req.peer) /\ Hops(req) = {}
  <2>1. \A i \in 1..Len(line) : line[i] \in Passed
    BY <1>1, <1>2, <1>5 DEF Passed
  <2>2. line \in Seq(Passed)
    BY <1>1, <2>1, IsASeq
  <2>3. ASSUME NEW c \in Clients PROVE ~ EndsIn(line, c)
    BY <1>1, <1>2, <1>5, EndsInAt DEF Clients, Outside
  <2>4. QED
    BY <1>1, <1>5, <2>2, <2>3 DEF ClientIP, CountsAs, line, Outside, Clients, Texts
<1>6. QED
  BY <1>3, <1>4, <1>5

(***************************************************************************)
(* Where proxies are set up as Received says, a client's requests count as *)
(* its own, whatever headers the client wrote.                             *)
(***************************************************************************)
THEOREM ReceivedIsOwn ==
  ASSUME NEW c \in Clients, NEW req \in Received(c)
  PROVE  ClientIP(req) = c
<1>1. c \in IPs /\ c \in Texts /\ ~ IsTrustedProxy(c) /\ c # Junk
  BY TrustOK DEF Clients, Texts
<1>2. \A p \in TrustedProxies : p \in IPs /\ p \in Texts /\ p \in Passed
                                 /\ IsTrustedProxy(p)
  BY DEF TrustedProxies, Texts, Passed, Outside
<1>3. /\ \A chain \in Chains : chain \in Seq(Passed) /\ chain \in Seq(Texts)
      /\ \A line \in Lines : line \in Seq(Texts)
  <2>1. ASSUME NEW chain \in Chains PROVE chain \in Seq(Passed) /\ chain \in Seq(Texts)
    BY <1>2, TrustOK
  <2>2. QED
    BY <2>1, TrustOK
<1>4. CASE req \in Direct(c)
  BY <1>1, <1>4 DEF Direct, ClientIP
<1>5. CASE req \in Appended(c)
  <2>1. PICK p \in TrustedProxies, line \in Lines, chain \in Chains, x \in Texts :
           req = [peer |-> p, forwarded |-> <<line \o <<c>> \o chain>>, realIP |-> x]
    BY <1>5 DEF Appended
  <2> DEFINE f == line \o <<c>> \o chain
  <2>2. f \in Seq(Texts) /\ EndsIn(f, c)
    BY <1>1, <1>3 DEF EndsIn
  <2> HIDE DEF f
  <2>3. req = [peer |-> p, forwarded |-> <<f>>, realIP |-> x]
    BY <2>1 DEF f
  <2>4. req \in Requests
    BY <1>2, <2>2, <2>3 DEF Requests
  <2>5. Forwarded(req) = f
    BY <2>2, <2>3 DEF Forwarded, Get
  <2>6. CountsAs(req, c)
    BY <1>2, <2>2, <2>3, <2>5 DEF CountsAs
  <2>7. QED
    BY <2>4, <2>6, ClientIPIsClient
<1>6. CASE req \in Replaced(c)
  <2>1. PICK p \in TrustedProxies, h \in {<<>>} \cup {<<chain>> : chain \in Chains} :
           req = [peer |-> p, forwarded |-> h, realIP |-> c]
    BY <1>6 DEF Replaced
  <2>2. h \in Seq(Seq(Texts)) /\ Get(h) \in Seq(Passed)
    <3>1. CASE h = <<>>
      BY <3>1 DEF Get
    <3>2. ASSUME NEW chain \in Chains, h = <<chain>>
          PROVE  h \in Seq(Seq(Texts)) /\ Get(h) \in Seq(Passed)
      BY <1>3, <3>2 DEF Get
    <3>3. QED
      BY <2>1, <3>1, <3>2
  <2>3. req \in Requests
    BY <1>1, <1>2, <2>1, <2>2 DEF Requests
  <2>4. CountsAs(req, c)
    BY <1>2, <2>1, <2>2 DEF CountsAs, Forwarded
  <2>5. QED
    BY <2>3, <2>4, ClientIPIsClient
<1>7. QED
  BY <1>4, <1>5, <1>6 DEF Received

LEMMA ArrivalsOwn == \A arrival \in Arrivals :
                        arrival[1] \in Clients /\ arrival[2] = arrival[1]
  BY ReceivedIsOwn DEF Arrivals

-----------------------------------------------------------------------------
(* What a bucket is worth *)

LEMMA Distributes ==
  ASSUME NEW r \in Int, NEW x \in Int, NEW y \in Int
  PROVE  /\ r * x \in Int
         /\ r * (x + y) = r * x + r * y
         /\ r * (x - y) = r * x - r * y
  OBVIOUS

LEMMA Monotone ==
  ASSUME NEW r \in Nat, NEW x \in Int, NEW y \in Int, x <= y
  PROVE  r * x <= r * y
<1>1. r * (y - x) \in Nat
  OBVIOUS
<1>2. QED
  BY <1>1, Distributes

-----------------------------------------------------------------------------
(* The inductive invariant *)

(***************************************************************************)
(* The buckets of the map, and those that handlers hold.  A bucket is that *)
(* of the address of the handler that made it, so no two addresses share   *)
(* one; it is made once, so it is new when it is put into the map.         *)
(***************************************************************************)
Occupied == {ip \in IPs : limiters[ip] # NoBucket}

NotYetMade(b) ==
    \/ b[2] = "allow" /\ pc[b[1]] \in {"idle", "allow"}
    \/ b[2] = "fail" /\ pc[b[1]] \in {"idle", "allow", "clock", "take", "admitted", "fail"}

BucketInv ==
    /\ IsFiniteSet(Occupied)
    /\ CountMatches
    /\ \A ip \in Occupied : ipOf[limiters[ip][1]] = ip
    /\ \A ip \in Occupied : ~ NotYetMade(limiters[ip]) /\ limiters[ip] \notin dropped
    /\ \A b \in dropped : ~ NotYetMade(b)
    /\ \A h \in Handlers :
          IF pc[h] \in {"clock", "take", "failing", "succeeding"}
          THEN ptr[h] \in dropped \cup {limiters[ipOf[h]]} /\ ptr[h] # NoBucket
          ELSE ptr[h] = NoBucket

(***************************************************************************)
(* The sweeper's round: what it has yet to visit is in the map, and what   *)
(* it is about to delete.                                                  *)
(***************************************************************************)
SweepInv ==
    /\ sweepPc # "range" /\ sweepPc # "delete" => toVisit = {}
    /\ toVisit \subseteq Occupied \ {target}
    /\ IF sweepPc = "delete" THEN target \in Occupied ELSE target = Junk
    /\ sweepPc # "idle" => cutoff <= clock - IdleTTL

(***************************************************************************)
(* Clocks.                                                                 *)
(***************************************************************************)
ClockInv ==
    /\ \A b \in Buckets : last[b] <= lastSeen[b] /\ lastSeen[b] <= clock
    /\ \A h \in Handlers : now[h] <= clock
    /\ \A h \in Handlers : pc[h] = "take" => clock <= now[h] + MaxLag
    /\ \A ip \in Occupied : used[ip] <= lastSeen[limiters[ip]] + MaxLag

(***************************************************************************)
(* A bucket that is to be deleted has been idle.                           *)
(***************************************************************************)
IdleInv ==
    sweepPc = "delete" => touched \/ used[target] + (IdleTTL - MaxLag) <= clock

(***************************************************************************)
(* The accounts.  Worth is what a bucket would hold if it were used now,   *)
(* without the limit Burst; Credit is what a client may still get by       *)
(* NoFlood.  The worth of a client's bucket is covered by its credit, and  *)
(* without a bucket, or with one that is about to go, a client has credit  *)
(* for a full one.                                                         *)
(***************************************************************************)
Worth(b) == tokens[b] + Rate * (clock - last[b])

Credit(c) == ideal[c] + strays[c] + Rate * MaxLag

FloodInv ==
    /\ \A h \in Handlers : ipOf[h] = client[h]
    /\ \A b \in Buckets : Worth(b) >= 0 /\ tokens[b] + Rate * MaxLag >= 0
    /\ \A c \in Clients : Credit(c) >= 0 /\ ideal[c] <= Burst
    /\ \A c \in Clients \cap Occupied :
          \/ Worth(limiters[c]) <= Credit(c)
          \/ Burst + Rate * MaxLag <= Credit(c)
    /\ \A c \in Clients :
          c \notin Occupied \/ (sweepPc = "delete" /\ target = c) =>
              Credit(c) >= Burst

IInv == TypeOK /\ BucketInv /\ SweepInv /\ ClockInv /\ IdleInv /\ FloodInv

LEMMA InitInv == Init => IInv
<1> SUFFICES ASSUME Init PROVE IInv
  OBVIOUS
<1>1. PICK arrival \in [Handlers -> Arrivals] :
        /\ client = [h \in Handlers |-> arrival[h][1]]
        /\ ipOf = [h \in Handlers |-> arrival[h][2]]
  BY DEF Init
<1>2. \A h \in Handlers : client[h] \in Clients /\ ipOf[h] = client[h]
  BY <1>1, ArrivalsOwn
<1>3. client \in [Handlers -> Clients] /\ ipOf \in [Handlers -> IPs]
  BY <1>1, <1>2 DEF Clients
<1>4. Rate * MaxLag \in Nat /\ Rate * (0 - 0) = 0
  BY ConstantsOK DEF ConstantsOK
<1>5. Occupied = {}
  BY DEF Init, Occupied
<1>6. TypeOK
  <2>1. 0 \in 0..MaxTime /\ 0 \in 0..MaxEntries /\ 0 <= Burst /\ Burst \in Int
    BY ConstantsOK DEF ConstantsOK
  <2>2. /\ clock \in 0..MaxTime
        /\ limiters \in [IPs -> Buckets \cup {NoBucket}]
        /\ limiterCount \in 0..MaxEntries
        /\ tokens \in [Buckets -> Int]
        /\ \A b \in Buckets : tokens[b] <= Burst
        /\ last \in [Buckets -> 0..MaxTime]
        /\ lastSeen \in [Buckets -> 0..MaxTime]
    BY <2>1 DEF Init
  <2>3. /\ pc \in [Handlers -> {"idle", "allow", "clock", "take", "admitted",
                               "fail", "failing", "succeeding", "done"}]
        /\ ptr \in [Handlers -> Buckets \cup {NoBucket}]
        /\ now \in [Handlers -> 0..MaxTime]
    BY <2>1 DEF Init
  <2>4. /\ sweepPc \in {"idle", "lock", "range", "delete"}
        /\ cutoff \in Int
        /\ toVisit \subseteq IPs
        /\ target \in IPs \cup {Junk}
    BY DEF Init
  <2>5. /\ ideal \in [Clients -> Int]
        /\ dropped \subseteq Buckets
        /\ strays \in [Clients -> Nat]
        /\ used \in [IPs -> 0..MaxTime]
    BY <2>1 DEF Init
  <2>6. touched \in BOOLEAN
    BY Zenon DEF Init
  <2>7. QED
    BY <1>3, <2>2, <2>3, <2>4, <2>5, <2>6 DEF TypeOK
<1>7. BucketInv
  BY <1>5, FS_EmptySet DEF Init, BucketInv, CountMatches, Occupied
<1>8. SweepInv /\ IdleInv
  BY <1>5 DEF Init, SweepInv, IdleInv
<1>9. ClockInv
  BY <1>5 DEF Init, ClockInv
<1>10. FloodInv
  BY <1>2, <1>4, <1>5, ConstantsOK DEF Init, FloodInv, Worth, Credit, ConstantsOK
<1>11. QED
  BY <1>6, <1>7, <1>8, <1>9, <1>10 DEF IInv

-----------------------------------------------------------------------------
(* The types of a step *)

PlacesOf == {"idle", "allow", "clock", "take", "admitted",
             "fail", "failing", "succeeding", "done"}

MapTypes ==
    /\ limiters \in [IPs -> Buckets \cup {NoBucket}]
    /\ tokens \in [Buckets -> Int]
    /\ \A b \in Buckets : tokens[b] <= Burst
    /\ last \in [Buckets -> 0..MaxTime]
    /\ lastSeen \in [Buckets -> 0..MaxTime]

HandlerTypes ==
    /\ client \in [Handlers -> Clients]
    /\ ipOf \in [Handlers -> IPs]
    /\ pc \in [Handlers -> PlacesOf]
    /\ ptr \in [Handlers -> Buckets \cup {NoBucket}]
    /\ now \in [Handlers -> 0..MaxTime]

SweeperTypes ==
    /\ sweepPc \in {"idle", "lock", "range", "delete"}
    /\ cutoff \in Int
    /\ toVisit \subseteq IPs
    /\ target \in IPs \cup {Junk}
    /\ dropped \subseteq Buckets

HistoryTypes ==
    /\ clock \in 0..MaxTime
    /\ ideal \in [Clients -> Int]
    /\ strays \in [Clients -> Nat]
    /\ used \in [IPs -> 0..MaxTime]

LEMMA NewBucketTypes ==
  ASSUME TypeOK, NEW h \in Handlers, NEW b \in Buckets, NEW place \in PlacesOf,
         NewBucket(h, b, place)
  PROVE  /\ MapTypes'
         /\ pc' \in [Handlers -> PlacesOf]
         /\ ptr' \in [Handlers -> Buckets \cup {NoBucket}]
         /\ used' \in [IPs -> 0..MaxTime]
         /\ limiterCount' \in 0..MaxEntries
<1>1. Burst \in Int /\ Burst <= Burst
  BY ConstantsOK DEF ConstantsOK
<1>2. MapTypes'
  BY <1>1 DEF NewBucket, TypeOK, MapTypes
<1>3. pc' \in [Handlers -> PlacesOf] /\ ptr' \in [Handlers -> Buckets \cup {NoBucket}]
  BY DEF NewBucket, GoTo, TypeOK, PlacesOf
<1>4. used' \in [IPs -> 0..MaxTime] /\ limiterCount' \in 0..MaxEntries
  BY ConstantsOK DEF NewBucket, TypeOK, ConstantsOK
<1>5. QED
  BY <1>2, <1>3, <1>4

LEMMA GetLockedTypes ==
  ASSUME TypeOK, NEW h \in Handlers, NEW b \in Buckets, NEW place \in PlacesOf,
         GetLocked(h, b, place)
  PROVE  /\ MapTypes'
         /\ pc' \in [Handlers -> PlacesOf]
         /\ ptr' \in [Handlers -> Buckets \cup {NoBucket}]
         /\ used' \in [IPs -> 0..MaxTime]
         /\ limiterCount' \in 0..MaxEntries
<1>1. CASE NewBucket(h, b, place)
  BY <1>1, NewBucketTypes
<1>2. CASE /\ Found(h, place) \/ (GoTo(h, "done") /\ UNCHANGED ptr)
           /\ UNCHANGED <<mapVars, bucketVars, used>>
  <2>1. MapTypes' /\ used' \in [IPs -> 0..MaxTime] /\ limiterCount' \in 0..MaxEntries
    BY <1>2 DEF TypeOK, MapTypes, mapVars, bucketVars
  <2>2. pc' \in [Handlers -> PlacesOf] /\ ptr' \in [Handlers -> Buckets \cup {NoBucket}]
    BY <1>2 DEF Found, GoTo, TypeOK, PlacesOf
  <2>3. QED
    BY <2>1, <2>2
<1>3. QED
  BY <1>1, <1>2 DEF GetLocked

(* What allowRequest finds in a bucket is at most Burst. *)
LEMMA GainedBounds ==
  ASSUME TypeOK, NEW h \in Handlers, ptr[h] # NoBucket
  PROVE  /\ ptr[h] \in Buckets
         /\ Gained(h) \in Int
         /\ Gained(h) <= Burst
         /\ Gained(h) <= tokens[ptr[h]] + Rate * (now[h] - last[ptr[h]])
         /\ \/ Gained(h) = Burst
            \/ Gained(h) = tokens[ptr[h]] + Rate * (now[h] - last[ptr[h]])
<1>1. /\ ptr[h] \in Buckets /\ tokens[ptr[h]] \in Int
      /\ now[h] - last[ptr[h]] \in Int
  BY DEF TypeOK
<1>2. Rate * (now[h] - last[ptr[h]]) \in Int
  BY <1>1, ConstantsOK DEF ConstantsOK
<1>3. QED
  BY <1>1, <1>2, ConstantsOK DEF Gained, AtMost, ConstantsOK

LEMMA TakeTypes ==
  ASSUME TypeOK, NEW h \in Handlers, ptr[h] # NoBucket, Take(h), UNCHANGED requestVars
  PROVE  MapTypes' /\ HandlerTypes' /\ HistoryTypes'
<1> DEFINE b == ptr[h]
<1>1. /\ b \in Buckets /\ Gained(h) \in Int /\ Gained(h) <= Burst /\ Burst \in Int
  BY GainedBounds, ConstantsOK DEF ConstantsOK
<1>2. PICK t \in Int : t <= Burst /\ tokens' = [tokens EXCEPT ![b] = t]
  BY <1>1 DEF Take
<1>3. MapTypes'
  <2>1. limiters' = limiters /\ last' = [last EXCEPT ![b] = now[h]]
        /\ lastSeen' = [lastSeen EXCEPT ![b] = now[h]]
    BY DEF Take, mapVars
  <2> HIDE DEF b
  <2>2. QED
    BY <1>1, <1>2, <2>1 DEF TypeOK, MapTypes
<1>4. HandlerTypes'
  <2>1. pc' \in [Handlers -> PlacesOf]
    BY DEF Take, GoTo, TypeOK, PlacesOf
  <2>2. /\ client' = client /\ ipOf' = ipOf
        /\ ptr' = [ptr EXCEPT ![h] = NoBucket] /\ now' = [now EXCEPT ![h] = 0]
        /\ 0 \in 0..MaxTime
    BY ConstantsOK DEF Take, requestVars, ConstantsOK
  <2>3. QED
    BY <2>1, <2>2 DEF HandlerTypes, TypeOK
<1>5. clock' \in 0..MaxTime /\ used' \in [IPs -> 0..MaxTime]
  BY DEF Take, Use, TypeOK
<1>6. ideal' \in [Clients -> Int] /\ strays' \in [Clients -> Nat]
  BY DEF Take, Admit, TypeOK
<1>7. QED
  BY <1>3, <1>4, <1>5, <1>6 DEF HistoryTypes

LEMMA RecordTypes ==
  ASSUME TypeOK, NEW h \in Handlers, ptr[h] # NoBucket,
         RecordFailure(h) \/ RecordSuccess(h), UNCHANGED requestVars
  PROVE  MapTypes' /\ HandlerTypes' /\ HistoryTypes'
<1>1. ptr[h] \in Buckets
  BY DEF TypeOK
<1>2. MapTypes'
  BY <1>1 DEF RecordFailure, RecordSuccess, TypeOK, MapTypes, mapVars
<1>3. HandlerTypes'
  BY DEF RecordFailure, RecordSuccess, TypeOK, HandlerTypes, PlacesOf, GoTo,
     requestVars
<1>4. HistoryTypes'
  BY DEF RecordFailure, RecordSuccess, TypeOK, HistoryTypes, Use
<1>5. QED
  BY <1>2, <1>3, <1>4

LEMMA TakesABucket ==
  ASSUME IInv, NEW h \in Handlers,
         Take(h) \/ RecordFailure(h) \/ RecordSuccess(h)
  PROVE  ptr[h] # NoBucket
  BY DEF IInv, BucketInv, Take, RecordFailure, RecordSuccess

LEMMA HandlerTypeStep ==
  ASSUME IInv, NEW h \in Handlers, HandlerStep(h), UNCHANGED requestVars
  PROVE  TypeOK'
<1>1. TypeOK
  BY DEF IInv
<1>2. touched' \in BOOLEAN
  <2>1. touched \in BOOLEAN
    BY <1>1 DEF TypeOK
  <2>2. touched' = touched \/ touched' \in BOOLEAN
    BY Zenon DEF HandlerStep, Allow, AllowLocked, ReadClock, Take, Fail, FailLocked,
       RecordFailure, Succeed, RecordSuccess, Leave, Use, historyVars
  <2>3. QED
    BY <2>1, <2>2
<1>3. CASE AllowLocked(h) \/ FailLocked(h)
  <2>1. PICK b \in Buckets, place \in PlacesOf : GetLocked(h, b, place)
    BY <1>3 DEF AllowLocked, FailLocked, Buckets, PlacesOf
  <2>2. UNCHANGED <<clock, now, requestVars, sweepVars, ideal, dropped, strays>>
    BY <1>3 DEF AllowLocked, FailLocked
  <2>3. QED
    BY <1>1, <1>2, <2>1, <2>2, GetLockedTypes
    DEF MapTypes, HandlerTypes, SweeperTypes, HistoryTypes, TypeOK, requestVars,
        sweepVars, PlacesOf
<1>4. CASE Take(h)
  <2>1. UNCHANGED <<limiterCount, sweepVars, dropped>>
    BY <1>4 DEF Take, mapVars
  <2>2. SweeperTypes' /\ limiterCount' \in 0..MaxEntries
    BY <1>1, <2>1 DEF SweeperTypes, TypeOK, sweepVars
  <2>3. QED
    BY <1>1, <1>2, <1>4, <2>2, TakeTypes, TakesABucket
    DEF TypeOK, MapTypes, HandlerTypes, SweeperTypes,
       HistoryTypes, PlacesOf
<1>5. CASE RecordFailure(h) \/ RecordSuccess(h)
  <2>1. UNCHANGED <<limiterCount, sweepVars, dropped>>
    BY <1>5 DEF RecordFailure, RecordSuccess, mapVars
  <2>2. SweeperTypes' /\ limiterCount' \in 0..MaxEntries
    BY <1>1, <2>1 DEF SweeperTypes, TypeOK, sweepVars
  <2>3. QED
    BY <1>1, <1>2, <1>5, <2>2, RecordTypes, TakesABucket
    DEF TypeOK, MapTypes, HandlerTypes, SweeperTypes,
       HistoryTypes, PlacesOf
<1>6. CASE Allow(h) \/ Fail(h) \/ Succeed(h) \/ ReadClock(h) \/ Leave(h)
  <2>1. UNCHANGED <<clock, mapVars, bucketVars, sweepVars, historyVars>>
    BY <1>6 DEF Allow, Fail, Succeed, ReadClock, Leave
  <2>2. pc' \in [Handlers -> PlacesOf]
    BY <1>1, <1>6 DEF Allow, Fail, Succeed, ReadClock, Leave, Found, NotFound, GoTo,
       TypeOK, PlacesOf
  <2>3. ptr' \in [Handlers -> Buckets \cup {NoBucket}]
    BY <1>1, <1>6 DEF Allow, Fail, Succeed, ReadClock, Leave, Found, NotFound, TypeOK
  <2>4. now' \in [Handlers -> 0..MaxTime]
    BY <1>1, <1>6 DEF Allow, Fail, Succeed, ReadClock, Leave, TypeOK
  <2>5. HandlerTypes'
    BY <1>1, <2>2, <2>3, <2>4 DEF HandlerTypes, TypeOK, requestVars
  <2>6. MapTypes' /\ SweeperTypes' /\ HistoryTypes' /\ limiterCount' \in 0..MaxEntries
    BY <1>1, <2>1 DEF MapTypes, SweeperTypes, HistoryTypes, TypeOK, mapVars,
       bucketVars, sweepVars, historyVars
  <2>7. QED
    BY <1>2, <2>5, <2>6 DEF TypeOK, MapTypes, HandlerTypes, SweeperTypes,
       HistoryTypes, PlacesOf
<1>7. QED
  BY <1>3, <1>4, <1>5, <1>6 DEF HandlerStep

(***************************************************************************)
(* The map loses one address when the sweeper deletes a bucket, and the    *)
(* counter with it.                                                        *)
(***************************************************************************)
LEMMA DeletedFromMap ==
  ASSUME IInv, SweepDelete
  PROVE  /\ target \in Occupied
         /\ Occupied' = Occupied \ {target}
         /\ IsFiniteSet(Occupied')
         /\ limiterCount' = Cardinality(Occupied')
         /\ limiterCount' \in 0..MaxEntries
<1>1. target \in Occupied /\ target \in IPs
  BY DEF IInv, SweepInv, SweepDelete, Occupied
<1>2. Occupied' = Occupied \ {target}
  BY <1>1 DEF IInv, TypeOK, SweepDelete, Occupied
<1>3. IsFiniteSet(Occupied) /\ limiterCount = Cardinality(Occupied)
  BY DEF IInv, BucketInv, CountMatches, Occupied
<1>4. /\ IsFiniteSet(Occupied \ {target})
      /\ Cardinality(Occupied \ {target}) = Cardinality(Occupied) - 1
  BY <1>1, <1>3, FS_RemoveElement
<1>5. Cardinality(Occupied \ {target}) \in Nat
  BY <1>4, FS_CardinalityType
<1>6. limiterCount' = limiterCount - 1
  BY DEF SweepDelete
<1>7. limiterCount \in 0..MaxEntries /\ MaxEntries \in Nat
  BY ConstantsOK DEF IInv, TypeOK, ConstantsOK
<1>8. QED
  BY <1>1, <1>2, <1>3, <1>4, <1>5, <1>6, <1>7

LEMMA SweeperTypeStep ==
  ASSUME IInv, Sweeper, UNCHANGED requestVars
  PROVE  TypeOK'
<1>1. TypeOK
  BY DEF IInv
<1>2. UNCHANGED <<clock, bucketVars, handlerVars, requestVars, ideal, strays, used>>
  BY DEF Sweeper, SweepTick, SweepLock, SweepVisit, SweepDelete, SweepUnlock,
     historyVars
<1>3. HandlerTypes' /\ HistoryTypes'
  BY <1>1, <1>2 DEF TypeOK, HandlerTypes, HistoryTypes, bucketVars, handlerVars,
     requestVars, PlacesOf
<1>4. touched' \in BOOLEAN
  <2>1. touched \in BOOLEAN
    BY <1>1 DEF TypeOK
  <2>2. touched' = touched \/ touched' = FALSE
    BY Zenon DEF Sweeper, SweepTick, SweepLock, SweepVisit, SweepDelete, SweepUnlock,
       historyVars
  <2>3. QED
    BY <2>1, <2>2
<1>5. CASE SweepDelete
  <2>1. limiters[target] \in Buckets /\ target \in IPs
    BY <1>1, <1>5, DeletedFromMap DEF Occupied, TypeOK
  <2>2. MapTypes' /\ SweeperTypes'
    BY <1>1, <1>2, <1>5, <2>1 DEF SweepDelete, TypeOK, MapTypes, SweeperTypes,
       bucketVars
  <2>3. QED
    BY <1>3, <1>4, <1>5, <2>2, DeletedFromMap
    DEF TypeOK, MapTypes, HandlerTypes, SweeperTypes, HistoryTypes, PlacesOf
<1>6. CASE \/ SweepTick \/ SweepLock \/ SweepUnlock
           \/ \E ip \in IPs : SweepVisit(ip)
  <2>1. UNCHANGED <<mapVars, dropped>>
    BY <1>6 DEF SweepTick, SweepLock, SweepVisit, SweepUnlock, historyVars
  <2>2. clock \in Int /\ IdleTTL \in Int
    BY <1>1, ConstantsOK DEF TypeOK, ConstantsOK
  <2>3. SweeperTypes'
    BY <1>1, <1>6, <2>1, <2>2 DEF SweepTick, SweepLock, SweepVisit, SweepUnlock,
       TypeOK, SweeperTypes, sweepVars
  <2>4. MapTypes' /\ limiterCount' \in 0..MaxEntries
    BY <1>1, <1>2, <2>1 DEF TypeOK, MapTypes, mapVars, bucketVars
  <2>5. QED
    BY <1>3, <1>4, <2>3, <2>4
    DEF TypeOK, MapTypes, HandlerTypes, SweeperTypes, HistoryTypes, PlacesOf
<1>7. QED
  BY <1>5, <1>6 DEF Sweeper

LEMMA TickTypeStep ==
  ASSUME TypeOK, Tick, UNCHANGED requestVars
  PROVE  TypeOK'
<1>1. clock' \in 0..MaxTime
  BY ConstantsOK DEF Tick, TypeOK, ConstantsOK
<1>2. ideal' \in [Clients -> Int]
  BY ConstantsOK DEF Tick, TypeOK, AtMost, ConstantsOK
<1>3. MapTypes' /\ HandlerTypes' /\ SweeperTypes'
  BY DEF Tick, TypeOK, MapTypes, HandlerTypes, SweeperTypes, PlacesOf, mapVars,
     bucketVars, handlerVars, sweepVars, requestVars
<1>4. /\ limiterCount' \in 0..MaxEntries
      /\ strays' \in [Clients -> Nat] /\ used' \in [IPs -> 0..MaxTime]
  BY DEF Tick, TypeOK, mapVars
<1>5. touched' \in BOOLEAN
  BY Zenon DEF Tick, TypeOK
<1>6. QED
  BY <1>1, <1>2, <1>3, <1>4, <1>5
  DEF TypeOK, MapTypes, HandlerTypes, SweeperTypes, PlacesOf

-----------------------------------------------------------------------------
(* What steps do to the map *)

(***************************************************************************)
(* A handler that neither makes a bucket nor uses one: it looks one up, it *)
(* reads the clock, or it leaves.                                          *)
(***************************************************************************)
Holds(h) ==
    IF pc[h] \in {"clock", "take", "failing", "succeeding"}
    THEN ptr[h] \in dropped \cup {limiters[ipOf[h]]} /\ ptr[h] # NoBucket
    ELSE ptr[h] = NoBucket

Moves(h) ==
    /\ UNCHANGED <<clock, requestVars, mapVars, bucketVars, sweepVars, historyVars>>
    /\ \A b \in Buckets : NotYetMade(b)' => NotYetMade(b)
    /\ \A g \in Handlers \ {h} : pc'[g] = pc[g] /\ ptr'[g] = ptr[g] /\ now'[g] = now[g]
    /\ Holds(h)'
    /\ IF pc'[h] = "take" THEN now'[h] = clock ELSE now'[h] = now[h]

LEMMA LooksUp ==
  ASSUME IInv, NEW h \in Handlers, UNCHANGED requestVars,
         \/ Allow(h) \/ Fail(h) \/ Succeed(h) \/ ReadClock(h) \/ Leave(h)
  PROVE  Moves(h)
<1>1. UNCHANGED <<clock, mapVars, bucketVars, sweepVars, historyVars>>
  BY DEF Allow, Fail, Succeed, ReadClock, Leave
<1>2. \A b \in Buckets : NotYetMade(b)' => NotYetMade(b)
  BY DEF Allow, Fail, Succeed, ReadClock, Leave, Found, NotFound, GoTo, IInv, TypeOK,
     NotYetMade, Buckets
<1>3. \A g \in Handlers \ {h} : pc'[g] = pc[g] /\ ptr'[g] = ptr[g] /\ now'[g] = now[g]
  BY DEF Allow, Fail, Succeed, ReadClock, Leave, Found, NotFound, GoTo, IInv, TypeOK
<1>4. Holds(h)'
  BY <1>1 DEF Allow, Fail, Succeed, ReadClock, Leave, Found, NotFound, GoTo, IInv,
     TypeOK, BucketInv, Holds, requestVars, mapVars, historyVars
<1>5. IF pc'[h] = "take" THEN now'[h] = clock ELSE now'[h] = now[h]
  BY DEF Allow, Fail, Succeed, ReadClock, Leave, Found, NotFound, GoTo, IInv, TypeOK
<1>6. QED
  BY <1>1, <1>2, <1>3, <1>4, <1>5 DEF Moves

(***************************************************************************)
(* A handler that makes a bucket: the bucket is new, the address has none, *)
(* and the sweeper is not at work.                                         *)
(***************************************************************************)
Makes(h, b) ==
    /\ UNCHANGED <<clock, requestVars, now, sweepVars, ideal, dropped, strays, touched>>
    /\ b[1] = h /\ NotYetMade(b) /\ ~ NotYetMade(b)'
    /\ \A d \in Buckets : NotYetMade(d)' => NotYetMade(d)
    /\ \A g \in Handlers \ {h} : pc'[g] = pc[g] /\ ptr'[g] = ptr[g]
    /\ pc'[h] \in {"clock", "failing"} /\ ptr'[h] = b
    /\ ~ MapLocked
    /\ limiterCount < MaxEntries /\ limiterCount' = limiterCount + 1
    /\ ipOf[h] \notin Occupied
    /\ limiters' = [limiters EXCEPT ![ipOf[h]] = b]
    /\ tokens' = [tokens EXCEPT ![b] = Burst]
    /\ last' = [last EXCEPT ![b] = clock]
    /\ lastSeen' = [lastSeen EXCEPT ![b] = clock]
    /\ used' = [used EXCEPT ![ipOf[h]] = clock]

LEMMA LooksUpOrMakes ==
  ASSUME IInv, NEW h \in Handlers, UNCHANGED requestVars,
         AllowLocked(h) \/ FailLocked(h)
  PROVE  Moves(h) \/ \E b \in Buckets : Makes(h, b)
<1>1. PICK what \in {"allow", "fail"}, place \in {"clock", "failing"} :
        /\ pc[h] = what
        /\ GetLocked(h, <<h, what>>, place)
        /\ UNCHANGED <<clock, now, sweepVars, ideal, dropped, strays, touched>>
        /\ what = "allow" <=> place = "clock"
  BY DEF AllowLocked, FailLocked
<1> DEFINE b == <<h, what>>
<1>2. b \in Buckets /\ b[1] = h /\ b[2] = what
  BY DEF Buckets
<1>3. GoTo(h, place) \/ GoTo(h, "done")
  BY <1>1 DEF GetLocked, Found, NewBucket
<1>4. \A g \in Handlers \ {h} : pc'[g] = pc[g]
  BY <1>3 DEF GoTo, IInv, TypeOK
<1>5. \A d \in Buckets : NotYetMade(d)' => NotYetMade(d)
  BY <1>1, <1>3 DEF GoTo, IInv, TypeOK, NotYetMade, Buckets
<1>6. CASE limiters[ipOf[h]] = NoBucket /\ NewBucket(h, b, place)
  <2>1. ipOf[h] \notin Occupied
    BY <1>6 DEF Occupied
  <2>2. pc'[h] = place /\ ptr'[h] = b
        /\ \A g \in Handlers \ {h} : ptr'[g] = ptr[g]
    BY <1>2, <1>6 DEF NewBucket, GoTo, IInv, TypeOK
  <2>3. NotYetMade(b) /\ ~ NotYetMade(b)'
    BY <1>1, <1>2, <2>2 DEF NotYetMade
  <2>4. ~ MapLocked
    BY <1>1 DEF GetLocked
  <2>5. Makes(h, b)
    BY <1>1, <1>2, <1>4, <1>5, <1>6, <2>1, <2>2, <2>3, <2>4 DEF Makes, NewBucket
  <2>6. QED
    BY <1>2, <2>5
<1>7. CASE /\ UNCHANGED <<mapVars, bucketVars, used>>
           /\ Found(h, place) \/ (GoTo(h, "done") /\ UNCHANGED ptr)
  <2>1. \A g \in Handlers \ {h} : ptr'[g] = ptr[g] /\ now'[g] = now[g]
    BY <1>1, <1>7 DEF Found, IInv, TypeOK
  <2>2. ptr[h] = NoBucket
    BY <1>1 DEF IInv, BucketInv
  <2>3. Holds(h)'
    BY <1>1, <1>7, <2>2 DEF Found, GoTo, Holds, IInv, TypeOK, mapVars, requestVars
  <2>4. pc'[h] # "take" /\ now'[h] = now[h]
    BY <1>1, <1>3 DEF GoTo, IInv, TypeOK
  <2>5. QED
    BY <1>1, <1>4, <1>5, <1>7, <2>1, <2>3, <2>4 DEF Moves, historyVars
<1>8. QED
  BY <1>1, <1>6, <1>7 DEF GetLocked

-----------------------------------------------------------------------------
(* Handlers that look up, read the clock or leave *)

LEMMA MovesSafe ==
  ASSUME IInv, NEW h \in Handlers, Moves(h), TypeOK'
  PROVE  IInv'
<1>1. UNCHANGED <<clock, client, ipOf, limiters, limiterCount, tokens, last, lastSeen,
                  sweepPc, cutoff, toVisit, target, ideal, dropped, strays, used, touched>>
  BY DEF Moves, requestVars, mapVars, bucketVars, sweepVars, historyVars
<1>2. Occupied' = Occupied
  BY <1>1 DEF Occupied
<1>3. BucketInv'
  <2>1. IsFiniteSet(Occupied)' /\ CountMatches'
    BY <1>1, <1>2 DEF IInv, BucketInv, CountMatches
  <2>2. \A ip \in Occupied : limiters[ip] \in Buckets
    BY DEF IInv, TypeOK, Occupied
  <2>3. (\A ip \in Occupied :
             /\ ipOf[limiters[ip][1]] = ip
             /\ ~ NotYetMade(limiters[ip]) /\ limiters[ip] \notin dropped)'
    <3>1. SUFFICES ASSUME NEW ip \in Occupied
                   PROVE  /\ ipOf'[limiters'[ip][1]] = ip
                          /\ ~ NotYetMade(limiters[ip])'
                          /\ limiters'[ip] \notin dropped'
      BY <1>2
    <3>2. PICK b \in Buckets : b = limiters[ip]
      BY <2>2
    <3>3. ~ NotYetMade(b)'
      BY <3>2 DEF IInv, BucketInv, Moves
    <3>4. ~ NotYetMade(limiters[ip])'
      BY <1>1, <3>2, <3>3 DEF NotYetMade
    <3>5. QED
      BY <1>1, <3>4 DEF IInv, BucketInv
  <2>4. \A b \in dropped' : ~ NotYetMade(b)'
    BY <1>1 DEF IInv, BucketInv, Moves, TypeOK
  <2>5. \A g \in Handlers : Holds(g)'
    BY <1>1 DEF IInv, BucketInv, Moves, Holds
  <2>6. QED
    BY <1>1, <2>1, <2>3, <2>4, <2>5 DEF BucketInv, Holds
<1>4. SweepInv'
  BY <1>1, <1>2 DEF IInv, SweepInv
<1>5. ClockInv'
  <2>1. \A g \in Handlers : now'[g] <= clock
                            /\ (pc'[g] = "take" => clock <= now'[g] + MaxLag)
    BY <1>1, ConstantsOK DEF Moves, IInv, ClockInv, TypeOK, ConstantsOK
  <2>2. QED
    BY <1>1, <1>2, <2>1 DEF IInv, ClockInv
<1>6. IdleInv'
  BY <1>1 DEF IInv, IdleInv
<1>7. FloodInv'
  BY <1>1, <1>2 DEF IInv, FloodInv, Worth, Credit
<1>8. QED
  BY <1>3, <1>4, <1>5, <1>6, <1>7 DEF IInv

-----------------------------------------------------------------------------
(* Handlers that make a bucket *)

(* The buckets of the map are buckets, and no two addresses share one. *)
LEMMA OwnBuckets ==
  ASSUME IInv
  PROVE  /\ \A ip \in Occupied : ip \in IPs /\ limiters[ip] \in Buckets
         /\ \A ip, jp \in Occupied : limiters[ip] = limiters[jp] => ip = jp
<1>1. \A ip \in Occupied : ip \in IPs /\ limiters[ip] \in Buckets
  BY DEF IInv, TypeOK, Occupied
<1>2. \A ip \in Occupied : ipOf[limiters[ip][1]] = ip
  BY DEF IInv, BucketInv
<1>3. QED
  BY <1>1, <1>2

LEMMA MakesBuckets ==
  ASSUME IInv, NEW h \in Handlers, NEW b \in Buckets, Makes(h, b)
  PROVE  /\ Occupied' = Occupied \cup {ipOf[h]}
         /\ limiters'[ipOf[h]] = b
         /\ \A ip \in Occupied : limiters'[ip] = limiters[ip] /\ limiters[ip] # b
         /\ BucketInv'
<1>1. b # NoBucket /\ ipOf[h] \in IPs /\ ipOf[h] \notin Occupied
  BY ConstantsOK DEF ConstantsOK, Makes, IInv, TypeOK
<1>2. limiters'[ipOf[h]] = b
  BY <1>1 DEF Makes, IInv, TypeOK
<1>3. \A ip \in IPs \ {ipOf[h]} : limiters'[ip] = limiters[ip]
  BY DEF Makes, IInv, TypeOK
<1>4. Occupied' = Occupied \cup {ipOf[h]}
  BY <1>1, <1>2, <1>3 DEF Occupied
<1>5. \A ip \in Occupied : limiters'[ip] = limiters[ip] /\ limiters[ip] # b
  <2>1. \A ip \in Occupied : ip \in IPs \ {ipOf[h]} /\ ~ NotYetMade(limiters[ip])
    BY <1>1 DEF Occupied, IInv, BucketInv
  <2>2. NotYetMade(b)
    BY DEF Makes
  <2>3. QED
    BY <1>3, <2>1, <2>2
<1>6. IsFiniteSet(Occupied)' /\ CountMatches'
  <2>1. IsFiniteSet(Occupied) /\ limiterCount = Cardinality(Occupied)
    BY DEF IInv, BucketInv, CountMatches, Occupied
  <2>2. /\ IsFiniteSet(Occupied \cup {ipOf[h]})
        /\ Cardinality(Occupied \cup {ipOf[h]}) = Cardinality(Occupied) + 1
    BY <1>1, <2>1, FS_AddElement
  <2>3. limiterCount' = Cardinality(Occupied')
    BY <1>4, <2>1, <2>2 DEF Makes
  <2>4. QED
    BY <1>4, <2>2, <2>3 DEF CountMatches, Occupied
<1>7. ipOf' = ipOf /\ dropped' = dropped
  BY DEF Makes, requestVars
<1>8. (\A ip \in Occupied :
          /\ ipOf[limiters[ip][1]] = ip
          /\ ~ NotYetMade(limiters[ip]) /\ limiters[ip] \notin dropped)'
  <2>1. SUFFICES ASSUME NEW ip \in Occupied'
                 PROVE  /\ ipOf[limiters'[ip][1]] = ip
                        /\ ~ NotYetMade(limiters[ip])'
                        /\ limiters'[ip] \notin dropped
    BY <1>7
  <2>2. PICK d \in Buckets : d = limiters'[ip]
    BY <1>2, <1>4, <1>5, OwnBuckets
  <2>3. ipOf[d[1]] = ip /\ ~ NotYetMade(d)' /\ d \notin dropped
    <3>1. CASE ip = ipOf[h]
      BY <1>2, <2>2, <3>1 DEF Makes, IInv, BucketInv
    <3>2. CASE ip \in Occupied
      BY <1>5, <2>2, <3>2 DEF Makes, IInv, BucketInv
    <3>3. QED
      BY <1>4, <3>1, <3>2
  <2>4. QED
    BY <2>2, <2>3 DEF NotYetMade
<1>9. (\A d \in dropped : ~ NotYetMade(d))'
  BY <1>7 DEF Makes, IInv, BucketInv, TypeOK
<1>10. \A g \in Handlers : Holds(g)'
  <2>1. SUFFICES ASSUME NEW g \in Handlers PROVE Holds(g)'
    OBVIOUS
  <2>2. CASE g = h
    BY <1>1, <1>2, <1>7, <2>2 DEF Makes, Holds
  <2>3. CASE g # h
    <3>1. pc'[g] = pc[g] /\ ptr'[g] = ptr[g] /\ ipOf[g] \in IPs
      BY <2>3 DEF Makes, IInv, TypeOK
    <3>2. Holds(g)
      BY DEF IInv, BucketInv, Holds
    <3>3. limiters[ipOf[g]] = NoBucket \/ limiters'[ipOf[g]] = limiters[ipOf[g]]
      BY <1>1, <1>3, <3>1 DEF Occupied
    <3>4. QED
      BY <1>7, <3>1, <3>2, <3>3 DEF Holds
  <2>4. QED
    BY <2>2, <2>3
<1>11. QED
  BY <1>2, <1>4, <1>5, <1>6, <1>7, <1>8, <1>9, <1>10 DEF BucketInv, Holds

LEMMA MakesSafe ==
  ASSUME IInv, NEW h \in Handlers, NEW b \in Buckets, Makes(h, b), TypeOK'
  PROVE  IInv'
<1>1. /\ Occupied' = Occupied \cup {ipOf[h]}
      /\ limiters'[ipOf[h]] = b
      /\ \A ip \in Occupied : limiters'[ip] = limiters[ip] /\ limiters[ip] # b
      /\ BucketInv'
  BY MakesBuckets
<1>2. UNCHANGED <<clock, client, ipOf, now, sweepPc, cutoff, toVisit, target, ideal,
                  dropped, strays, touched>>
  BY DEF Makes, requestVars, sweepVars
<1>3. sweepPc \notin {"range", "delete"}
  BY DEF Makes, MapLocked
<1>4. SweepInv'
  BY <1>2, <1>3 DEF IInv, SweepInv
<1>5. IdleInv'
  BY <1>2, <1>3 DEF IInv, IdleInv
<1>6. /\ tokens'[b] = Burst /\ last'[b] = clock /\ lastSeen'[b] = clock
      /\ \A d \in Buckets \ {b} :
            tokens'[d] = tokens[d] /\ last'[d] = last[d] /\ lastSeen'[d] = lastSeen[d]
  BY DEF Makes, IInv, TypeOK
<1>7. used'[ipOf[h]] = clock /\ \A ip \in Occupied : used'[ip] = used[ip]
  BY DEF Makes, IInv, TypeOK, Occupied
<1>8. clock \in Nat /\ MaxLag \in Nat
  BY ConstantsOK DEF IInv, TypeOK, ConstantsOK
<1>9. ClockInv'
  <2>1. \A d \in Buckets : last'[d] <= lastSeen'[d] /\ lastSeen'[d] <= clock'
    BY <1>2, <1>6, <1>8 DEF IInv, ClockInv
  <2>2. \A g \in Handlers : /\ now'[g] <= clock'
                            /\ pc'[g] = "take" => clock' <= now'[g] + MaxLag
    BY <1>2 DEF IInv, ClockInv, Makes
  <2>3. \A ip \in Occupied' : used'[ip] <= lastSeen'[limiters'[ip]] + MaxLag
    BY <1>1, <1>6, <1>7, <1>8, OwnBuckets DEF IInv, ClockInv
  <2>4. QED
    BY <2>1, <2>2, <2>3 DEF ClockInv
<1>10. FloodInv'
  <2>1. Rate * MaxLag \in Nat /\ Rate * (clock - clock) = 0 /\ Burst \in Nat
    BY <1>8, ConstantsOK DEF ConstantsOK
  <2>2. Worth(b)' = Burst /\ \A d \in Buckets \ {b} : Worth(d)' = Worth(d)
    BY <1>2, <1>6, <2>1 DEF Worth
  <2>3. \A d \in Buckets : Worth(d)' >= 0 /\ tokens'[d] + Rate * MaxLag >= 0
    BY <1>6, <2>1, <2>2 DEF IInv, FloodInv
  <2>4. \A c \in Clients : Credit(c)' = Credit(c)
    BY <1>2 DEF Credit
  <2>5. (\A c \in Clients \cap Occupied :
            \/ Worth(limiters[c]) <= Credit(c)
            \/ Burst + Rate * MaxLag <= Credit(c))'
    <3>1. SUFFICES ASSUME NEW c \in Clients, c \in Occupied'
                   PROVE  \/ Worth(limiters[c])' <= Credit(c)
                          \/ Burst + Rate * MaxLag <= Credit(c)
      BY <2>4
    <3>2. CASE c = ipOf[h] /\ c \notin Occupied
      <4>1. Worth(limiters[c])' = Burst
        BY <1>1, <2>2, <3>2 DEF Worth
      <4>2. QED
        BY <3>2, <4>1 DEF IInv, FloodInv
    <3>3. CASE c \in Occupied
      <4>1. Worth(limiters[c])' = Worth(limiters[c])
        BY <1>1, <2>2, <3>3, OwnBuckets DEF Worth
      <4>2. QED
        BY <3>3, <4>1 DEF IInv, FloodInv
    <3>4. QED
      BY <1>1, <3>1, <3>2, <3>3
  <2>6. QED
    BY <1>1, <1>2, <2>3, <2>4, <2>5 DEF IInv, FloodInv
<1>11. QED
  BY <1>1, <1>4, <1>5, <1>9, <1>10 DEF IInv

-----------------------------------------------------------------------------
(* Handlers that use a bucket *)

(***************************************************************************)
(* What allowRequest, recordFailure and recordSuccess do alike: the bucket *)
(* is seen at a time at most MaxLag ago, and the handler lets go of it.    *)
(***************************************************************************)
Uses(h, seen) ==
    /\ pc[h] \in {"take", "failing", "succeeding"}
    /\ UNCHANGED <<clock, requestVars, mapVars, sweepVars, dropped>>
    /\ \A b \in Buckets : NotYetMade(b)' => NotYetMade(b)
    /\ \A g \in Handlers \ {h} : pc'[g] = pc[g] /\ ptr'[g] = ptr[g] /\ now'[g] = now[g]
    /\ pc'[h] \in {"admitted", "done"} /\ ptr'[h] = NoBucket /\ now'[h] <= clock
    /\ ptr[h] \in Buckets
    /\ ptr[h] \in dropped \/ (ipOf[h] \in Occupied /\ ptr[h] = limiters[ipOf[h]])
    /\ seen \in 0..MaxTime /\ seen <= clock /\ clock <= seen + MaxLag
    /\ lastSeen' = [lastSeen EXCEPT ![ptr[h]] = seen]
    /\ Use(h)

LEMMA TakeUses ==
  ASSUME IInv, NEW h \in Handlers, Take(h), UNCHANGED requestVars
  PROVE  Uses(h, now[h]) /\ UNCHANGED limiters
<1>1. ptr[h] # NoBucket
  BY TakesABucket
<1>2. ptr[h] \in Buckets /\ ipOf[h] \in IPs
  BY <1>1 DEF IInv, TypeOK
<1>3. ptr[h] \in dropped \/ ptr[h] = limiters[ipOf[h]]
  BY DEF IInv, BucketInv, Take
<1>4. ipOf[h] \in Occupied \/ ptr[h] \in dropped
  BY <1>1, <1>2, <1>3 DEF Occupied
<1>5. GoTo(h, "done") \/ GoTo(h, "admitted")
  BY DEF Take
<1>6. \A b \in Buckets : NotYetMade(b)' => NotYetMade(b)
  BY <1>5 DEF Take, GoTo, IInv, TypeOK, NotYetMade, Buckets
<1>7. /\ \A g \in Handlers \ {h} : pc'[g] = pc[g] /\ ptr'[g] = ptr[g] /\ now'[g] = now[g]
      /\ pc'[h] \in {"admitted", "done"} /\ ptr'[h] = NoBucket /\ now'[h] <= clock
  BY <1>5 DEF Take, GoTo, IInv, TypeOK
<1>8. now[h] \in 0..MaxTime /\ now[h] <= clock /\ clock <= now[h] + MaxLag
  BY DEF Take, IInv, TypeOK, ClockInv
<1>9. /\ pc[h] = "take" /\ Use(h)
      /\ UNCHANGED <<clock, mapVars, sweepVars, dropped>>
      /\ lastSeen' = [lastSeen EXCEPT ![ptr[h]] = now[h]]
  BY DEF Take
<1>10. UNCHANGED limiters
  BY <1>9 DEF mapVars
<1>11. Uses(h, now[h])
  BY <1>2, <1>3, <1>4, <1>6, <1>7, <1>8, <1>9, Zenon DEF Uses
<1>12. QED
  BY <1>10, <1>11

LEMMA RecordUses ==
  ASSUME IInv, NEW h \in Handlers, RecordFailure(h) \/ RecordSuccess(h),
         UNCHANGED requestVars
  PROVE  Uses(h, clock) /\ UNCHANGED <<mapVars, tokens, last, ideal, strays>>
<1>1. ptr[h] # NoBucket
  BY TakesABucket
<1>2. ptr[h] \in Buckets /\ ipOf[h] \in IPs
  BY <1>1 DEF IInv, TypeOK
<1>3. ptr[h] \in dropped \/ ptr[h] = limiters[ipOf[h]]
  BY DEF IInv, BucketInv, RecordFailure, RecordSuccess
<1>4. ipOf[h] \in Occupied \/ ptr[h] \in dropped
  BY <1>1, <1>2, <1>3 DEF Occupied
<1>5. GoTo(h, "done") /\ ptr' = [ptr EXCEPT ![h] = NoBucket] /\ now' = now
  BY DEF RecordFailure, RecordSuccess
<1>6. \A b \in Buckets : NotYetMade(b)' => NotYetMade(b)
  BY <1>5 DEF GoTo, IInv, TypeOK, NotYetMade, Buckets
<1>7. /\ \A g \in Handlers \ {h} : pc'[g] = pc[g] /\ ptr'[g] = ptr[g] /\ now'[g] = now[g]
      /\ pc'[h] \in {"admitted", "done"} /\ ptr'[h] = NoBucket /\ now'[h] <= clock
  BY <1>5 DEF GoTo, IInv, TypeOK, ClockInv
<1>8. clock \in 0..MaxTime /\ clock <= clock /\ clock <= clock + MaxLag
  BY ConstantsOK DEF IInv, TypeOK, ConstantsOK
<1>9. /\ pc[h] \in {"failing", "succeeding"} /\ Use(h)
      /\ UNCHANGED <<clock, mapVars, tokens, last, sweepVars, ideal, dropped, strays>>
      /\ lastSeen' = [lastSeen EXCEPT ![ptr[h]] = clock]
  BY DEF RecordFailure, RecordSuccess
<1>10. Uses(h, clock)
  BY <1>2, <1>3, <1>4, <1>6, <1>7, <1>8, <1>9, Zenon DEF Uses
<1>11. QED
  BY <1>9, <1>10

LEMMA UsesSafe ==
  ASSUME IInv, NEW h \in Handlers, NEW seen, Uses(h, seen)
  PROVE  /\ Occupied' = Occupied
         /\ BucketInv' /\ SweepInv' /\ IdleInv'
         /\ \A g \in Handlers : /\ now'[g] <= clock'
                                /\ pc'[g] = "take" => clock' <= now'[g] + MaxLag
         /\ \A ip \in Occupied : used'[ip] <= lastSeen'[limiters[ip]] + MaxLag
<1>1. UNCHANGED <<clock, client, ipOf, limiters, limiterCount, sweepPc, cutoff, toVisit,
                  target, dropped>>
  BY DEF Uses, requestVars, mapVars, sweepVars
<1>2. Occupied' = Occupied
  BY <1>1 DEF Occupied
<1>3. BucketInv'
  <2>1. IsFiniteSet(Occupied)' /\ CountMatches'
    BY <1>1, <1>2 DEF IInv, BucketInv, CountMatches
  <2>2. (\A ip \in Occupied :
            /\ ipOf[limiters[ip][1]] = ip
            /\ ~ NotYetMade(limiters[ip]) /\ limiters[ip] \notin dropped)'
    <3>1. SUFFICES ASSUME NEW ip \in Occupied
                   PROVE  /\ ipOf'[limiters'[ip][1]] = ip
                          /\ ~ NotYetMade(limiters[ip])'
                          /\ limiters'[ip] \notin dropped'
      BY <1>2
    <3>2. PICK b \in Buckets : b = limiters[ip]
      BY OwnBuckets
    <3>3. ~ NotYetMade(b)'
      BY <3>2 DEF IInv, BucketInv, Uses
    <3>4. ~ NotYetMade(limiters[ip])'
      BY <1>1, <3>2, <3>3 DEF NotYetMade
    <3>5. QED
      BY <1>1, <3>4 DEF IInv, BucketInv
  <2>3. (\A b \in dropped : ~ NotYetMade(b))'
    BY <1>1 DEF IInv, BucketInv, Uses, TypeOK
  <2>4. \A g \in Handlers : Holds(g)'
    BY <1>1 DEF IInv, BucketInv, Uses, Holds
  <2>5. QED
    BY <2>1, <2>2, <2>3, <2>4 DEF BucketInv, Holds
<1>4. SweepInv'
  BY <1>1, <1>2 DEF IInv, SweepInv
<1>5. clock \in Nat /\ MaxLag \in Nat
  BY ConstantsOK DEF IInv, TypeOK, ConstantsOK
<1>6. \A ip \in IPs : used'[ip] = used[ip] \/
                      (ip = ipOf[h] /\ limiters[ip] = ptr[h] /\ used'[ip] = clock)
  BY DEF Uses, Use, IInv, TypeOK
<1>7. IdleInv'
  <2>1. SUFFICES ASSUME sweepPc = "delete", ~ touched'
                 PROVE  used'[target] + (IdleTTL - MaxLag) <= clock
    BY <1>1 DEF IdleInv
  <2>2. target # ipOf[h] /\ ~ touched
    BY <2>1 DEF Uses, Use
  <2>3. target \in IPs
    BY <2>1 DEF IInv, SweepInv, Occupied
  <2>4. used'[target] = used[target]
    BY <1>6, <2>2, <2>3
  <2>5. QED
    BY <2>1, <2>2, <2>4 DEF IInv, IdleInv
<1>8. \A g \in Handlers : /\ now'[g] <= clock'
                          /\ pc'[g] = "take" => clock' <= now'[g] + MaxLag
  BY <1>1 DEF IInv, ClockInv, Uses
<1>9. \A ip \in Occupied : used'[ip] <= lastSeen'[limiters[ip]] + MaxLag
  <2>1. SUFFICES ASSUME NEW ip \in Occupied
                 PROVE  used'[ip] <= lastSeen'[limiters[ip]] + MaxLag
    OBVIOUS
  <2>2. ip \in IPs /\ limiters[ip] \in Buckets /\ limiters[ip] \notin dropped
    BY OwnBuckets DEF IInv, BucketInv
  <2>3. CASE limiters[ip] = ptr[h]
    <3>1. ip = ipOf[h]
      BY <2>2, <2>3, OwnBuckets DEF Uses
    <3>2. used'[ip] = clock /\ lastSeen'[limiters[ip]] = seen
      BY <2>2, <2>3, <3>1 DEF Uses, Use, IInv, TypeOK
    <3>3. QED
      BY <3>2 DEF Uses
  <2>4. CASE limiters[ip] # ptr[h]
    <3>1. used'[ip] = used[ip] /\ lastSeen'[limiters[ip]] = lastSeen[limiters[ip]]
      BY <1>6, <2>2, <2>4 DEF Uses, IInv, TypeOK
    <3>2. QED
      BY <3>1 DEF IInv, ClockInv
  <2>5. QED
    BY <2>3, <2>4
<1>10. QED
  BY <1>2, <1>3, <1>4, <1>7, <1>8, <1>9

LEMMA RecordSafe ==
  ASSUME IInv, NEW h \in Handlers, RecordFailure(h) \/ RecordSuccess(h),
         UNCHANGED requestVars, TypeOK'
  PROVE  IInv'
<1>1. Uses(h, clock)
  BY RecordUses
<1>2. UNCHANGED <<limiters, tokens, last, ideal, strays>>
  BY RecordUses DEF mapVars
<1>3. UNCHANGED <<clock, client, ipOf, sweepPc, target>>
  BY <1>1 DEF Uses, requestVars, sweepVars
<1>4. Occupied' = Occupied
  BY <1>1, UsesSafe
<1>5. ClockInv'
  <2>1. \A b \in Buckets : last'[b] <= lastSeen'[b] /\ lastSeen'[b] <= clock'
    BY <1>1, <1>2, <1>3 DEF Uses, IInv, ClockInv, TypeOK
  <2>2. QED
    BY <1>1, <1>2, <1>4, <2>1, UsesSafe DEF ClockInv
<1>6. FloodInv'
  BY <1>2, <1>3, <1>4 DEF IInv, FloodInv, Worth, Credit
<1>7. QED
  BY <1>1, <1>5, <1>6, UsesSafe DEF IInv

(***************************************************************************)
(* A bucket is worth no more after it was brought up to the time a handler *)
(* read than before: what it gained until then is no longer ahead of it,   *)
(* and of what it is to gain again at most MaxLag ticks are behind.        *)
(***************************************************************************)
LEMMA GainedWorth ==
  ASSUME IInv, NEW h \in Handlers, pc[h] = "take"
  PROVE  /\ Gained(h) \in Int /\ Rate * (clock - now[h]) \in Int
         /\ Gained(h) + Rate * (clock - now[h]) <= Worth(ptr[h])
         /\ Gained(h) + Rate * (clock - now[h]) <= Burst + Rate * MaxLag
         /\ Gained(h) + Rate * (clock - now[h]) >= 0
         /\ Gained(h) + Rate * MaxLag >= 0
         /\ Rate * (clock - now[h]) >= 0
<1> DEFINE b == ptr[h]
           n == now[h]
<1>1. b # NoBucket
  BY DEF IInv, BucketInv
<1>2. /\ b \in Buckets /\ Gained(h) \in Int /\ Gained(h) <= Burst
      /\ Gained(h) <= tokens[b] + Rate * (n - last[b])
      /\ \/ Gained(h) = Burst
         \/ Gained(h) = tokens[b] + Rate * (n - last[b])
  BY <1>1, GainedBounds DEF IInv
<1>3. /\ clock \in Int /\ n \in Int /\ tokens[b] \in Int /\ last[b] \in Int
      /\ Rate \in Nat /\ MaxLag \in Nat /\ Burst \in Nat
  BY <1>2, ConstantsOK DEF IInv, TypeOK, ConstantsOK
<1>4. 0 <= clock - n /\ clock - n <= MaxLag
  BY <1>3 DEF IInv, ClockInv
<1>5. Worth(b) >= 0
  BY <1>2 DEF IInv, FloodInv
<1>6. Worth(b) = tokens[b] + Rate * (clock - last[b])
  BY DEF Worth
<1> HIDE DEF b, n
<1>7. /\ Rate * (clock - n) \in Int /\ Rate * (n - last[b]) \in Int
      /\ Rate * (clock - last[b]) = Rate * (clock - n) + Rate * (n - last[b])
  <2>1. clock - n \in Int /\ n - last[b] \in Int
        /\ clock - last[b] = (clock - n) + (n - last[b])
    BY <1>3
  <2>2. QED
    BY <1>3, <2>1, Distributes
<1>8. /\ Rate * (clock - n) >= Rate * 0 /\ Rate * 0 = 0
      /\ Rate * (clock - n) <= Rate * MaxLag /\ Rate * MaxLag \in Nat
  BY <1>3, <1>4, Monotone
<1>9. /\ Gained(h) + Rate * (clock - n) <= Worth(b)
      /\ Gained(h) + Rate * (clock - n) <= Burst + Rate * MaxLag
      /\ Gained(h) + Rate * (clock - n) >= 0
  BY <1>2, <1>3, <1>5, <1>6, <1>7, <1>8
<1>10. Gained(h) + Rate * MaxLag >= 0
  BY <1>2, <1>7, <1>8, <1>9
<1>11. QED
  BY <1>2, <1>7, <1>8, <1>9, <1>10 DEF b, n

LEMMA TakeFlood ==
  ASSUME IInv, NEW h \in Handlers, Take(h), UNCHANGED requestVars, TypeOK'
  PROVE  FloodInv'
<1> DEFINE left == IF Gained(h) < 1 THEN Gained(h) ELSE Gained(h) - 1
<1>1. Uses(h, now[h]) /\ UNCHANGED limiters /\ Occupied' = Occupied
  BY TakeUses, UsesSafe
<1>2. UNCHANGED <<clock, client, ipOf, sweepPc, target>>
  BY <1>1 DEF Uses, requestVars, sweepVars
<1>3. PICK b \in Buckets : b = ptr[h]
  BY <1>1 DEF Uses
<1>4. PICK k \in Clients : /\ k = client[h]
                            /\ \/ b \in dropped
                               \/ k \in Occupied /\ b = limiters[k]
  BY <1>1, <1>3 DEF Uses, IInv, TypeOK, FloodInv
<1>5. /\ Gained(h) \in Int /\ Rate * (clock - now[h]) \in Int
      /\ Gained(h) + Rate * (clock - now[h]) <= Worth(b)
      /\ Gained(h) + Rate * (clock - now[h]) <= Burst + Rate * MaxLag
      /\ Gained(h) + Rate * (clock - now[h]) >= 0
      /\ Gained(h) + Rate * MaxLag >= 0
      /\ Rate * (clock - now[h]) >= 0
  BY <1>3, GainedWorth DEF Take, Worth
<1>6. /\ left \in Int /\ (Gained(h) < 1 => left = Gained(h))
      /\ Gained(h) >= 1 => left = Gained(h) - 1 /\ left >= 0
  BY <1>5
<1>7. /\ tokens' = [tokens EXCEPT ![b] = left]
      /\ last' = [last EXCEPT ![b] = now[h]]
  BY <1>3, <1>5 DEF Take
<1> HIDE DEF left
<1>8. /\ tokens'[b] = left /\ last'[b] = now[h]
      /\ \A d \in Buckets \ {b} : tokens'[d] = tokens[d] /\ last'[d] = last[d]
  BY <1>7 DEF IInv, TypeOK
<1>9. /\ Worth(b)' = left + Rate * (clock - now[h])
      /\ \A d \in Buckets \ {b} : Worth(d)' = Worth(d)
  BY <1>2, <1>8 DEF Worth
<1>10. /\ Burst \in Nat \ {0} /\ Rate * MaxLag \in Nat
       /\ \A d \in Buckets : Worth(d) \in Int
       /\ \A c \in Clients : Credit(c) \in Int /\ Credit(c)' \in Int
  <2>1. Rate * MaxLag \in Nat /\ Burst \in Nat \ {0}
    BY ConstantsOK DEF ConstantsOK
  <2>2. \A d \in Buckets : tokens[d] \in Int /\ Rate * (clock - last[d]) \in Int
    BY ConstantsOK DEF ConstantsOK, IInv, TypeOK
  <2>3. QED
    BY <2>1, <2>2 DEF Worth, Credit, IInv, TypeOK
<1>11. \A d \in Buckets : Worth(d)' >= 0 /\ tokens'[d] + Rate * MaxLag >= 0
  <2>1. left + Rate * (clock - now[h]) >= 0 /\ left + Rate * MaxLag >= 0
    BY <1>5, <1>6, <1>10
  <2>2. QED
    BY <1>8, <1>9, <2>1 DEF IInv, FloodInv
<1>12. Worth(b)' <= Worth(b)
  BY <1>5, <1>6, <1>9, <1>10
<1>13. \A ip \in Occupied : /\ Worth(limiters[ip])' \in Int
                             /\ Worth(limiters[ip])' <= Worth(limiters[ip])
  <2>1. SUFFICES ASSUME NEW d \in Buckets
                 PROVE  Worth(d)' \in Int /\ Worth(d)' <= Worth(d)
    BY <1>1, OwnBuckets DEF Worth
  <2>2. QED
    BY <1>5, <1>6, <1>9, <1>10, <1>12
<1>14. CASE \A c \in Clients : ideal'[c] <= ideal[c] /\ Credit(c)' = Credit(c)
  <2>1. \A c \in Clients : Credit(c)' >= 0 /\ ideal'[c] <= Burst
    BY <1>10, <1>14 DEF IInv, FloodInv, TypeOK
  <2>2. (\A c \in Clients \cap Occupied :
            \/ Worth(limiters[c]) <= Credit(c)
            \/ Burst + Rate * MaxLag <= Credit(c))'
    BY <1>1, <1>10, <1>13, <1>14, OwnBuckets DEF IInv, FloodInv
  <2>3. QED
    BY <1>1, <1>2, <1>11, <1>14, <2>1, <2>2 DEF IInv, FloodInv
<1>15. CASE /\ Gained(h) >= 1 /\ ~ Stray(h)
            /\ ideal' = [ideal EXCEPT ![k] = @ - 1] /\ strays' = strays
  <2>1. b \notin dropped /\ k \in Occupied /\ b = limiters[k]
    BY <1>3, <1>4, <1>15 DEF Stray
  <2>2. ~ (sweepPc = "delete" /\ target = k)
    BY <1>3, <1>15, <2>1 DEF Stray
  <2>3. /\ Credit(k)' = Credit(k) - 1 /\ ideal'[k] = ideal[k] - 1
        /\ \A c \in Clients \ {k} : Credit(c)' = Credit(c) /\ ideal'[c] = ideal[c]
    BY <1>4, <1>10, <1>15 DEF Credit, IInv, TypeOK
  <2>4. /\ Worth(b)' <= Worth(b) - 1 /\ Worth(b)' <= Burst + Rate * MaxLag - 1
        /\ Worth(b) >= 1 /\ Worth(b)' \in Int
    BY <1>5, <1>6, <1>9, <1>10, <1>15
  <2>5. Worth(b) <= Credit(k) \/ Burst + Rate * MaxLag <= Credit(k)
    BY <1>4, <2>1 DEF IInv, FloodInv
  <2>6. /\ \/ Worth(b)' <= Credit(k)'
           \/ Burst + Rate * MaxLag <= Credit(k)'
        /\ Credit(k)' >= 0
    BY <1>4, <1>10, <2>3, <2>4, <2>5
  <2>7. \A c \in Clients : Credit(c)' >= 0 /\ ideal'[c] <= Burst
    BY <1>10, <2>3, <2>6 DEF IInv, FloodInv, TypeOK
  <2>8. (\A c \in Clients \cap Occupied :
            \/ Worth(limiters[c]) <= Credit(c)
            \/ Burst + Rate * MaxLag <= Credit(c))'
    <3>1. SUFFICES ASSUME NEW c \in Clients \cap Occupied
                   PROVE  \/ Worth(limiters[c])' <= Credit(c)'
                          \/ Burst + Rate * MaxLag <= Credit(c)'
      BY <1>1
    <3>2. CASE c = k
      BY <1>1, <2>1, <2>6, <3>2 DEF Worth, Credit
    <3>3. CASE c # k
      BY <1>10, <1>13, <2>3, <3>3, OwnBuckets DEF IInv, FloodInv
    <3>4. QED
      BY <3>2, <3>3
  <2>9. \A c \in Clients : (c \notin Occupied \/ (sweepPc = "delete" /\ target = c)) =>
                              Credit(c)' >= Burst
    BY <2>1, <2>2, <2>3 DEF IInv, FloodInv
  <2>10. QED
    BY <1>1, <1>2, <1>11, <2>7, <2>8, <2>9 DEF IInv, FloodInv
<1>16. QED
  <2>1. CASE Gained(h) < 1 /\ UNCHANGED <<ideal, strays>>
    BY <1>14, <2>1 DEF Credit, IInv, TypeOK
  <2>2. CASE Gained(h) >= 1 /\ Admit(h) /\ Stray(h)
    <3>1. ideal' = [ideal EXCEPT ![k] = @ - 1] /\ strays' = [strays EXCEPT ![k] = @ + 1]
      BY <1>4, <2>2 DEF Admit
    <3>2. \A c \in Clients : /\ ideal'[c] <= ideal[c] /\ ideal'[c] \in Int
                             /\ ideal'[c] + strays'[c] = ideal[c] + strays[c]
      BY <1>4, <3>1 DEF IInv, TypeOK
    <3>3. QED
      BY <1>14, <3>2 DEF Credit
  <2>3. CASE Gained(h) >= 1 /\ Admit(h) /\ ~ Stray(h)
    BY <1>4, <1>15, <2>3 DEF Admit
  <2>4. QED
    BY <2>1, <2>2, <2>3 DEF Take

LEMMA TakeSafe ==
  ASSUME IInv, NEW h \in Handlers, Take(h), UNCHANGED requestVars, TypeOK'
  PROVE  IInv'
<1>1. Uses(h, now[h]) /\ UNCHANGED limiters
  BY TakeUses
<1>2. ptr[h] \in Buckets /\ now[h] \in Int /\ now[h] <= clock /\ clock' = clock
  BY <1>1 DEF Uses, IInv, TypeOK
<1>3. \A b \in Buckets : last'[b] <= lastSeen'[b] /\ lastSeen'[b] <= clock'
  BY <1>2 DEF Take, IInv, ClockInv, TypeOK
<1>4. ClockInv'
  BY <1>1, <1>3, UsesSafe DEF ClockInv
<1>5. QED
  BY <1>1, <1>4, UsesSafe, TakeFlood DEF IInv

LEMMA HandlerSafe ==
  ASSUME IInv, NEW h \in Handlers, HandlerStep(h), UNCHANGED requestVars
  PROVE  IInv'
<1>1. TypeOK'
  BY HandlerTypeStep
<1>2. CASE Allow(h) \/ Fail(h) \/ Succeed(h) \/ ReadClock(h) \/ Leave(h)
  BY <1>1, <1>2, LooksUp, MovesSafe
<1>3. CASE AllowLocked(h) \/ FailLocked(h)
  BY <1>1, <1>3, LooksUpOrMakes, MovesSafe, MakesSafe
<1>4. CASE Take(h)
  BY <1>1, <1>4, TakeSafe
<1>5. CASE RecordFailure(h) \/ RecordSuccess(h)
  BY <1>1, <1>5, RecordSafe
<1>6. QED
  BY <1>2, <1>3, <1>4, <1>5 DEF HandlerStep

-----------------------------------------------------------------------------
(* The sweeper *)

(***************************************************************************)
(* A bucket that the sweeper finds stale has been idle: a new one would be *)
(* worth no more than it is.                                               *)
(***************************************************************************)
LEMMA StaleIsFull ==
  ASSUME IInv, NEW ip \in Occupied, sweepPc = "range",
         lastSeen[limiters[ip]] < cutoff
  PROVE  /\ used[ip] + (IdleTTL - MaxLag) <= clock
         /\ Worth(limiters[ip]) >= Burst
<1>1. PICK b \in Buckets : b = limiters[ip]
  BY OwnBuckets
<1>2. /\ clock \in Int /\ lastSeen[b] \in Int /\ last[b] \in Int /\ tokens[b] \in Int
      /\ cutoff \in Int /\ used[ip] \in Int
      /\ Rate \in Nat /\ MaxLag \in Nat /\ Burst \in Nat /\ IdleTTL \in Nat
  BY ConstantsOK DEF IInv, TypeOK, ConstantsOK, Occupied
<1>3. /\ last[b] <= lastSeen[b] /\ lastSeen[b] <= clock /\ used[ip] <= lastSeen[b] + MaxLag
      /\ cutoff <= clock - IdleTTL
  BY <1>1 DEF IInv, ClockInv, SweepInv
<1>4. used[ip] + (IdleTTL - MaxLag) <= clock
  BY <1>1, <1>2, <1>3
<1>5. IdleTTL <= clock - last[b]
  BY <1>1, <1>2, <1>3
<1>6. /\ Rate * IdleTTL <= Rate * (clock - last[b])
      /\ Rate * (IdleTTL - MaxLag) = Rate * IdleTTL - Rate * MaxLag
      /\ Rate * IdleTTL \in Int /\ Rate * MaxLag \in Int
      /\ Rate * (clock - last[b]) \in Int
  BY <1>2, <1>5, Monotone, Distributes
<1>7. tokens[b] + Rate * MaxLag >= 0
  BY DEF IInv, FloodInv
<1>8. Rate * (IdleTTL - MaxLag) >= Burst
  BY ConstantsOK DEF ConstantsOK
<1>9. tokens[b] + Rate * (clock - last[b]) >= Burst
  BY <1>2, <1>6, <1>7, <1>8
<1>10. QED
  BY <1>1, <1>4, <1>9 DEF Worth

LEMMA VisitSafe ==
  ASSUME IInv, NEW ip \in IPs, SweepVisit(ip), UNCHANGED requestVars, TypeOK'
  PROVE  IInv'
<1>1. UNCHANGED <<clock, client, ipOf, limiters, limiterCount, tokens, last, lastSeen,
                  pc, ptr, now, cutoff, ideal, dropped, strays, used>>
  BY DEF SweepVisit, requestVars, mapVars, bucketVars, handlerVars
<1>2. Occupied' = Occupied
  BY <1>1 DEF Occupied
<1>3. ip \in Occupied /\ sweepPc = "range" /\ target = Junk /\ toVisit' = toVisit \ {ip}
  BY DEF SweepVisit, IInv, SweepInv
<1>4. /\ BucketInv' /\ ClockInv'
      /\ \A c \in Clients : Credit(c)' = Credit(c)
      /\ \A b \in Buckets : Worth(b)' = Worth(b)
  BY <1>1, <1>2 DEF IInv, BucketInv, ClockInv, CountMatches, NotYetMade, Credit, Worth
<1>5. CASE lastSeen[limiters[ip]] < cutoff
  <2>1. sweepPc' = "delete" /\ target' = ip
    BY <1>5 DEF SweepVisit
  <2>2. used[ip] + (IdleTTL - MaxLag) <= clock /\ Worth(limiters[ip]) >= Burst
    BY <1>3, <1>5, StaleIsFull
  <2>3. SweepInv' /\ IdleInv'
    BY <1>1, <1>2, <1>3, <2>1, <2>2 DEF IInv, SweepInv, IdleInv
  <2>4. ip \in Clients => Credit(ip) >= Burst
    <3>1. Burst \in Nat /\ Rate * MaxLag \in Nat
      BY ConstantsOK DEF ConstantsOK
    <3>2. ip \in Clients => \/ Worth(limiters[ip]) <= Credit(ip)
                            \/ Burst + Rate * MaxLag <= Credit(ip)
      BY <1>3 DEF IInv, FloodInv
    <3>3. ip \in Clients => Credit(ip) \in Int
      BY <3>1 DEF Credit, IInv, TypeOK
    <3>4. Worth(limiters[ip]) \in Int
      BY <1>3, OwnBuckets, ConstantsOK DEF Worth, ConstantsOK, IInv, TypeOK
    <3>5. QED
      BY <2>2, <3>1, <3>2, <3>3, <3>4
  <2>5. FloodInv'
    BY <1>1, <1>2, <1>3, <1>4, <2>1, <2>4, OwnBuckets DEF IInv, FloodInv, Worth, Credit
  <2>6. QED
    BY <1>4, <2>3, <2>5 DEF IInv
<1>6. CASE ~ (lastSeen[limiters[ip]] < cutoff)
  <2>1. sweepPc' = sweepPc /\ target' = target
    BY <1>6 DEF SweepVisit
  <2>2. SweepInv' /\ IdleInv'
    BY <1>1, <1>2, <1>3, <2>1 DEF IInv, SweepInv, IdleInv
  <2>3. FloodInv'
    BY <1>1, <1>2, <2>1 DEF IInv, FloodInv, Worth, Credit
  <2>4. QED
    BY <1>4, <2>2, <2>3 DEF IInv
<1>7. QED
  BY <1>5, <1>6

LEMMA DeleteSafe ==
  ASSUME IInv, SweepDelete, UNCHANGED requestVars, TypeOK'
  PROVE  IInv'
<1>1. UNCHANGED <<clock, client, ipOf, tokens, last, lastSeen, pc, ptr, now, cutoff,
                  toVisit, ideal, strays, used>>
  BY DEF SweepDelete, requestVars, bucketVars, handlerVars
<1>2. /\ target \in Occupied /\ Occupied' = Occupied \ {target}
      /\ IsFiniteSet(Occupied') /\ limiterCount' = Cardinality(Occupied')
  BY DeletedFromMap
<1>3. \A ip \in IPs \ {target} : limiters'[ip] = limiters[ip]
  BY DEF SweepDelete, IInv, TypeOK
<1>4. dropped' = dropped \cup {limiters[target]} /\ sweepPc' = "range" /\ target' = Junk
  BY DEF SweepDelete
<1>5. \A ip \in Occupied' : ip \in Occupied /\ limiters'[ip] = limiters[ip]
  BY <1>2, <1>3 DEF Occupied
<1>6. BucketInv'
  <2>1. CountMatches'
    BY <1>2 DEF CountMatches, Occupied
  <2>2. (\A ip \in Occupied :
            /\ ipOf[limiters[ip][1]] = ip
            /\ ~ NotYetMade(limiters[ip]) /\ limiters[ip] \notin dropped)'
    <3>1. SUFFICES ASSUME NEW ip \in Occupied'
                   PROVE  /\ ipOf[limiters'[ip][1]] = ip
                          /\ ~ NotYetMade(limiters[ip])'
                          /\ limiters'[ip] \notin dropped'
      BY <1>1
    <3>2. limiters'[ip] = limiters[ip] /\ limiters[ip] # limiters[target]
      BY <1>2, <1>5, OwnBuckets
    <3>3. ~ NotYetMade(limiters[ip])'
      BY <1>1, <1>5, <3>2 DEF NotYetMade, IInv, BucketInv
    <3>4. QED
      BY <1>4, <1>5, <3>2, <3>3 DEF IInv, BucketInv
  <2>3. (\A b \in dropped : ~ NotYetMade(b))'
    BY <1>1, <1>2, <1>4 DEF NotYetMade, IInv, BucketInv
  <2>4. \A g \in Handlers : Holds(g)'
    <3>1. SUFFICES ASSUME NEW g \in Handlers PROVE Holds(g)'
      OBVIOUS
    <3>2. Holds(g) /\ ipOf[g] \in IPs
      BY DEF IInv, BucketInv, TypeOK, Holds
    <3>3. CASE ipOf[g] = target
      BY <1>1, <1>4, <3>2, <3>3 DEF Holds
    <3>4. CASE ipOf[g] # target
      BY <1>1, <1>3, <1>4, <3>2, <3>4 DEF Holds
    <3>5. QED
      BY <3>3, <3>4
  <2>5. QED
    BY <1>2, <2>1, <2>2, <2>3, <2>4 DEF BucketInv, Holds
<1>7. SweepInv' /\ IdleInv'
  <2>1. sweepPc = "delete" /\ toVisit \subseteq Occupied'
    BY <1>2 DEF SweepDelete, IInv, SweepInv
  <2>2. Junk \notin IPs /\ \A ip \in Occupied' : ip \in IPs
    BY TrustOK DEF TrustOK, Occupied
  <2>3. QED
    BY <1>1, <1>4, <2>1, <2>2 DEF IInv, SweepInv, IdleInv
<1>8. ClockInv'
  BY <1>1, <1>5 DEF IInv, ClockInv
<1>9. FloodInv'
  <2>1. sweepPc = "delete" /\ \A c \in Clients : Credit(c)' = Credit(c)
    BY <1>1 DEF SweepDelete, Credit
  <2>2. (\A c \in Clients \cap Occupied :
            \/ Worth(limiters[c]) <= Credit(c)
            \/ Burst + Rate * MaxLag <= Credit(c))'
    BY <1>1, <1>5, <2>1 DEF IInv, FloodInv, Worth
  <2>3. \A c \in Clients : c \notin Occupied' => Credit(c) >= Burst
    BY <1>2, <2>1 DEF IInv, FloodInv
  <2>4. QED
    BY <1>1, <1>4, <2>1, <2>2, <2>3 DEF IInv, FloodInv, Worth
<1>10. QED
  BY <1>6, <1>7, <1>8, <1>9 DEF IInv

LEMMA SweeperSafe ==
  ASSUME IInv, Sweeper, UNCHANGED requestVars
  PROVE  IInv'
<1>1. TypeOK'
  BY SweeperTypeStep
<1>2. CASE SweepDelete
  BY <1>1, <1>2, DeleteSafe
<1>3. CASE \E ip \in IPs : SweepVisit(ip)
  BY <1>1, <1>3, VisitSafe
<1>4. CASE SweepTick \/ SweepLock \/ SweepUnlock
  <2>1. UNCHANGED <<clock, client, ipOf, limiters, limiterCount, tokens, last, lastSeen,
                    pc, ptr, now, target, ideal, dropped, strays, used, touched>>
    BY <1>4 DEF SweepTick, SweepLock, SweepUnlock, requestVars, mapVars, bucketVars,
       handlerVars, historyVars
  <2>2. Occupied' = Occupied
    BY <2>1 DEF Occupied
  <2>3. sweepPc # "delete" /\ sweepPc' # "delete"
    BY <1>4 DEF SweepTick, SweepLock, SweepUnlock
  <2>4. BucketInv' /\ ClockInv'
    BY <2>1, <2>2 DEF IInv, BucketInv, ClockInv, CountMatches, NotYetMade
  <2>5. SweepInv'
    <3>1. Junk \notin Occupied
      BY TrustOK DEF TrustOK, Occupied
    <3>2. clock \in Int /\ IdleTTL \in Int
      BY ConstantsOK DEF ConstantsOK, IInv, TypeOK
    <3>3. toVisit' \subseteq Occupied /\ (sweepPc' # "range" => toVisit' = {})
      BY <1>4 DEF SweepTick, SweepLock, SweepUnlock, Occupied, IInv, SweepInv
    <3>4. target = Junk /\ target' = Junk
      BY <2>1, <2>3 DEF IInv, SweepInv
    <3>5. sweepPc' # "idle" => cutoff' <= clock - IdleTTL
      BY <1>4, <3>2 DEF SweepTick, SweepLock, SweepUnlock, IInv, SweepInv
    <3>6. QED
      BY <2>1, <2>2, <2>3, <3>1, <3>3, <3>4, <3>5 DEF SweepInv
  <2>6. IdleInv' /\ FloodInv'
    BY <2>1, <2>2, <2>3 DEF IInv, IdleInv, FloodInv, Worth, Credit
  <2>7. QED
    BY <1>1, <2>4, <2>5, <2>6 DEF IInv
<1>5. QED
  BY <1>2, <1>3, <1>4 DEF Sweeper

-----------------------------------------------------------------------------
(* Time *)

LEMMA TickSafe ==
  ASSUME IInv, Tick, UNCHANGED requestVars
  PROVE  IInv'
<1>1. TypeOK'
  BY TickTypeStep DEF IInv
<1>2. UNCHANGED <<client, ipOf, limiters, limiterCount, tokens, last, lastSeen, pc, ptr,
                  now, sweepPc, cutoff, toVisit, target, dropped, strays, used, touched>>
  BY DEF Tick, requestVars, mapVars, bucketVars, handlerVars, sweepVars
<1>3. Occupied' = Occupied
  BY <1>2 DEF Occupied
<1>4. clock' = clock + 1 /\ clock \in Int
  BY DEF Tick, IInv, TypeOK
<1>5. BucketInv'
  BY <1>2, <1>3 DEF IInv, BucketInv, CountMatches, NotYetMade
<1>6. SweepInv'
  <2>1. cutoff \in Int /\ IdleTTL \in Int
    BY ConstantsOK DEF ConstantsOK, IInv, TypeOK
  <2>2. QED
    BY <1>2, <1>3, <1>4, <2>1 DEF IInv, SweepInv
<1>7. ClockInv'
  <2>1. \A b \in Buckets : lastSeen[b] \in Int
    BY DEF IInv, TypeOK
  <2>2. \A h \in Handlers : now[h] \in Int /\ MaxLag \in Int
                            /\ (pc[h] = "take" => clock - now[h] < MaxLag)
    BY ConstantsOK DEF ConstantsOK, IInv, TypeOK, Tick
  <2>3. QED
    BY <1>2, <1>3, <1>4, <2>1, <2>2 DEF IInv, ClockInv
<1>8. IdleInv'
  <2>1. sweepPc = "delete" => used[target] \in Int
    BY DEF IInv, TypeOK, SweepInv, Occupied
  <2>2. IdleTTL - MaxLag \in Int
    BY ConstantsOK DEF ConstantsOK
  <2>3. QED
    BY <1>2, <1>4, <2>1, <2>2 DEF IInv, IdleInv
<1>9. FloodInv'
  <2>1. Rate \in Nat /\ Burst \in Nat /\ Rate * MaxLag \in Nat
    BY ConstantsOK DEF ConstantsOK
  <2>2. \A b \in Buckets : Worth(b) \in Int /\ Worth(b)' = Worth(b) + Rate
    <3>1. SUFFICES ASSUME NEW b \in Buckets
                   PROVE  Worth(b) \in Int /\ Worth(b)' = Worth(b) + Rate
      OBVIOUS
    <3>2. tokens[b] \in Int /\ clock - last[b] \in Int /\ last[b] \in Int
      BY DEF IInv, TypeOK
    <3>3. clock' - last[b] = (clock - last[b]) + 1
      BY <1>4, <3>2
    <3>4. Rate * ((clock - last[b]) + 1) = Rate * (clock - last[b]) + Rate * 1
          /\ Rate * (clock - last[b]) \in Int
      BY <2>1, <3>2, Distributes
    <3>5. QED
      BY <1>2, <2>1, <3>2, <3>3, <3>4 DEF Worth
  <2>3. \A c \in Clients :
          /\ ideal[c] \in Int /\ ideal[c] <= Burst /\ strays[c] \in Nat
          /\ ideal'[c] = AtMost(Burst, ideal[c] + Rate)
    BY DEF IInv, TypeOK, FloodInv, Tick
  <2>4. \A c \in Clients :
          /\ Credit(c) \in Int /\ Credit(c)' \in Int
          /\ Credit(c) <= Credit(c)' /\ ideal'[c] <= Burst
          /\ \/ Credit(c)' = Credit(c) + Rate
             \/ Credit(c)' >= Burst + Rate * MaxLag
    BY <1>2, <2>1, <2>3 DEF Credit, AtMost
  <2>5. (\A c \in Clients \cap Occupied :
            \/ Worth(limiters[c]) <= Credit(c)
            \/ Burst + Rate * MaxLag <= Credit(c))'
    <3>1. SUFFICES ASSUME NEW c \in Clients \cap Occupied
                   PROVE  \/ Worth(limiters[c])' <= Credit(c)'
                          \/ Burst + Rate * MaxLag <= Credit(c)'
      BY <1>3
    <3>2. /\ Worth(limiters[c])' = Worth(limiters[c]) + Rate
          /\ Worth(limiters[c]) \in Int
      BY <1>2, <2>2, OwnBuckets DEF Worth
    <3>3. \/ Worth(limiters[c]) <= Credit(c)
          \/ Burst + Rate * MaxLag <= Credit(c)
      BY DEF IInv, FloodInv
    <3>4. QED
      BY <2>1, <2>4, <3>2, <3>3
  <2>6. \A b \in Buckets : Worth(b)' >= 0 /\ tokens'[b] + Rate * MaxLag >= 0
    BY <1>2, <2>1, <2>2 DEF IInv, FloodInv
  <2>7. \A c \in Clients : /\ Credit(c)' >= 0
                           /\ Credit(c) >= Burst => Credit(c)' >= Burst
    BY <2>1, <2>4 DEF IInv, FloodInv
  <2>8. QED
    BY <1>2, <1>3, <2>4, <2>5, <2>6, <2>7 DEF IInv, FloodInv
<1>10. QED
  BY <1>1, <1>5, <1>6, <1>7, <1>8, <1>9 DEF IInv

-----------------------------------------------------------------------------
(* The theorems *)

LEMMA StutterSafe ==
  ASSUME IInv, UNCHANGED vars
  PROVE  IInv'
<1>1. UNCHANGED <<clock, client, ipOf, limiters, limiterCount, tokens, last, lastSeen, pc,
                  ptr, now, sweepPc, cutoff, toVisit, target, ideal, dropped, strays,
                  used, touched>>
  BY DEF vars, requestVars, mapVars, bucketVars, handlerVars, sweepVars, historyVars
<1>2. Occupied' = Occupied
  BY <1>1 DEF Occupied
<1>3. TypeOK'
  BY <1>1 DEF IInv, TypeOK
<1>4. BucketInv' /\ SweepInv' /\ ClockInv'
  BY <1>1, <1>2 DEF IInv, BucketInv, SweepInv, ClockInv, CountMatches, NotYetMade
<1>5. IdleInv' /\ FloodInv'
  BY <1>1, <1>2 DEF IInv, IdleInv, FloodInv, Worth, Credit
<1>6. QED
  BY <1>3, <1>4, <1>5 DEF IInv

LEMMA Invariant == Spec => []IInv
<1>1. IInv /\ [Next]_vars => IInv'
  BY HandlerSafe, SweeperSafe, TickSafe, StutterSafe DEF Next
<1>2. QED
  BY <1>1, InitInv, PTL DEF Spec

(***************************************************************************)
(* Every variable of Limiter keeps its type: the map never grows past its  *)
(* maximum, and no bucket ever holds more than Burst.                      *)
(***************************************************************************)
THEOREM TypeCorrect == Spec => []TypeOK
<1>1. IInv => TypeOK
  BY DEF IInv
<1>2. QED
  BY <1>1, Invariant, PTL

(***************************************************************************)
(* limiterCount is the number of buckets in the map.  The set is finite:   *)
(* every bucket in it was made by a handler.                               *)
(***************************************************************************)
THEOREM CountMatchesAlways == Spec => []CountMatches
<1>1. IInv => CountMatches
  BY DEF IInv, BucketInv
<1>2. QED
  BY <1>1, Invariant, PTL

(***************************************************************************)
(* No client gets more requests through than one bucket allows, but for    *)
(* the lag of handlers and those that hold a dropped bucket, whichever of  *)
(* the ways of Received its requests take and whenever the sweeper runs.   *)
(***************************************************************************)
THEOREM NoFloodAlways == Spec => []NoFlood
<1>1. IInv => NoFlood
  BY DEF IInv, FloodInv, Credit, NoFlood
<1>2. QED
  BY <1>1, Invariant, PTL

(***************************************************************************)
(* The sweeper forgets only buckets that nobody used for the idle time.    *)
(***************************************************************************)
THEOREM OnlyIdleForgottenAlways == Spec => OnlyIdleForgotten
<1> DEFINE Forgets == \A ip \in IPs :
                limiters[ip] # NoBucket /\ limiters'[ip] # limiters[ip] =>
                    touched \/ used[ip] + (IdleTTL - MaxLag) <= clock
<1>1. IInv /\ [Next]_vars => [Forgets]_vars
  <2>1. SUFFICES ASSUME IInv, Next, NEW ip \in IPs,
                        limiters[ip] # NoBucket, limiters'[ip] # limiters[ip]
                 PROVE  touched \/ used[ip] + (IdleTTL - MaxLag) <= clock
    OBVIOUS
  <2>2. SweepDelete
    <3>1. CASE \E h \in Handlers : HandlerStep(h)
      <4>1. PICK h \in Handlers : HandlerStep(h)
        BY <3>1
      <4>2. CASE Allow(h) \/ Fail(h) \/ Succeed(h) \/ ReadClock(h) \/ Leave(h)
        BY <2>1, <4>2 DEF Allow, Fail, Succeed, ReadClock, Leave, mapVars
      <4>3. CASE AllowLocked(h) \/ FailLocked(h)
        <5>1. UNCHANGED requestVars
          BY <2>1 DEF Next
        <5>2. CASE Moves(h)
          BY <2>1, <5>2 DEF Moves, mapVars
        <5>3. CASE \E b \in Buckets : Makes(h, b)
          BY <2>1, <5>3, MakesBuckets DEF Occupied
        <5>4. QED
          BY <2>1, <4>3, <5>1, <5>2, <5>3, LooksUpOrMakes
      <4>4. CASE Take(h) \/ RecordFailure(h) \/ RecordSuccess(h)
        BY <2>1, <4>4 DEF Take, RecordFailure, RecordSuccess, mapVars
      <4>5. QED
        BY <4>1, <4>2, <4>3, <4>4 DEF HandlerStep
    <3>2. CASE SweepTick \/ SweepLock \/ SweepUnlock \/ Tick
               \/ \E jp \in IPs : SweepVisit(jp)
      BY <2>1, <3>2 DEF SweepTick, SweepLock, SweepUnlock, SweepVisit, Tick, mapVars
    <3>3. QED
      BY <2>1, <3>1, <3>2 DEF Next, Sweeper
  <2>3. ip = target /\ sweepPc = "delete"
    BY <2>1, <2>2 DEF SweepDelete, IInv, TypeOK
  <2>4. QED
    BY <2>1, <2>3 DEF IInv, IdleInv
<1>2. QED
  BY <1>1, Invariant, PTL DEF Spec, OnlyIdleForgotten

=============================================================================
