-------------------------- MODULE AuthServer_proofs --------------------------
(***************************************************************************)
(* Proofs about AuthServer, for any number of requests, workers and users, *)
(* any queue capacity and any number of verification tokens.               *)
(***************************************************************************)
EXTENDS AuthServer, FiniteSetTheorems, TLAPS

-----------------------------------------------------------------------------
(* The inductive invariant *)

Hashing == {r \in Requests : hpc[r] = "hashing"}

(* verifyTokens counts the handlers that are computing a hash. *)
VerifyInv == verifyTokens = Cardinality(Hashing)

(* The update token is taken exactly while one worker is inside an update. *)
UpdateInv ==
    /\ \A w \in Workers : Updating(w) => tincToken = 1
    /\ \A v, w \in Workers : Updating(v) /\ Updating(w) => v = w
    /\ tincToken = 1 => \E w \in Workers : Updating(w)

(* Whatever a worker or the queue holds is a request that was enqueued. *)
Enqueued(r) == r \in Requests /\ hpc[r] \in {"await", "returned"}

JobInv ==
    /\ \A i \in 1..Len(jobs) : Enqueued(jobs[i])
    /\ \A w \in Workers : Busy(w) => Enqueued(job[w])

IInv == TypeOK /\ VerifyInv /\ UpdateInv /\ JobInv

LEMMA InitIInv == Init => IInv
<1> SUFFICES ASSUME Init PROVE IInv
  OBVIOUS
<1> USE DEF Init
<1>1. TypeOK
  <2>1. jobs \in Seq(Requests) /\ Len(jobs) <= JobsCap
    BY ConstantsOK DEF ConstantsOK
  <2>2. verifyTokens \in 0..VerifyCap /\ tincToken \in 0..1
    BY ConstantsOK DEF ConstantsOK
  <2>3. QED
    BY <2>1, <2>2 DEF TypeOK, HandlerPc, WorkerPc, MainPc, Messages, Responses
<1>2. VerifyInv
  <2>1. Hashing = {}
    BY DEF Hashing
  <2>2. QED
    BY <2>1, FS_EmptySet DEF VerifyInv
<1>3. UpdateInv
  BY DEF UpdateInv, Updating
<1>4. JobInv
  BY DEF JobInv, Busy
<1>5. QED
  BY <1>1, <1>2, <1>3, <1>4 DEF IInv

(***************************************************************************)
(* The handlers take and give back verification tokens, and turn a request *)
(* into a job.                                                             *)
(***************************************************************************)
LEMMA HandlerTypeOK ==
  ASSUME IInv, NEW r \in Requests, HandlerStep(r)
  PROVE  TypeOK'
<1> USE ConstantsOK DEF ConstantsOK, IInv, TypeOK, HandlerPc, Messages, Responses,
        queueVars, workerVars, fileVars, mainVars, Return
<1>1. CASE Refuse(r)
  BY <1>1 DEF Refuse
<1>2. CASE ParseOk(r)
  BY <1>2 DEF ParseOk
<1>3. CASE AcquireVerify(r)
  BY <1>3 DEF AcquireVerify
<1>4. CASE VerifyCancelled(r)
  BY <1>4 DEF VerifyCancelled
<1>5. CASE VerifyDone(r)
  <2>1. Hashing # {} /\ IsFiniteSet(Hashing)
    BY <1>5, FS_Subset DEF VerifyDone, Hashing
  <2>2. verifyTokens # 0
    BY <2>1, FS_EmptySet DEF VerifyInv
  <2>3. QED
    BY <1>5, <2>2 DEF VerifyDone
<1>6. CASE FailDelay(r)
  <2>1. CASE Return(r, "denied")
    BY <1>6, <2>1 DEF FailDelay
  <2>2. CASE r \in gone /\ Return(r, "none")
    BY <1>6, <2>2 DEF FailDelay
  <2>3. QED
    BY <1>6, <2>1, <2>2 DEF FailDelay
<1>7. CASE Enqueue(r)
  BY <1>7 DEF Enqueue
<1>8. CASE EnqueuePanic(r)
  BY <1>8 DEF EnqueuePanic
<1>9. CASE Receive(r)
  BY <1>9 DEF Receive
<1>10. CASE GiveUp(r)
  BY <1>10 DEF GiveUp
<1>11. QED
  BY <1>1, <1>2, <1>3, <1>4, <1>5, <1>6, <1>7, <1>8, <1>9, <1>10
     DEF HandlerStep

LEMMA EnvironmentTypeOK ==
  ASSUME IInv, NEW r \in Requests, Environment(r)
  PROVE  TypeOK'
<1> USE DEF IInv, TypeOK, HandlerPc, queueVars, workerVars, fileVars, mainVars
<1>1. CASE Arrive(r)
  BY <1>1 DEF Arrive, Returned
<1>2. CASE Disconnect(r)
  BY <1>2 DEF Disconnect
<1>3. CASE JobDeadline(r)
  BY <1>3 DEF JobDeadline
<1>4. QED
  BY <1>1, <1>2, <1>3 DEF Environment

LEMMA WorkerTypeOK ==
  ASSUME IInv, NEW w \in Workers, WorkerStep(w)
  PROVE  TypeOK'
<1> USE ConstantsOK DEF ConstantsOK, IInv, TypeOK, WorkerPc, Messages,
        handlerVars, queueVars, fileVars, mainVars, GoTo, Forget, CloseTx,
        ThenDeliver, ReleaseToken
<1>1. CASE Dequeue(w)
  BY <1>1 DEF Dequeue
<1>2. CASE WorkerExit(w)
  BY <1>2 DEF WorkerExit
<1>3. CASE CheckJob(w)
  <2>1. CASE Forget(w)
    BY <1>3, <2>1 DEF CheckJob
  <2>2. CASE ThenDeliver(w, "notfound") /\ UNCHANGED job
    BY <1>3, <2>2 DEF CheckJob
  <2>3. CASE GoTo(w, "acquire") /\ UNCHANGED <<job, wmsg>>
    BY <1>3, <2>3 DEF CheckJob
  <2>4. QED
    BY <1>3, <2>1, <2>2, <2>3 DEF CheckJob
<1>4. CASE AcquireToken(w)
  BY <1>4 DEF AcquireToken
<1>5. CASE AcquireCancelled(w)
  BY <1>5 DEF AcquireCancelled
<1>6. CASE Recheck(w)
  <2>1. CASE CtxDone(job[w])
    <3>1. tincToken = 1
      BY <1>6 DEF Recheck, UpdateInv, Updating
    <3>2. QED
      BY <1>6, <2>1, <3>1 DEF Recheck
  <2>2. CASE ~ CtxDone(job[w])
    BY <1>6, <2>2 DEF Recheck
  <2>3. QED
    BY <2>1, <2>2
<1>7. CASE WriteHost(w)
  BY <1>7 DEF WriteHost, JobInv, Busy, Enqueued
<1>8. CASE WriteFails(w)
  BY <1>8 DEF WriteFails, UpdateInv, Updating, JobInv, Busy, Enqueued
<1>9. CASE Commit(w)
  BY <1>9 DEF Commit, UpdateInv, Updating, JobInv, Busy, Enqueued
<1>10. CASE ReloadFails(w)
  BY <1>10 DEF ReloadFails, UpdateInv, Updating, JobInv, Busy, Enqueued
<1>11. CASE Deliver(w)
  BY <1>11 DEF Deliver
<1>12. QED
  BY <1>1, <1>2, <1>3, <1>4, <1>5, <1>6, <1>7, <1>8, <1>9, <1>10, <1>11
     DEF WorkerStep

LEMMA MainTypeOK ==
  ASSUME IInv, Signal \/ MainStep \/ MainTimeout
  PROVE  TypeOK'
<1> USE DEF IInv, TypeOK, MainPc, handlerVars, queueVars, workerVars,
        fileVars, MainGoTo
<1>1. CASE Signal
  BY <1>1 DEF Signal
<1>2. CASE DrainDone
  BY <1>2 DEF DrainDone
<1>3. CASE DrainTimeout
  BY <1>3 DEF DrainTimeout
<1>4. CASE CloseJobs
  BY <1>4 DEF CloseJobs
<1>5. CASE WorkersDone \/ WorkersTimeout
  BY <1>5 DEF WorkersDone, WorkersTimeout
<1>6. ASSUME NEW s \in {"limiter", "nonce"}, SweeperExit(s)
      PROVE  TypeOK'
  BY <1>6 DEF SweeperExit
<1>7. CASE Exit \/ ExitTimeout
  BY <1>7 DEF Exit, ExitTimeout
<1>8. QED
  BY <1>1, <1>2, <1>3, <1>4, <1>5, <1>6, <1>7 DEF MainStep, MainTimeout

(* A handler changes verifyTokens exactly when it begins or ends a hash. *)
LEMMA HandlerVerifyInv ==
  ASSUME IInv, NEW r \in Requests, HandlerStep(r)
  PROVE  VerifyInv'
<1> USE DEF IInv, TypeOK, VerifyInv, Return
<1>1. IsFiniteSet(Hashing) /\ Cardinality(Hashing) \in Nat
  BY ConstantsOK, FS_Subset, FS_CardinalityType DEF ConstantsOK, Hashing
<1>2. CASE AcquireVerify(r)
  <2>1. Hashing' = Hashing \cup {r} /\ r \notin Hashing
    BY <1>2 DEF AcquireVerify, Hashing
  <2>2. QED
    BY <1>1, <1>2, <2>1, FS_AddElement DEF AcquireVerify
<1>3. CASE VerifyDone(r)
  <2>1. Hashing' = Hashing \ {r} /\ r \in Hashing
    BY <1>3 DEF VerifyDone, Hashing
  <2>2. QED
    BY <1>1, <1>3, <2>1, FS_RemoveElement DEF VerifyDone
<1>4. ASSUME verifyTokens' = verifyTokens,
             \A q \in Requests : hpc'[q] = "hashing" <=> hpc[q] = "hashing"
      PROVE  VerifyInv'
  BY <1>4 DEF Hashing
<1>5. CASE Refuse(r) \/ ParseOk(r) \/ VerifyCancelled(r)
  BY <1>4, <1>5 DEF Refuse, ParseOk, VerifyCancelled
<1>6. CASE FailDelay(r) \/ Enqueue(r) \/ EnqueuePanic(r)
  BY <1>4, <1>6 DEF FailDelay, Enqueue, EnqueuePanic
<1>7. CASE Receive(r) \/ GiveUp(r)
  BY <1>4, <1>7 DEF Receive, GiveUp
<1>8. QED
  BY <1>2, <1>3, <1>5, <1>6, <1>7 DEF HandlerStep

(***************************************************************************)
(* Every path of updateTinc that takes the update token gives it back      *)
(* once, and no worker gets into an update without it.                     *)
(***************************************************************************)
LEMMA WorkerUpdateInv ==
  ASSUME IInv, NEW w \in Workers, WorkerStep(w)
  PROVE  UpdateInv'
<1> USE DEF IInv, TypeOK, WorkerPc, UpdateInv, Updating, GoTo, Forget,
        ThenDeliver, ReleaseToken, fileVars
<1>1. CASE Dequeue(w) \/ WorkerExit(w) \/ CheckJob(w)
  BY <1>1 DEF Dequeue, WorkerExit, CheckJob
<1>2. CASE AcquireToken(w)
  BY <1>2 DEF AcquireToken
<1>3. CASE AcquireCancelled(w) \/ Deliver(w)
  BY <1>3 DEF AcquireCancelled, Deliver
<1>4. CASE Recheck(w)
  BY <1>4 DEF Recheck
<1>5. CASE WriteHost(w)
  BY <1>5 DEF WriteHost
<1>6. CASE WriteFails(w)
  BY <1>6 DEF WriteFails
<1>7. CASE Commit(w) \/ ReloadFails(w)
  BY <1>7 DEF Commit, ReloadFails
<1>8. QED
  BY <1>1, <1>2, <1>3, <1>4, <1>5, <1>6, <1>7 DEF WorkerStep

(* What a queue holds after an element was added or taken. *)
LEMMA AppendElements ==
  ASSUME NEW S, NEW q \in Seq(S), NEW e \in S
  PROVE  /\ Append(q, e) \in Seq(S)
         /\ \A i \in 1..Len(Append(q, e)) :
               Append(q, e)[i] = e \/ (i \in 1..Len(q) /\ Append(q, e)[i] = q[i])
<1>1. Append(q, e) \in Seq(S) /\ Len(Append(q, e)) = Len(q) + 1
  OBVIOUS
<1>2. ASSUME NEW i \in 1..(Len(q) + 1)
      PROVE  Append(q, e)[i] = e \/ (i \in 1..Len(q) /\ Append(q, e)[i] = q[i])
  <2>1. CASE i = Len(q) + 1
    BY <2>1
  <2>2. CASE i # Len(q) + 1
    <3>1. i \in 1..Len(q)
      BY <2>2
    <3>2. QED
      BY <3>1
  <2>3. QED
    BY <2>1, <2>2
<1>3. QED
  BY <1>1, <1>2

LEMMA TailElements ==
  ASSUME NEW S, NEW q \in Seq(S), q # <<>>
  PROVE  /\ 1 \in 1..Len(q) /\ Head(q) = q[1]
         /\ \A i \in 1..Len(Tail(q)) : i + 1 \in 1..Len(q) /\ Tail(q)[i] = q[i + 1]
  OBVIOUS

(* A request that was enqueued stays enqueued or has returned. *)
LEMMA HandlerJobInv ==
  ASSUME IInv, NEW r \in Requests, HandlerStep(r)
  PROVE  JobInv'
<1> USE DEF IInv, TypeOK, JobInv, Busy, Enqueued, Return, queueVars, workerVars
<1>1. \A q \in Requests : Enqueued(q) => Enqueued(q)'
  BY DEF HandlerStep, Refuse, ParseOk, AcquireVerify, VerifyCancelled,
         VerifyDone, FailDelay, Enqueue, EnqueuePanic, Receive, GiveUp
<1>2. UNCHANGED <<wpc, job>>
  BY DEF HandlerStep, Refuse, ParseOk, AcquireVerify, VerifyCancelled,
         VerifyDone, FailDelay, Enqueue, EnqueuePanic, Receive, GiveUp
<1>3. CASE Enqueue(r)
  <2>1. \A i \in 1..Len(jobs') :
           jobs'[i] = r \/ (i \in 1..Len(jobs) /\ jobs'[i] = jobs[i])
    BY <1>3, AppendElements DEF Enqueue
  <2>2. Enqueued(r)'
    BY <1>3 DEF Enqueue
  <2>3. (\A i \in 1..Len(jobs) : Enqueued(jobs[i]))'
    BY <1>1, <2>1, <2>2
  <2>4. QED
    BY <1>1, <1>2, <2>3
<1>4. CASE ~ Enqueue(r)
  <2>1. UNCHANGED jobs
    BY <1>4 DEF HandlerStep, Refuse, ParseOk, AcquireVerify, VerifyCancelled,
           VerifyDone, FailDelay, EnqueuePanic, Receive, GiveUp
  <2>2. QED
    BY <1>1, <1>2, <2>1
<1>5. QED
  BY <1>3, <1>4

LEMMA WorkerJobInv ==
  ASSUME IInv, NEW w \in Workers, WorkerStep(w)
  PROVE  JobInv'
<1> USE DEF IInv, TypeOK, JobInv, Busy, Enqueued, GoTo, Forget, ThenDeliver,
        handlerVars, queueVars
<1>1. CASE Dequeue(w)
  <2>1. Enqueued(Head(jobs)) /\ \A i \in 1..Len(jobs') : Enqueued(jobs'[i])
    BY <1>1, TailElements DEF Dequeue
  <2>2. QED
    BY <1>1, <2>1 DEF Dequeue
<1>2. CASE WorkerExit(w) \/ CheckJob(w) \/ Deliver(w)
  BY <1>2 DEF WorkerExit, CheckJob, Deliver
<1>3. CASE AcquireToken(w) \/ AcquireCancelled(w) \/ Recheck(w)
  BY <1>3 DEF AcquireToken, AcquireCancelled, Recheck
<1>4. CASE WriteHost(w) \/ WriteFails(w)
  BY <1>4 DEF WriteHost, WriteFails
<1>5. CASE Commit(w) \/ ReloadFails(w)
  BY <1>5 DEF Commit, ReloadFails
<1>6. QED
  BY <1>1, <1>2, <1>3, <1>4, <1>5 DEF WorkerStep

LEMMA NextIInv == IInv /\ [Next]_vars => IInv'
<1> SUFFICES ASSUME IInv, [Next]_vars PROVE IInv'
  OBVIOUS
<1>1. ASSUME NEW r \in Requests, HandlerStep(r)
      PROVE  IInv'
  <2>1. UNCHANGED <<wpc, tincToken>>
    BY <1>1 DEF HandlerStep, Refuse, ParseOk, AcquireVerify, VerifyCancelled,
       VerifyDone, FailDelay, Enqueue, EnqueuePanic, Receive, GiveUp,
       workerVars, fileVars
  <2>2. UpdateInv'
    BY <2>1 DEF IInv, UpdateInv, Updating
  <2>3. QED
    BY <1>1, <2>2, HandlerTypeOK, HandlerVerifyInv, HandlerJobInv DEF IInv
<1>2. ASSUME NEW r \in Requests, Environment(r)
      PROVE  IInv'
  <2>1. /\ UNCHANGED <<verifyTokens, wpc, job, tincToken, jobs>>
        /\ \A q \in Requests : hpc'[q] = "hashing" <=> hpc[q] = "hashing"
        /\ \A q \in Requests : Enqueued(q) => Enqueued(q)'
    BY <1>2 DEF IInv, TypeOK, Environment, Arrive, Disconnect, JobDeadline,
       Enqueued, queueVars, workerVars, fileVars
  <2>2. VerifyInv'
    BY <2>1 DEF IInv, VerifyInv, Hashing
  <2>3. UpdateInv'
    BY <2>1 DEF IInv, UpdateInv, Updating
  <2>4. JobInv'
    BY <2>1 DEF IInv, TypeOK, JobInv, Busy, Enqueued
  <2>5. QED
    BY <1>2, <2>2, <2>3, <2>4, EnvironmentTypeOK DEF IInv
<1>3. ASSUME NEW w \in Workers, WorkerStep(w)
      PROVE  IInv'
  <2>1. UNCHANGED handlerVars
    BY <1>3 DEF WorkerStep, Dequeue, WorkerExit, CheckJob, AcquireToken,
       AcquireCancelled, Recheck, WriteHost, WriteFails, Commit, ReloadFails,
       Deliver
  <2>2. VerifyInv'
    BY <2>1 DEF IInv, VerifyInv, Hashing, handlerVars
  <2>3. QED
    BY <1>3, <2>2, WorkerTypeOK, WorkerUpdateInv, WorkerJobInv DEF IInv
<1>4. CASE Signal \/ MainStep \/ MainTimeout
  <2>1. UNCHANGED <<hpc, verifyTokens, jobs, wpc, job, tincToken>>
    BY <1>4 DEF Signal, MainStep, MainTimeout, DrainDone, DrainTimeout,
       CloseJobs, WorkersDone, WorkersTimeout, SweeperExit, Exit, ExitTimeout,
       handlerVars, queueVars, workerVars, fileVars
  <2>2. VerifyInv' /\ UpdateInv' /\ JobInv'
    BY <2>1 DEF IInv, VerifyInv, Hashing, UpdateInv, Updating, JobInv, Busy,
       Enqueued
  <2>3. QED
    BY <1>4, <2>2, MainTypeOK DEF IInv
<1>5. CASE UNCHANGED vars
  BY <1>5 DEF IInv, TypeOK, VerifyInv, Hashing, UpdateInv, Updating, JobInv,
     Busy, Enqueued, vars, handlerVars, queueVars, workerVars, fileVars, mainVars
<1>6. QED
  BY <1>1, <1>2, <1>3, <1>4, <1>5 DEF Next, Ended

LEMMA Invariant == Spec => []IInv
  BY InitIInv, NextIInv, PTL DEF Spec

-----------------------------------------------------------------------------
(***************************************************************************)
(* The variables of the server always have their types; in particular a    *)
(* verification or update token is never given back that was not taken.    *)
(***************************************************************************)
THEOREM TypeCorrect == Spec => []TypeOK
<1>1. IInv => TypeOK
  BY DEF IInv
<1>2. QED
  BY <1>1, Invariant, PTL

(***************************************************************************)
(* No path of verifyPasswordContext or updateTinc loses a token or gives   *)
(* one back twice: the channels hold as many as there are goroutines       *)
(* between acquiring and releasing.                                        *)
(***************************************************************************)
THEOREM TokensCorrect == Spec => []TokensAccounted
<1>1. ASSUME IInv PROVE TokensAccounted
  <2> DEFINE U == {w \in Workers : Updating(w)}
  <2>1. CASE tincToken = 0
    <3>1. U = {}
      BY <1>1, <2>1 DEF IInv, UpdateInv
    <3>2. QED
      BY <1>1, <2>1, <3>1, FS_EmptySet
         DEF IInv, VerifyInv, Hashing, TokensAccounted
  <2>2. CASE tincToken = 1
    <3>1. PICK w \in Workers : U = {w}
      BY <1>1, <2>2 DEF IInv, UpdateInv
    <3>2. QED
      BY <1>1, <2>2, <3>1, FS_Singleton
         DEF IInv, VerifyInv, Hashing, TokensAccounted
  <2>3. QED
    BY <1>1, <2>1, <2>2 DEF IInv, TypeOK
<1>2. QED
  BY <1>1, Invariant, PTL

-----------------------------------------------------------------------------
(***************************************************************************)
(* Rollbacks and late updates.  HostInv strengthens HostSettled by what an *)
(* open transaction has put in place.  FreshInv says why an update that is *)
(* under way cannot be outdated: when it looked at its context the request *)
(* had not returned, so no request that had arrived by then came after it, *)
(* and while the worker has the token no other key is registered.          *)
(***************************************************************************)
HostInv ==
    /\ HostSettled
    /\ \A w \in Workers : wpc[w] = "reload" => host[UserOf[job[w]]] = job[w]

FreshInv ==
    /\ \A q \in Requests : before[q] \subseteq Returned
    /\ \A q \in registered : Enqueued(q)
    /\ \A w \in Workers, q \in registered :
          wpc[w] \in {"write", "reload"} => job[w] \notin before[q]

LEMMA InitFresh == Init => HostInv /\ FreshInv
  BY DEF Init, HostInv, HostSettled, FreshInv

LEMMA WorkerHostInv ==
  ASSUME IInv, HostInv, NEW w \in Workers, WorkerStep(w)
  PROVE  HostInv'
<1> USE DEF IInv, TypeOK, UpdateInv, Updating, HostInv, HostSettled, GoTo,
        ThenDeliver, fileVars
<1>1. CASE Dequeue(w) \/ WorkerExit(w)
  BY <1>1 DEF Dequeue, WorkerExit
<1>2. CASE CheckJob(w) \/ Deliver(w)
  BY <1>2 DEF CheckJob, Deliver, Forget
<1>3. CASE AcquireToken(w) \/ AcquireCancelled(w) \/ Recheck(w)
  BY <1>3 DEF AcquireToken, AcquireCancelled, Recheck
<1>4. CASE WriteHost(w)
  BY <1>4, ConstantsOK DEF WriteHost, JobInv, Busy, Enqueued, ConstantsOK
<1>5. CASE WriteFails(w)
  BY <1>5, ConstantsOK DEF WriteFails, JobInv, Busy, Enqueued, ConstantsOK
<1>6. CASE Commit(w)
  BY <1>6, ConstantsOK DEF Commit, CloseTx, JobInv, Busy, Enqueued, ConstantsOK
<1>7. CASE ReloadFails(w)
  BY <1>7, ConstantsOK
     DEF ReloadFails, CloseTx, JobInv, Busy, Enqueued, ConstantsOK
<1>8. QED
  BY <1>1, <1>2, <1>3, <1>4, <1>5, <1>6, <1>7 DEF WorkerStep

LEMMA WorkerFreshInv ==
  ASSUME IInv, FreshInv, NEW w \in Workers, WorkerStep(w)
  PROVE  FreshInv'
<1> USE DEF IInv, TypeOK, UpdateInv, Updating, FreshInv, Enqueued, Returned,
        GoTo, ThenDeliver, handlerVars, fileVars
<1>1. CASE Dequeue(w) \/ WorkerExit(w)
  BY <1>1 DEF Dequeue, WorkerExit
<1>2. CASE CheckJob(w) \/ Deliver(w)
  BY <1>2 DEF CheckJob, Deliver, Forget
<1>3. CASE AcquireToken(w) \/ AcquireCancelled(w)
  BY <1>3 DEF AcquireToken, AcquireCancelled
<1>4. CASE Recheck(w)
  BY <1>4 DEF Recheck, CtxDone, JobInv, Busy
<1>5. CASE WriteHost(w) \/ WriteFails(w)
  BY <1>5 DEF WriteHost, WriteFails
<1>6. CASE Commit(w)
  BY <1>6 DEF Commit, JobInv, Busy
<1>7. CASE ReloadFails(w)
  BY <1>7 DEF ReloadFails, JobInv, Busy
<1>8. QED
  BY <1>1, <1>2, <1>3, <1>4, <1>5, <1>6, <1>7 DEF WorkerStep

LEMMA NextFresh ==
  IInv /\ HostInv /\ FreshInv /\ [Next]_vars => HostInv' /\ FreshInv'
<1> SUFFICES ASSUME IInv, HostInv, FreshInv, [Next]_vars
             PROVE  HostInv' /\ FreshInv'
  OBVIOUS
<1>1. ASSUME UNCHANGED <<wpc, job, backup, host, settled, registered>>
      PROVE  HostInv'
  BY <1>1 DEF HostInv, HostSettled
<1>2. ASSUME NEW r \in Requests, HandlerStep(r)
      PROVE  HostInv' /\ FreshInv'
  <2>1. /\ UNCHANGED <<wpc, job, backup, host, settled, registered, before>>
        /\ \A q \in Requests : Enqueued(q) => Enqueued(q)'
        /\ Returned \subseteq Returned'
    BY <1>2 DEF IInv, TypeOK, HandlerStep, Refuse, ParseOk, AcquireVerify,
       VerifyCancelled, VerifyDone, FailDelay, Enqueue, EnqueuePanic, Receive,
       GiveUp, Return, Enqueued, Returned, workerVars, fileVars
  <2>2. FreshInv'
    BY <2>1 DEF FreshInv, Enqueued
  <2>3. QED
    BY <1>1, <2>1, <2>2
<1>3. ASSUME NEW r \in Requests, Environment(r)
      PROVE  HostInv' /\ FreshInv'
  <2>1. /\ UNCHANGED <<wpc, job, backup, host, settled, registered>>
        /\ \A q \in Requests : Enqueued(q) => Enqueued(q)'
        /\ Returned' = Returned
    BY <1>3 DEF IInv, TypeOK, Environment, Arrive, Disconnect, JobDeadline,
       Enqueued, Returned, workerVars, fileVars
  <2>2. CASE Arrive(r)
    <3>1. r \notin registered
      BY <2>2 DEF Arrive, FreshInv, Enqueued
    <3>2. /\ before'[r] = Returned
          /\ \A q \in Requests \ {r} : before'[q] = before[q]
      BY <2>2 DEF IInv, TypeOK, Arrive
    <3>3. FreshInv'
      BY <2>1, <3>1, <3>2 DEF IInv, TypeOK, FreshInv, Enqueued
    <3>4. QED
      BY <1>1, <2>1, <3>3
  <2>3. CASE Disconnect(r) \/ JobDeadline(r)
    <3>1. UNCHANGED before
      BY <2>3 DEF Disconnect, JobDeadline
    <3>2. FreshInv'
      BY <2>1, <3>1 DEF FreshInv, Enqueued
    <3>3. QED
      BY <1>1, <2>1, <3>2
  <2>4. QED
    BY <1>3, <2>2, <2>3 DEF Environment
<1>4. ASSUME NEW w \in Workers, WorkerStep(w)
      PROVE  HostInv' /\ FreshInv'
  BY <1>4, WorkerHostInv, WorkerFreshInv
<1>5. CASE (Signal \/ MainStep \/ MainTimeout) \/ UNCHANGED vars
  <2>1. UNCHANGED <<hpc, before, wpc, job, backup, host, settled, registered>>
    BY <1>5 DEF Signal, MainStep, MainTimeout, DrainDone, DrainTimeout,
       CloseJobs, WorkersDone, WorkersTimeout, SweeperExit, Exit, ExitTimeout,
       vars, handlerVars, queueVars, workerVars, fileVars
  <2>2. QED
    BY <1>1, <2>1 DEF FreshInv, Enqueued, Returned
<1>6. QED
  BY <1>2, <1>3, <1>4, <1>5 DEF Next, Ended

LEMMA Fresh == Spec => [](HostInv /\ FreshInv)
  BY InitFresh, NextFresh, Invariant, PTL DEF Spec

(***************************************************************************)
(* Outside a transaction a host file holds what the last closed one left,  *)
(* and the backup of an open transaction is that content, so that          *)
(* tx.rollback() undoes its own update and nothing else.                   *)
(***************************************************************************)
THEOREM HostSettledAlways == Spec => []HostSettled
<1>1. HostInv => HostSettled
  BY DEF HostInv
<1>2. QED
  BY <1>1, Fresh, PTL

(***************************************************************************)
(* A request that was over before a newer request of the same user arrived *)
(* never replaces the newer key: updateTinc's second look at ctx.Err()     *)
(* under the update token is enough, for any number of workers.            *)
(***************************************************************************)
THEOREM NeverStale == Spec => NoStaleOverwrite
<1> DEFINE Fresher == \A u \in Users :
             settled'[u] \notin {settled[u], NoRequest} => ~ Outdated(settled'[u])
<1>1. ASSUME IInv, HostInv, FreshInv, [Next]_vars
      PROVE  [Fresher]_vars
  <2> SUFFICES ASSUME NEW u \in Users, settled'[u] \notin {settled[u], NoRequest}
               PROVE  ~ Outdated(settled'[u])
    OBVIOUS
  <2>1. PICK w \in Workers : WriteFails(w) \/ Commit(w) \/ ReloadFails(w)
    <3>1. settled' # settled
      OBVIOUS
    <3>2. QED
      BY <1>1, <3>1 DEF Next, Ended, HandlerStep, Refuse, ParseOk,
         AcquireVerify, VerifyCancelled, VerifyDone, FailDelay, Enqueue,
         EnqueuePanic, Receive, GiveUp, Environment, Arrive, Disconnect,
         JobDeadline, WorkerStep, Dequeue, WorkerExit, CheckJob, AcquireToken,
         AcquireCancelled, Recheck, WriteHost, Deliver, Signal, MainStep,
         MainTimeout, DrainDone, DrainTimeout, CloseJobs, WorkersDone,
         WorkersTimeout, SweeperExit, Exit, ExitTimeout, vars, fileVars
  <2>2. settled'[u] = job[w] /\ wpc[w] = "reload"
    <3>1. CASE WriteFails(w)
      BY <1>1, <2>1, <3>1 DEF WriteFails, IInv, TypeOK, UpdateInv, Updating,
         HostInv, HostSettled
    <3>2. CASE Commit(w)
      BY <1>1, <3>2 DEF Commit, IInv, TypeOK
    <3>3. CASE ReloadFails(w)
      BY <1>1, <3>3 DEF ReloadFails, IInv, TypeOK, HostInv, HostSettled
    <3>4. QED
      BY <2>1, <3>1, <3>2, <3>3
  <2>3. QED
    BY <1>1, <2>2 DEF FreshInv, Outdated
<1>2. QED
  BY <1>1, Invariant, Fresh, PTL DEF Spec, NoStaleOverwrite

-----------------------------------------------------------------------------
(* Shutdown.  After a graceful drain no handler is active any more. *)

DrainInv ==
    /\ mainPc \notin {"serving", "draining"} /\ ~ forced => Active = {}
    /\ jobsClosed => mainPc \notin {"serving", "draining"}
    /\ \A r \in Requests : resp[r] = "panic" => forced

LEMMA InitDrain == Init => DrainInv
  BY DEF Init, DrainInv

LEMMA NextDrain == IInv /\ DrainInv /\ [Next]_vars => DrainInv'
<1> SUFFICES ASSUME IInv, DrainInv, [Next]_vars PROVE DrainInv'
  OBVIOUS
<1>1. ASSUME NEW r \in Requests, HandlerStep(r)
      PROVE  DrainInv'
  <2>1. /\ UNCHANGED <<mainPc, forced, jobsClosed>>
        /\ Active' \subseteq Active
    BY <1>1 DEF IInv, TypeOK, HandlerStep, Refuse, ParseOk, AcquireVerify,
       VerifyCancelled, VerifyDone, FailDelay, Enqueue, EnqueuePanic, Receive,
       GiveUp, Return, Active, mainVars, queueVars
  <2>2. ASSUME NEW q \in Requests, resp'[q] = "panic"
        PROVE  forced
    <3>1. CASE EnqueuePanic(r)
      BY <3>1, <2>2 DEF IInv, TypeOK, EnqueuePanic, Return, DrainInv, Active
    <3>2. CASE ~ EnqueuePanic(r)
      <4>1. resp[q] = "panic"
        BY <1>1, <2>2, <3>2 DEF IInv, TypeOK, Messages, HandlerStep, Refuse,
           ParseOk, AcquireVerify, VerifyCancelled, VerifyDone, FailDelay,
           Enqueue, Receive, GiveUp, Return
      <4>2. QED
        BY <4>1 DEF DrainInv
    <3>3. QED
      BY <3>1, <3>2
  <2>3. QED
    BY <2>1, <2>2 DEF DrainInv
<1>2. ASSUME NEW r \in Requests, Environment(r)
      PROVE  DrainInv'
  <2>1. UNCHANGED <<mainPc, forced, jobsClosed, resp>>
    BY <1>2 DEF Environment, Arrive, Disconnect, JobDeadline, mainVars, queueVars
  <2>2. mainPc \in {"serving", "draining"} \/ UNCHANGED hpc
    BY <1>2 DEF Environment, Arrive, Disconnect, JobDeadline
  <2>3. QED
    BY <2>1, <2>2 DEF DrainInv, Active
<1>3. ASSUME NEW w \in Workers, WorkerStep(w)
      PROVE  DrainInv'
  <2>1. UNCHANGED <<mainPc, forced, jobsClosed, resp, hpc>>
    BY <1>3 DEF WorkerStep, Dequeue, WorkerExit, CheckJob, AcquireToken,
       AcquireCancelled, Recheck, WriteHost, WriteFails, Commit, ReloadFails,
       Deliver, mainVars, queueVars, handlerVars
  <2>2. QED
    BY <2>1 DEF DrainInv, Active
<1>4. CASE Signal \/ MainStep \/ MainTimeout
  <2>1. UNCHANGED <<hpc, resp>>
    BY <1>4 DEF Signal, MainStep, MainTimeout, DrainDone, DrainTimeout,
       CloseJobs, WorkersDone, WorkersTimeout, SweeperExit, Exit, ExitTimeout,
       handlerVars
  <2>2. QED
    BY <1>4, <2>1 DEF Signal, MainStep, MainTimeout, DrainDone, DrainTimeout,
       CloseJobs, WorkersDone, WorkersTimeout, SweeperExit, Exit, ExitTimeout,
       MainGoTo, queueVars, DrainInv, Active
<1>5. CASE UNCHANGED vars
  BY <1>5 DEF DrainInv, Active, vars, handlerVars, queueVars, mainVars
<1>6. QED
  BY <1>1, <1>2, <1>3, <1>4, <1>5 DEF Next, Ended

LEMMA Drained == Spec => []DrainInv
  BY InitDrain, NextDrain, Invariant, PTL DEF Spec

(***************************************************************************)
(* Jobs is never closed under a handler that may send on it, and nobody is *)
(* answered 500 by such a send, unless Shutdown failed.                    *)
(***************************************************************************)
THEOREM CloseIsGraceful == Spec => []GracefulClose
<1>1. DrainInv => GracefulClose
  BY DEF DrainInv, GracefulClose
<1>2. QED
  BY <1>1, Drained, PTL

(***************************************************************************)
(* After an orderly Shutdown no handler is active when Jobs is closed and  *)
(* no worker starts an update any more, however many jobs are left:        *)
(* those jobs' handlers have returned, and the worker looks at their       *)
(* contexts.                                                               *)
(***************************************************************************)
THEOREM ShutdownIsOrderly == Spec => OrderlyShutdown
<1>1. ASSUME IInv, DrainInv, [Next]_vars
      PROVE  [NoUpdateStarts]_vars
  <2> SUFFICES ASSUME NEW w \in Workers, wpc[w] # "write", wpc'[w] = "write"
               PROVE  mainPc \in {"serving", "draining"} \/ forced
    BY DEF NoUpdateStarts
  <2>1. wpc' # wpc
    OBVIOUS
  <2>2. PICK v \in Workers : WorkerStep(v)
    BY <1>1, <2>1 DEF Next, Ended, HandlerStep, Refuse, ParseOk,
       AcquireVerify, VerifyCancelled, VerifyDone, FailDelay, Enqueue,
       EnqueuePanic, Receive, GiveUp, Environment, Arrive, Disconnect,
       JobDeadline, Signal, MainStep, MainTimeout, DrainDone, DrainTimeout,
       CloseJobs, WorkersDone, WorkersTimeout, SweeperExit, Exit, ExitTimeout,
       vars, workerVars
  <2>3. Recheck(w) /\ ~ CtxDone(job[w])
    BY <1>1, <2>2 DEF IInv, TypeOK, WorkerStep, Dequeue, WorkerExit, CheckJob,
       AcquireToken, AcquireCancelled, Recheck, WriteHost, WriteFails, Commit,
       ReloadFails, Deliver, GoTo, Forget, ThenDeliver
  <2>4. job[w] \in Active
    BY <1>1, <2>3 DEF IInv, JobInv, Busy, Enqueued, Recheck, CtxDone, Returned,
       Active
  <2>5. QED
    BY <1>1, <2>4 DEF DrainInv
<1>2. GracefulClose' /\ [NoUpdateStarts]_vars => [GracefulClose' /\ NoUpdateStarts]_vars
  OBVIOUS
<1>3. QED
  BY <1>1, <1>2, Invariant, Drained, CloseIsGraceful, PTL DEF Spec, OrderlyShutdown

-----------------------------------------------------------------------------
(* The steps of handlers, clients and main, as the workers see them. *)

LEMMA HandlerFrame ==
  ASSUME IInv, NEW r \in Requests, HandlerStep(r)
  PROVE  /\ UNCHANGED <<wpc, job, wmsg, settled, registered, before, jobsClosed>>
         /\ \A q \in Requests : Enqueued(q) => Enqueued(q)'
         /\ \A q \in Requests : data'[q] # "none" => data'[q] = data[q]
         /\ UNCHANGED jobs \/ Enqueue(r)
<1> USE DEF IInv, TypeOK, Enqueued, Return, queueVars, workerVars, fileVars
<1>1. CASE Refuse(r) \/ ParseOk(r) \/ AcquireVerify(r)
  BY <1>1 DEF Refuse, ParseOk, AcquireVerify
<1>2. CASE VerifyCancelled(r) \/ VerifyDone(r) \/ FailDelay(r)
  BY <1>2 DEF VerifyCancelled, VerifyDone, FailDelay
<1>3. CASE Enqueue(r) \/ EnqueuePanic(r)
  BY <1>3 DEF Enqueue, EnqueuePanic
<1>4. CASE Receive(r) \/ GiveUp(r)
  BY <1>4 DEF Receive, GiveUp
<1>5. QED
  BY <1>1, <1>2, <1>3, <1>4 DEF HandlerStep

LEMMA EnvironmentFrame ==
  ASSUME IInv, NEW r \in Requests, Environment(r)
  PROVE  /\ UNCHANGED <<resp, queueVars, workerVars, fileVars>>
         /\ \A q \in Requests : Enqueued(q) <=> Enqueued(q)'
         /\ \A q \in Requests : hpc'[q] = "returned" <=> hpc[q] = "returned"
         /\ \A q \in Requests : hpc'[q] = "await" <=> hpc[q] = "await"
         /\ \A q \in Requests : CtxDone(q) => CtxDone(q)'
         /\ Arrive(r) \/ UNCHANGED <<hpc, before>>
  BY DEF IInv, TypeOK, Environment, Arrive, Disconnect, JobDeadline, Enqueued,
     CtxDone, Returned

LEMMA MainFrame ==
  ASSUME Signal \/ MainStep \/ MainTimeout
  PROVE  /\ UNCHANGED <<handlerVars, jobs, data, workerVars, fileVars>>
         /\ jobsClosed => jobsClosed'
  BY DEF Signal, MainStep, MainTimeout, DrainDone, DrainTimeout, CloseJobs,
     WorkersDone, WorkersTimeout, SweeperExit, Exit, ExitTimeout, queueVars

(* The queue after an element was added or taken, place by place. *)
LEMMA AppendedQueue ==
  ASSUME NEW S, NEW q \in Seq(S), NEW e \in S
  PROVE  /\ Len(Append(q, e)) = Len(q) + 1
         /\ \A i \in 1..Len(q) : Append(q, e)[i] = q[i]
         /\ Append(q, e)[Len(q) + 1] = e
  OBVIOUS

LEMMA TailOfQueue ==
  ASSUME NEW S, NEW q \in Seq(S), q # <<>>
  PROVE  Len(Tail(q)) = Len(q) - 1
  OBVIOUS

-----------------------------------------------------------------------------
(***************************************************************************)
(* Ownership of jobs.  A registered request's job is past its update,      *)
(* without which "registered at most once" would not be inductive.         *)
(***************************************************************************)
InQueue == {jobs[i] : i \in 1..Len(jobs)}

OwnInv ==
    /\ \A i, j \in 1..Len(jobs) : jobs[i] = jobs[j] => i = j
    /\ \A v, w \in Workers : Busy(v) /\ Busy(w) /\ job[v] = job[w] => v = w
    /\ \A w \in Workers : Busy(w) => job[w] \notin InQueue
    /\ \A w \in Workers : ~ Busy(w) => job[w] = NoRequest
    /\ \A r \in Requests :
          data[r] # "none" =>
              /\ Enqueued(r)
              /\ r \notin InQueue
              /\ \A w \in Workers : job[w] # r
    /\ \A r \in registered :
          /\ Enqueued(r)
          /\ r \notin InQueue
          /\ \A w \in Workers : job[w] = r => wpc[w] = "deliver"

LEMMA InitOwn == Init => OwnInv
  BY DEF Init, OwnInv, Busy, InQueue

(* A request that is added to the queue is new to it, to workers and data. *)
LEMMA HandlerOwn ==
  ASSUME IInv, OwnInv, NEW r \in Requests, HandlerStep(r)
  PROVE  OwnInv'
<1> USE DEF OwnInv, Busy
<1>0. /\ UNCHANGED <<wpc, job, registered>>
      /\ \A q \in Requests : data'[q] # "none" => data[q] # "none"
      /\ \A q \in Requests : Enqueued(q) => Enqueued(q)'
      /\ registered \subseteq Requests
  BY HandlerFrame DEF IInv, TypeOK
<1>1. CASE UNCHANGED jobs
  <2>1. InQueue' = InQueue
    BY <1>1 DEF InQueue
  <2>2. QED
    BY <1>0, <1>1, <2>1
<1>2. CASE Enqueue(r)
  <2>1. /\ jobs' = Append(jobs, r) /\ jobs \in Seq(Requests)
        /\ UNCHANGED data
        /\ ~ Enqueued(r)
    BY <1>2 DEF IInv, TypeOK, Enqueue, Enqueued
  <2>2. /\ Len(jobs') = Len(jobs) + 1
        /\ \A i \in 1..Len(jobs) : jobs'[i] = jobs[i]
        /\ jobs'[Len(jobs) + 1] = r
    BY <2>1, AppendedQueue
  <2>3. \A i \in 1..Len(jobs) : jobs[i] # r
    BY <2>1 DEF IInv, JobInv
  <2>4. Len(jobs) \in Nat
    BY <2>1
  <2>5. \A i, j \in 1..Len(jobs') : jobs'[i] = jobs'[j] => i = j
    <3> SUFFICES ASSUME NEW i \in 1..Len(jobs'), NEW j \in 1..Len(jobs'),
                        jobs'[i] = jobs'[j]
                 PROVE  i = j
      OBVIOUS
    <3>1. CASE i \in 1..Len(jobs) /\ j \in 1..Len(jobs)
      BY <2>2, <3>1
    <3>2. CASE i = Len(jobs) + 1 /\ j = Len(jobs) + 1
      BY <3>2
    <3>3. CASE i \in 1..Len(jobs) /\ j = Len(jobs) + 1
      BY <2>2, <2>3, <3>3
    <3>4. CASE i = Len(jobs) + 1 /\ j \in 1..Len(jobs)
      BY <2>2, <2>3, <3>4
    <3>5. QED
      BY <2>2, <2>4, <3>1, <3>2, <3>3, <3>4
  <2>6. InQueue' \subseteq InQueue \cup {r}
    BY <2>2, <2>4 DEF InQueue
  <2>7. /\ \A w \in Workers : Busy(w) => job[w] # r
        /\ data[r] = "none"
        /\ r \notin registered
    BY <2>1 DEF IInv, JobInv
  <2>8. \A w \in Workers : ~ Busy(w) => job[w] # r
    BY ConstantsOK DEF ConstantsOK
  <2>9. QED
    BY <1>0, <2>1, <2>5, <2>6, <2>7, <2>8
<1>3. QED
  BY <1>1, <1>2, HandlerFrame

LEMMA DequeueOwn ==
  ASSUME IInv, OwnInv, NEW w \in Workers, Dequeue(w)
  PROVE  OwnInv'
<1> USE DEF OwnInv, Busy
<1>1. /\ jobs \in Seq(Requests) /\ jobs # <<>> /\ jobs' = Tail(jobs)
      /\ wpc[w] = "idle" /\ job[w] = NoRequest
      /\ wpc' = [wpc EXCEPT ![w] = "check"]
      /\ job' = [job EXCEPT ![w] = Head(jobs)]
      /\ UNCHANGED <<hpc, data, registered>>
  BY DEF IInv, TypeOK, Dequeue, GoTo, handlerVars, fileVars
<1>2. /\ 1 \in 1..Len(jobs) /\ Head(jobs) = jobs[1]
      /\ Len(jobs') = Len(jobs) - 1
      /\ \A i \in 1..Len(jobs') :
            i + 1 \in 1..Len(jobs) /\ jobs'[i] = jobs[i + 1]
  BY <1>1, TailElements, TailOfQueue
<1>3. Head(jobs) \in InQueue /\ Head(jobs) \in Requests
  BY <1>1, <1>2 DEF InQueue
<1>4. InQueue' \subseteq InQueue \ {Head(jobs)}
  BY <1>2 DEF InQueue
<1>5. \A i, j \in 1..Len(jobs') : jobs'[i] = jobs'[j] => i = j
  BY <1>2
<1>6. wpc \in [Workers -> WorkerPc] /\ job \in [Workers -> Requests \cup {NoRequest}]
  BY DEF IInv, TypeOK
<1>7. \A u, v \in Workers : Busy(u)' /\ Busy(v)' /\ job'[u] = job'[v] => u = v
  BY <1>1, <1>3, <1>6
<1>8. \A v \in Workers : Busy(v)' => job'[v] \notin InQueue'
  BY <1>1, <1>4, <1>6
<1>9. \A v \in Workers : ~ Busy(v)' => job'[v] = NoRequest
  BY <1>1, <1>6
<1>10. \A q \in Requests :
          data'[q] # "none" =>
              Enqueued(q)' /\ q \notin InQueue' /\ \A v \in Workers : job'[v] # q
  BY <1>1, <1>3, <1>4, <1>6 DEF Enqueued
<1>11. \A r \in registered' :
          /\ Enqueued(r)'
          /\ r \notin InQueue'
          /\ \A v \in Workers : job'[v] = r => wpc'[v] = "deliver"
  BY <1>1, <1>3, <1>4, <1>6 DEF Enqueued
<1>12. QED
  BY <1>5, <1>7, <1>8, <1>9, <1>10, <1>11

(* What a worker that does not read the queue changes. *)
LEMMA WorkerFrame ==
  ASSUME IInv, NEW w \in Workers, WorkerStep(w), ~ Dequeue(w)
  PROVE  /\ UNCHANGED <<jobs, jobsClosed, handlerVars>>
         /\ wpc' \in [Workers -> WorkerPc]
         /\ \A v \in Workers \ {w} :
               wpc'[v] = wpc[v] /\ job'[v] = job[v] /\ wmsg'[v] = wmsg[v]
         /\ \/ job'[w] = job[w] /\ (Busy(w)' <=> Busy(w))
            \/ Busy(w) /\ job'[w] = NoRequest /\ wpc'[w] = "idle"
         /\ wpc[w] = "deliver" <=> Deliver(w)
         /\ ~ Deliver(w) => UNCHANGED data
         /\ \/ UNCHANGED registered
            \/ /\ Commit(w) \/ ReloadFails(w)
               /\ registered' = registered \cup {job[w]}
               /\ wpc'[w] = "deliver" /\ Busy(w) /\ job'[w] = job[w]
<1> USE DEF IInv, TypeOK, Busy, WorkerPc, Messages, GoTo, Forget, ThenDeliver,
        queueVars, fileVars
<1>1. CASE WorkerExit(w)
  BY <1>1 DEF WorkerExit, Deliver
<1>2. CASE CheckJob(w)
  BY <1>2 DEF CheckJob, Deliver
<1>3. CASE AcquireToken(w) \/ AcquireCancelled(w)
  BY <1>3 DEF AcquireToken, AcquireCancelled, Deliver
<1>4. CASE Recheck(w)
  BY <1>4 DEF Recheck, Deliver
<1>5. CASE WriteHost(w) \/ WriteFails(w)
  BY <1>5 DEF WriteHost, WriteFails, Deliver
<1>6. CASE Commit(w)
  BY <1>6 DEF Commit, Deliver
<1>7. CASE ReloadFails(w)
  BY <1>7 DEF ReloadFails, Deliver
<1>8. CASE Deliver(w)
  BY <1>8 DEF Deliver
<1>9. QED
  BY <1>1, <1>2, <1>3, <1>4, <1>5, <1>6, <1>7, <1>8 DEF WorkerStep

(* deliver puts the message of w's own job into its channel, or nothing. *)
LEMMA DeliverFrame ==
  ASSUME IInv, NEW w \in Workers, Deliver(w)
  PROVE  /\ job' = [job EXCEPT ![w] = NoRequest]
         /\ wpc' = [wpc EXCEPT ![w] = "idle"]
         /\ job \in [Workers -> Requests \cup {NoRequest}]
         /\ wpc \in [Workers -> WorkerPc]
         /\ wpc[w] = "deliver" /\ Enqueued(job[w])
         /\ UNCHANGED <<registered, jobs, handlerVars>>
         /\ \A q \in Requests \ {job[w]} : data'[q] = data[q]
         /\ CtxDone(job[w]) \/ data'[job[w]] = wmsg[w]
         /\ CtxDone(job[w]) => UNCHANGED data
  BY DEF IInv, TypeOK, JobInv, Busy, Deliver, GoTo, Forget, Enqueued, fileVars

LEMMA WorkerOwn ==
  ASSUME IInv, OwnInv, NEW w \in Workers, WorkerStep(w)
  PROVE  OwnInv'
<1>0. NoRequest \notin Requests
  BY ConstantsOK DEF ConstantsOK
<1>1. CASE Dequeue(w)
  BY <1>1, DequeueOwn
<1>2. CASE Deliver(w)
  <2>1. InQueue' = InQueue
    BY <1>2, DeliverFrame DEF InQueue
  <2>2. \A v \in Workers : job[v] = job[w] => v = w
    BY <1>0, <1>2, DeliverFrame DEF OwnInv, Busy, Enqueued
  <2>3. \A q \in Requests :
          data'[q] # "none" =>
              Enqueued(q)' /\ q \notin InQueue' /\ \A v \in Workers : job'[v] # q
    <3> SUFFICES ASSUME NEW q \in Requests, data'[q] # "none"
                 PROVE  Enqueued(q) /\ q \notin InQueue /\ \A v \in Workers : job'[v] # q
      BY <1>2, <2>1, DeliverFrame DEF handlerVars, Enqueued
    <3>1. CASE q = job[w]
      BY <1>0, <1>2, <2>2, <3>1, DeliverFrame DEF OwnInv, Busy
    <3>2. CASE q # job[w]
      BY <1>0, <1>2, <3>2, DeliverFrame DEF OwnInv
    <3>3. QED
      BY <3>1, <3>2
  <2>4. \A r \in registered' :
          /\ Enqueued(r)'
          /\ r \notin InQueue'
          /\ \A v \in Workers : job'[v] = r => wpc'[v] = "deliver"
    BY <1>0, <1>2, <2>1, DeliverFrame DEF OwnInv, Enqueued, handlerVars
  <2>5. QED
    BY <1>0, <1>2, <2>1, <2>3, <2>4, DeliverFrame DEF OwnInv, Busy
<1>3. CASE ~ Dequeue(w) /\ ~ Deliver(w)
  <2>1. InQueue' = InQueue /\ UNCHANGED data
    BY <1>3, WorkerFrame DEF InQueue
  <2>2. \A v \in Workers : job'[v] # NoRequest => job'[v] = job[v]
    BY <1>3, WorkerFrame
  <2>3. \A v \in Workers : Busy(v)' => Busy(v) /\ job'[v] = job[v]
    BY <1>3, WorkerFrame DEF Busy
  <2>4. \A v \in Workers : ~ Busy(v)' => job'[v] = NoRequest
    BY <1>3, WorkerFrame DEF OwnInv, Busy
  <2>5. \A q \in Requests :
          data'[q] # "none" =>
              Enqueued(q)' /\ q \notin InQueue' /\ \A v \in Workers : job'[v] # q
    BY <1>0, <1>3, <2>1, <2>2, WorkerFrame DEF OwnInv, Enqueued, handlerVars
  <2>6. \A r \in registered' :
          /\ Enqueued(r)'
          /\ r \notin InQueue'
          /\ \A v \in Workers : job'[v] = r => wpc'[v] = "deliver"
    <3> SUFFICES ASSUME NEW r \in registered'
                 PROVE  /\ Enqueued(r)
                        /\ r \notin InQueue
                        /\ \A v \in Workers : job'[v] = r => wpc'[v] = "deliver"
      BY <1>3, <2>1, WorkerFrame DEF handlerVars, Enqueued
    <3>1. CASE r \in registered
      <4>1. r # NoRequest /\ \A v \in Workers : job[v] = r => wpc[v] = "deliver"
        BY <1>0, <3>1 DEF OwnInv, Enqueued
      <4>2. QED
        BY <1>3, <2>2, <3>1, <4>1, WorkerFrame DEF OwnInv
    <3>2. CASE r \notin registered
      <4>1. Busy(w) /\ r = job[w] /\ wpc'[w] = "deliver"
        BY <1>3, <3>2, WorkerFrame
      <4>2. Enqueued(r)
        BY <4>1 DEF IInv, JobInv
      <4>3. \A v \in Workers : job'[v] = r => Busy(v) /\ job[v] = r
        BY <1>0, <2>2, <4>2 DEF OwnInv, Enqueued
      <4>4. QED
        BY <4>1, <4>2, <4>3 DEF OwnInv
    <3>3. QED
      BY <3>1, <3>2
  <2>7. /\ \A i, j \in 1..Len(jobs') : jobs'[i] = jobs'[j] => i = j
        /\ \A u, v \in Workers : Busy(u)' /\ Busy(v)' /\ job'[u] = job'[v] => u = v
        /\ \A v \in Workers : Busy(v)' => job'[v] \notin InQueue'
    BY <1>3, <2>1, <2>3, WorkerFrame DEF OwnInv
  <2>8. QED
    BY <2>4, <2>5, <2>6, <2>7 DEF OwnInv
<1>4. QED
  BY <1>1, <1>2, <1>3

LEMMA NextOwn == IInv /\ OwnInv /\ [Next]_vars => OwnInv'
<1> SUFFICES ASSUME IInv, OwnInv, [Next]_vars PROVE OwnInv'
  OBVIOUS
<1>1. ASSUME NEW r \in Requests, HandlerStep(r)
      PROVE  OwnInv'
  BY <1>1, HandlerOwn
<1>2. ASSUME NEW w \in Workers, WorkerStep(w)
      PROVE  OwnInv'
  BY <1>2, WorkerOwn
<1>3. ASSUME UNCHANGED <<jobs, data, wpc, job, registered>>,
             \A q \in Requests : Enqueued(q) <=> Enqueued(q)'
      PROVE  OwnInv'
  BY <1>3 DEF OwnInv, Busy, InQueue, Enqueued
<1>4. ASSUME NEW r \in Requests, Environment(r)
      PROVE  OwnInv'
  BY <1>3, <1>4, EnvironmentFrame DEF queueVars, workerVars, fileVars
<1>5. CASE (Signal \/ MainStep \/ MainTimeout) \/ UNCHANGED vars
  BY <1>3, <1>5, MainFrame
     DEF vars, handlerVars, queueVars, workerVars, fileVars, Enqueued
<1>6. QED
  BY <1>1, <1>2, <1>4, <1>5 DEF Next, Ended

LEMMA Owned == Spec => []OwnInv
  BY InitOwn, NextOwn, Invariant, PTL DEF Spec

-----------------------------------------------------------------------------
(***************************************************************************)
(* No job is lost.  A worker leaves only when the queue is closed and      *)
(* empty, after which it stays empty.                                      *)
(***************************************************************************)
LostInv ==
    /\ \A w \in Workers : wpc[w] = "exited" => jobsClosed /\ jobs = <<>>
    /\ \A w \in Workers : wpc[w] = "deliver" => wmsg[w] # "none"
    /\ \A r \in Requests :
          hpc[r] = "await" /\ ~ CtxDone(r) =>
              \/ r \in InQueue
              \/ \E w \in Workers : job[w] = r
              \/ data[r] # "none"

LEMMA InitLost == Init => LostInv
  BY DEF Init, LostInv

LEMMA HandlerLost ==
  ASSUME IInv, LostInv, NEW r \in Requests, HandlerStep(r)
  PROVE  LostInv'
<1>1. UNCHANGED <<wpc, job, wmsg, jobsClosed>>
  BY HandlerFrame
<1>2. \A q \in Requests \ {r} :
         hpc'[q] = hpc[q] /\ data'[q] = data[q] /\ (CtxDone(q) => CtxDone(q)')
  BY DEF IInv, TypeOK, HandlerStep, Refuse, ParseOk, AcquireVerify,
     VerifyCancelled, VerifyDone, FailDelay, Enqueue, EnqueuePanic, Receive,
     GiveUp, Return, CtxDone, Returned, queueVars
<1>3. hpc'[r] = "await" => Enqueue(r)
  BY DEF IInv, TypeOK, HandlerStep, Refuse, ParseOk, AcquireVerify,
     VerifyCancelled, VerifyDone, FailDelay, EnqueuePanic, Receive, GiveUp,
     Return
<1>4. InQueue \subseteq InQueue' /\ (Enqueue(r) => r \in InQueue')
  <2>1. CASE UNCHANGED jobs /\ ~ Enqueue(r)
    BY <2>1 DEF InQueue
  <2>2. CASE Enqueue(r)
    <3>1. jobs \in Seq(Requests) /\ jobs' = Append(jobs, r)
      BY <2>2 DEF Enqueue, IInv, TypeOK
    <3>2. /\ Len(jobs') = Len(jobs) + 1 /\ Len(jobs) \in Nat
          /\ \A i \in 1..Len(jobs) : jobs'[i] = jobs[i]
          /\ jobs'[Len(jobs) + 1] = r
      BY <3>1, AppendedQueue
    <3>3. QED
      BY <3>2 DEF InQueue
  <2>3. QED
    BY <2>1, <2>2, HandlerFrame
<1>5. jobsClosed => UNCHANGED jobs
  BY HandlerFrame DEF Enqueue
<1>6. QED
  BY <1>1, <1>2, <1>3, <1>4, <1>5 DEF LostInv

(* The messages a worker may be about to deliver. *)
LEMMA WorkerMessage ==
  ASSUME IInv, LostInv, NEW w \in Workers, WorkerStep(w), wpc'[w] = "deliver"
  PROVE  wmsg'[w] # "none"
<1> USE DEF IInv, TypeOK, GoTo, Forget, ThenDeliver
<1>1. CASE Dequeue(w) \/ WorkerExit(w) \/ CheckJob(w)
  BY <1>1 DEF Dequeue, WorkerExit, CheckJob
<1>2. CASE AcquireToken(w) \/ AcquireCancelled(w) \/ Recheck(w)
  BY <1>2 DEF AcquireToken, AcquireCancelled, Recheck
<1>3. CASE WriteHost(w) \/ WriteFails(w) \/ Deliver(w)
  BY <1>3 DEF WriteHost, WriteFails, Deliver
<1>4. CASE Commit(w) \/ ReloadFails(w)
  BY <1>4 DEF Commit, ReloadFails
<1>5. QED
  BY <1>1, <1>2, <1>3, <1>4 DEF WorkerStep

(* A job a worker lays down is answered, unless nobody waits for it. *)
LEMMA WorkerKeeps ==
  ASSUME IInv, OwnInv, LostInv, NEW w \in Workers, WorkerStep(w),
         NEW q \in Requests, ~ CtxDone(q),
         q \in InQueue \/ (\E v \in Workers : job[v] = q) \/ data[q] # "none"
  PROVE  q \in InQueue' \/ (\E v \in Workers : job'[v] = q) \/ data'[q] # "none"
<1>0. NoRequest \notin Requests
  BY ConstantsOK DEF ConstantsOK
<1>1. CASE Dequeue(w)
  <2>1. /\ jobs \in Seq(Requests) /\ jobs # <<>> /\ jobs' = Tail(jobs)
        /\ job[w] = NoRequest /\ job' = [job EXCEPT ![w] = Head(jobs)]
        /\ job \in [Workers -> Requests \cup {NoRequest}]
        /\ UNCHANGED data
    BY <1>1 DEF Dequeue, IInv, TypeOK, OwnInv, Busy
  <2>2. /\ Head(jobs) = jobs[1] /\ Len(jobs') = Len(jobs) - 1
        /\ Len(jobs) \in Nat
        /\ \A i \in 1..Len(jobs') : jobs'[i] = jobs[i + 1]
    BY <2>1, TailElements, TailOfQueue
  <2>3. CASE q \in InQueue
    <3>1. PICK i \in 1..Len(jobs) : jobs[i] = q
      BY <2>3 DEF InQueue
    <3>2. CASE i = 1
      BY <2>1, <2>2, <3>1, <3>2
    <3>3. CASE i # 1
      <4>1. i - 1 \in 1..Len(jobs') /\ jobs'[i - 1] = q
        BY <2>2, <3>1, <3>3
      <4>2. QED
        BY <4>1 DEF InQueue
    <3>4. QED
      BY <3>2, <3>3
  <2>4. QED
    BY <1>0, <2>1, <2>3
<1>2. CASE Deliver(w)
  <2>1. InQueue' = InQueue
    BY <1>2, DeliverFrame DEF InQueue
  <2>2. CASE q = job[w]
    BY <1>2, <2>2, DeliverFrame DEF LostInv
  <2>3. CASE q # job[w]
    BY <1>2, <2>1, <2>3, DeliverFrame
  <2>4. QED
    BY <2>2, <2>3
<1>3. CASE ~ Dequeue(w) /\ ~ Deliver(w)
  <2>1. InQueue' = InQueue /\ UNCHANGED data
    BY <1>3, WorkerFrame DEF InQueue
  <2>2. job'[w] = job[w] \/ CtxDone(job[w]) \/ job[w] = NoRequest
    BY <1>3 DEF IInv, TypeOK, WorkerStep, WorkerExit, CheckJob, AcquireToken,
       AcquireCancelled, Recheck, WriteHost, WriteFails, Commit, ReloadFails,
       ThenDeliver
  <2>3. QED
    BY <1>0, <1>3, <2>1, <2>2, WorkerFrame
<1>4. QED
  BY <1>1, <1>2, <1>3

LEMMA WorkerLost ==
  ASSUME IInv, OwnInv, LostInv, NEW w \in Workers, WorkerStep(w)
  PROVE  LostInv'
<1>1. UNCHANGED <<handlerVars, jobsClosed>>
  BY WorkerFrame DEF Dequeue
<1>2. \A q \in Requests : CtxDone(q)' <=> CtxDone(q)
  BY <1>1 DEF handlerVars, CtxDone, Returned
<1>3. \A v \in Workers \ {w} :
         wpc'[v] = wpc[v] /\ wmsg'[v] = wmsg[v]
  BY WorkerFrame DEF IInv, TypeOK, Dequeue, GoTo
<1>4. jobs = <<>> => jobs' = <<>>
  BY WorkerFrame DEF Dequeue
<1>5. wpc'[w] = "exited" => jobsClosed /\ jobs = <<>>
  <2>1. wpc'[w] = "exited" => WorkerExit(w)
    BY DEF IInv, TypeOK, WorkerStep, Dequeue, CheckJob, AcquireToken,
       AcquireCancelled, Recheck, WriteHost, WriteFails, Commit, ReloadFails,
       Deliver, GoTo, Forget, ThenDeliver
  <2>2. QED
    BY <2>1 DEF WorkerExit
<1>6. QED
  BY <1>1, <1>2, <1>3, <1>4, <1>5, WorkerMessage, WorkerKeeps
     DEF LostInv, handlerVars

LEMMA NextLost == IInv /\ OwnInv /\ LostInv /\ [Next]_vars => LostInv'
<1> SUFFICES ASSUME IInv, OwnInv, LostInv, [Next]_vars PROVE LostInv'
  OBVIOUS
<1>1. ASSUME NEW r \in Requests, HandlerStep(r)
      PROVE  LostInv'
  BY <1>1, HandlerLost
<1>2. ASSUME NEW w \in Workers, WorkerStep(w)
      PROVE  LostInv'
  BY <1>2, WorkerLost
<1>3. ASSUME UNCHANGED <<jobs, data, wpc, job, wmsg>>, jobsClosed => jobsClosed',
             \A q \in Requests : hpc'[q] = "await" <=> hpc[q] = "await",
             \A q \in Requests : CtxDone(q) => CtxDone(q)'
      PROVE  LostInv'
  BY <1>3 DEF LostInv, InQueue
<1>4. ASSUME NEW r \in Requests, Environment(r)
      PROVE  LostInv'
  BY <1>3, <1>4, EnvironmentFrame DEF queueVars, workerVars
<1>5. CASE (Signal \/ MainStep \/ MainTimeout) \/ UNCHANGED vars
  BY <1>3, <1>5, MainFrame
     DEF vars, handlerVars, queueVars, workerVars, CtxDone, Returned
<1>6. QED
  BY <1>1, <1>2, <1>4, <1>5 DEF Next, Ended

LEMMA NothingLost == Spec => []LostInv
  BY InitLost, NextLost, Invariant, Owned, PTL DEF Spec

(***************************************************************************)
(* The job of a client that waits is in exactly one place, and if that is  *)
(* the queue some worker reads it, through the shutdown and whether or not *)
(* Shutdown failed.                                                        *)
(***************************************************************************)
THEOREM JobsAccountedFor == Spec => []JobsAccounted
<1>1. OwnInv => OneOwner
  BY DEF OwnInv, OneOwner, InQueue, Queued
<1>2. IInv /\ LostInv => NoLostJob
  <2> SUFFICES ASSUME IInv, LostInv, NEW r \in Requests,
                      hpc[r] = "await", ~ CtxDone(r)
               PROVE  \/ Queued(r) /\ \E w \in Workers : wpc[w] # "exited"
                      \/ \E w \in Workers : job[w] = r
                      \/ data[r] # "none"
    BY DEF NoLostJob
  <2>1. CASE r \in InQueue
    <3>1. Queued(r) /\ jobs # <<>>
      BY <2>1 DEF InQueue, Queued
    <3>2. PICK w \in Workers : TRUE
      BY ConstantsOK DEF ConstantsOK
    <3>3. QED
      BY <3>1, <3>2 DEF LostInv
  <2>2. QED
    BY <2>1 DEF LostInv
<1>3. QED
  BY <1>1, <1>2, Invariant, Owned, NothingLost, PTL DEF JobsAccounted

-----------------------------------------------------------------------------
(***************************************************************************)
(* The refinement of Registration.  The answers are kept in step with the  *)
(* host files: "config" follows a commit, "notfound" excludes one for      *)
(* good, and a client that left its job behind was told "timeout".         *)
(***************************************************************************)
AnswerInv ==
    /\ \A w \in Workers :
          /\ wpc[w] \in {"acquire", "recheck", "write", "reload"} =>
                UserOf[job[w]] \in Known
          /\ wpc[w] = "deliver" /\ wmsg[w] = "config" => job[w] \in registered
          /\ wpc[w] = "deliver" /\ wmsg[w] = "notfound" =>
                UserOf[job[w]] \notin Known
          /\ Busy(w) /\ hpc[job[w]] = "returned" => resp[job[w]] = "timeout"
    /\ \A r \in InQueue : hpc[r] = "returned" => resp[r] = "timeout"
    /\ \A r \in Requests :
          /\ data[r] = "config" => r \in registered
          /\ data[r] = "notfound" => UserOf[r] \notin Known
    /\ \A r \in registered :
          /\ UserOf[r] \in Known
          /\ hpc[r] = "returned" => resp[r] \in {"timeout", "config", "internal"}

LEMMA InitAnswer == Init => AnswerInv
  BY DEF Init, AnswerInv, Busy, InQueue

(* How a handler answers, and what it may have been told before. *)
LEMMA HandlerAnswers ==
  ASSUME IInv, NEW r \in Requests, HandlerStep(r)
  PROVE  /\ hpc[r] # "returned"
         /\ \A q \in Requests \ {r} : hpc'[q] = hpc[q] /\ resp'[q] = resp[q]
         /\ hpc'[r] = "returned" /\ Enqueued(r) =>
               \/ resp'[r] = "timeout"
               \/ resp'[r] = data[r] /\ data[r] # "none"
         /\ hpc'[r] = "returned" /\ ~ Enqueued(r) =>
               resp'[r] \in {"refused", "denied", "none", "panic", "timeout"}
         /\ hpc[r] # "idle" /\ hpc'[r] # "idle"
<1> USE DEF IInv, TypeOK, Enqueued, Return
<1>1. CASE Refuse(r) \/ ParseOk(r) \/ AcquireVerify(r)
  BY <1>1 DEF Refuse, ParseOk, AcquireVerify
<1>2. CASE VerifyCancelled(r) \/ VerifyDone(r) \/ FailDelay(r)
  BY <1>2 DEF VerifyCancelled, VerifyDone, FailDelay
<1>3. CASE Enqueue(r) \/ EnqueuePanic(r)
  BY <1>3 DEF Enqueue, EnqueuePanic
<1>4. CASE Receive(r) \/ GiveUp(r)
  BY <1>4 DEF Receive, GiveUp
<1>5. QED
  BY <1>1, <1>2, <1>3, <1>4 DEF HandlerStep

LEMMA HandlerAnswer ==
  ASSUME IInv, OwnInv, AnswerInv, NEW r \in Requests, HandlerStep(r)
  PROVE  AnswerInv'
<1>1. /\ UNCHANGED <<wpc, job, wmsg, registered>>
      /\ \A q \in Requests : data'[q] # "none" => data'[q] = data[q]
      /\ registered \subseteq Requests
      /\ \A w \in Workers : Busy(w)' <=> Busy(w)
  BY HandlerFrame DEF IInv, TypeOK, Busy
<1>2. /\ InQueue' \subseteq InQueue \cup {r}
      /\ r \in InQueue' => r \in InQueue \/ hpc'[r] # "returned"
  <2>1. CASE UNCHANGED jobs
    BY <2>1 DEF InQueue
  <2>2. CASE Enqueue(r)
    <3>1. /\ jobs' = Append(jobs, r) /\ jobs \in Seq(Requests)
          /\ hpc'[r] = "await"
      BY <2>2 DEF IInv, TypeOK, Enqueue
    <3>2. /\ Len(jobs') = Len(jobs) + 1 /\ Len(jobs) \in Nat
          /\ \A i \in 1..Len(jobs) : jobs'[i] = jobs[i]
          /\ jobs'[Len(jobs) + 1] = r
      BY <3>1, AppendedQueue
    <3>3. QED
      BY <3>1, <3>2 DEF InQueue
  <2>3. QED
    BY <2>1, <2>2, HandlerFrame
<1>3. InQueue \subseteq {q \in Requests : Enqueued(q)}
  BY DEF InQueue, IInv, JobInv, Enqueued
<1>4. (r \in InQueue \/ \E w \in Workers : job[w] = r) => data[r] = "none"
  BY DEF OwnInv
<1>5. ASSUME NEW w \in Workers, Busy(w), hpc'[job[w]] = "returned"
      PROVE  resp'[job[w]] = "timeout"
  <2>1. Enqueued(job[w])
    BY <1>5 DEF IInv, JobInv
  <2>2. QED
    BY <1>4, <1>5, <2>1, HandlerAnswers DEF AnswerInv, Enqueued
<1>6. ASSUME NEW q \in InQueue', hpc'[q] = "returned"
      PROVE  resp'[q] = "timeout"
  BY <1>2, <1>3, <1>4, <1>6, HandlerAnswers DEF AnswerInv
<1>7. ASSUME NEW q \in registered, hpc'[q] = "returned"
      PROVE  resp'[q] \in {"timeout", "config", "internal"}
  <2>1. Enqueued(q) /\ q \in Requests /\ UserOf[q] \in Known
    BY <1>1 DEF OwnInv, AnswerInv
  <2>2. data[q] \in {"none", "config", "internal"}
    BY <2>1 DEF AnswerInv, IInv, TypeOK, Messages
  <2>3. QED
    BY <1>7, <2>1, <2>2, HandlerAnswers DEF AnswerInv
<1>8. QED
  BY <1>1, <1>5, <1>6, <1>7 DEF AnswerInv

LEMMA WorkerAnswer ==
  ASSUME IInv, OwnInv, AnswerInv, NEW w \in Workers, WorkerStep(w)
  PROVE  AnswerInv'
<1> USE DEF AnswerInv, Busy, GoTo, Forget, ThenDeliver, handlerVars, queueVars,
        fileVars
<1>1. CASE Dequeue(w)
  <2>1. /\ jobs \in Seq(Requests) /\ jobs # <<>> /\ jobs' = Tail(jobs)
        /\ wpc' = [wpc EXCEPT ![w] = "check"]
        /\ job' = [job EXCEPT ![w] = Head(jobs)]
        /\ wpc \in [Workers -> WorkerPc]
        /\ job \in [Workers -> Requests \cup {NoRequest}]
        /\ UNCHANGED <<hpc, resp, wmsg, data, registered>>
    BY <1>1 DEF IInv, TypeOK, Dequeue
  <2>2. Head(jobs) \in InQueue /\ InQueue' \subseteq InQueue
    BY <2>1, TailElements, TailOfQueue DEF InQueue
  <2>3. QED
    BY <2>1, <2>2
<1> USE DEF InQueue
<1>2. CASE WorkerExit(w)
  BY <1>2 DEF WorkerExit, IInv, TypeOK
<1>3. CASE CheckJob(w)
  BY <1>3 DEF CheckJob, IInv, TypeOK
<1>4. CASE AcquireToken(w) \/ AcquireCancelled(w)
  BY <1>4 DEF AcquireToken, AcquireCancelled, IInv, TypeOK
<1>5. CASE Recheck(w)
  BY <1>5 DEF Recheck, IInv, TypeOK
<1>6. CASE WriteHost(w) \/ WriteFails(w)
  BY <1>6 DEF WriteHost, WriteFails, IInv, TypeOK
<1>7. CASE Commit(w)
  BY <1>7 DEF Commit, IInv, TypeOK
<1>8. CASE ReloadFails(w)
  BY <1>8 DEF ReloadFails, IInv, TypeOK
<1>9. CASE Deliver(w)
  BY <1>9 DEF Deliver, IInv, TypeOK
<1>10. QED
  BY <1>1, <1>2, <1>3, <1>4, <1>5, <1>6, <1>7, <1>8, <1>9 DEF WorkerStep

LEMMA NextAnswer == IInv /\ OwnInv /\ AnswerInv /\ [Next]_vars => AnswerInv'
<1> SUFFICES ASSUME IInv, OwnInv, AnswerInv, [Next]_vars PROVE AnswerInv'
  OBVIOUS
<1>1. ASSUME NEW r \in Requests, HandlerStep(r)
      PROVE  AnswerInv'
  BY <1>1, HandlerAnswer
<1>2. ASSUME NEW w \in Workers, WorkerStep(w)
      PROVE  AnswerInv'
  BY <1>2, WorkerAnswer
<1>3. ASSUME UNCHANGED <<resp, data, jobs, wpc, job, wmsg, registered>>,
             \A q \in Requests : hpc'[q] = "returned" <=> hpc[q] = "returned"
      PROVE  AnswerInv'
  <2>1. /\ \A w \in Workers : Busy(w) => job[w] \in Requests
        /\ InQueue \subseteq Requests /\ registered \subseteq Requests
    BY DEF IInv, TypeOK, JobInv, Enqueued, InQueue
  <2>2. InQueue' = InQueue
    BY <1>3 DEF InQueue
  <2>3. QED
    BY <1>3, <2>1, <2>2 DEF AnswerInv, Busy
<1>4. ASSUME NEW r \in Requests, Environment(r)
      PROVE  AnswerInv'
  BY <1>3, <1>4, EnvironmentFrame DEF queueVars, workerVars, fileVars
<1>5. CASE (Signal \/ MainStep \/ MainTimeout) \/ UNCHANGED vars
  BY <1>3, <1>5, MainFrame DEF vars, handlerVars, queueVars, workerVars, fileVars
<1>6. QED
  BY <1>1, <1>2, <1>4, <1>5 DEF Next, Ended

LEMMA Answered == Spec => []AnswerInv
  BY InitAnswer, NextAnswer, Invariant, Owned, PTL DEF Spec

(* A step that takes no request from a program counter to another. *)
LEMMA Stutters ==
  ASSUME UNCHANGED <<hpc, resp, before, settled, registered>>
  PROVE  UNCHANGED Abstract!vars
  BY DEF Abstract!vars, Returned, AnswerOf

(* A handler step leaves the abstract state alone, or closes its request. *)
LEMMA HandlerSimulates ==
  ASSUME IInv, OwnInv, AnswerInv, NEW r \in Requests, HandlerStep(r)
  PROVE  [Abstract!Next]_(Abstract!vars)
<1>1. /\ UNCHANGED <<before, settled, registered>>
      /\ \A q \in Requests : q # r => AnswerOf(q)' = AnswerOf(q)
      /\ \A q \in Requests : hpc'[q] # "idle" <=> hpc[q] # "idle"
  BY HandlerFrame, HandlerAnswers DEF AnswerOf
<1>2. CASE hpc'[r] # "returned"
  <2>1. AnswerOf(r)' = AnswerOf(r)
    BY <1>2, HandlerAnswers DEF AnswerOf
  <2>2. Returned' = Returned
    BY <1>2, HandlerAnswers DEF Returned
  <2>3. QED
    BY <1>1, <2>1, <2>2 DEF Abstract!vars
<1>3. CASE hpc'[r] = "returned"
  <2> DEFINE a == AnswerOf(r)'
  <2>1. /\ a \in Abstract!Answers
        /\ a = "config" => resp'[r] = "config"
        /\ a = "rejected" =>
              resp'[r] \in {"none", "refused", "denied", "panic", "notfound"}
    <3>1. TypeOK'
      BY HandlerTypeOK
    <3>2. resp'[r] \in Responses
      BY <3>1 DEF TypeOK
    <3>3. QED
      BY <1>3, <3>2 DEF AnswerOf, Responses, Messages, Abstract!Answers
  <2>2. a = "config" => r \in registered
    BY <1>3, <2>1, HandlerAnswers DEF AnswerInv
  <2>3. a = "rejected" => r \notin registered
    <3>1. r \in registered => Enqueued(r) /\ UserOf[r] \in Known
      BY DEF OwnInv, AnswerInv
    <3>2. data[r] \in {"none", "config", "internal", "notfound"}
      BY DEF IInv, TypeOK, Messages
    <3>3. QED
      BY <1>3, <2>1, <3>1, <3>2, HandlerAnswers DEF AnswerInv
  <2>4. /\ Returned' = Returned \cup {r} /\ r \notin Returned
        /\ hpc[r] # "idle"
    BY <1>3, HandlerAnswers DEF Returned
  <2>5. [q \in Requests |-> AnswerOf(q)]' =
            [[q \in Requests |-> AnswerOf(q)] EXCEPT ![r] = a]
    BY <1>1
  <2> HIDE DEF a
  <2>6. Abstract!Close(r, a)
    BY <1>1, <2>1, <2>2, <2>3, <2>4, <2>5 DEF Abstract!Close
  <2>7. QED
    BY <2>1, <2>6 DEF Abstract!Next
<1>4. QED
  BY <1>2, <1>3

(***************************************************************************)
(* The end of a transaction that leaves the key of its request in place    *)
(* registers it: the request cannot have been refused, and FreshInv says   *)
(* that its key is not outdated.                                           *)
(***************************************************************************)
LEMMA RegisterSimulates ==
  ASSUME IInv, FreshInv, OwnInv, AnswerInv, NEW w \in Workers,
         wpc[w] = "reload",
         UNCHANGED <<hpc, resp, before>>,
         settled' = [settled EXCEPT ![UserOf[job[w]]] = job[w]],
         registered' = registered \cup {job[w]}
  PROVE  Abstract!Next
<1> DEFINE r == job[w]
<1>1. Enqueued(r) /\ r \notin registered
  BY DEF IInv, JobInv, OwnInv, Busy
<1>2. hpc[r] = "returned" => resp[r] = "timeout"
  BY DEF AnswerInv, Busy
<1>3. AnswerOf(r) # "rejected"
  BY <1>2 DEF AnswerOf
<1>4. ~ Abstract!Outdated(r)
  BY DEF FreshInv, Abstract!Outdated
<1>5. Returned' = Returned /\ \A q \in Requests : AnswerOf(q)' = AnswerOf(q)
  BY DEF Returned, AnswerOf
<1> HIDE DEF r
<1>6. Abstract!Register(r)
  BY <1>1, <1>3, <1>4, <1>5 DEF Abstract!Register, Enqueued, r
<1>7. QED
  BY <1>1, <1>6 DEF Abstract!Next, Enqueued

(***************************************************************************)
(* An update that fails and leaves settled what it was is no step of       *)
(* Registration, one that leaves no key is a loss.                         *)
(***************************************************************************)
LEMMA FailureSimulates ==
  ASSUME IInv, NEW w \in Workers, UserOf[job[w]] \in Users,
         UNCHANGED <<hpc, resp, before, registered>>,
         NEW left \in {settled[UserOf[job[w]]], NoRequest},
         settled' = [settled EXCEPT ![UserOf[job[w]]] = left]
  PROVE  [Abstract!Next]_(Abstract!vars)
<1> DEFINE u == UserOf[job[w]]
<1>1. CASE left = settled[u]
  <2>1. UNCHANGED settled
    BY <1>1 DEF IInv, TypeOK
  <2>2. QED
    BY <2>1, Stutters
<1>2. CASE left = NoRequest
  <2>1. Returned' = Returned /\ \A q \in Requests : AnswerOf(q)' = AnswerOf(q)
    BY DEF Returned, AnswerOf
  <2>2. Abstract!Lose(u)
    BY <1>2, <2>1 DEF Abstract!Lose
  <2>3. QED
    BY <2>2 DEF Abstract!Next
<1>3. QED
  BY <1>1, <1>2

LEMMA WorkerSimulates ==
  ASSUME IInv, HostInv, FreshInv, OwnInv, AnswerInv,
         NEW w \in Workers, WorkerStep(w)
  PROVE  [Abstract!Next]_(Abstract!vars)
<1>1. UNCHANGED <<hpc, resp, before>>
  BY WorkerFrame DEF Dequeue, handlerVars
<1> DEFINE u == UserOf[job[w]]
<1>2. Busy(w) => u \in Users /\ job[w] \in Requests
  BY ConstantsOK DEF ConstantsOK, IInv, JobInv, Enqueued
<1>3. CASE Commit(w)
  BY <1>1, <1>3, RegisterSimulates DEF Commit
<1>4. CASE ReloadFails(w)
  <2>1. PICK left \in {backup[w], job[w], NoRequest} :
           /\ settled' = [settled EXCEPT ![u] = left]
           /\ registered' = IF left = job[w] THEN registered \cup {left}
                                             ELSE registered
    BY <1>4 DEF ReloadFails
  <2>2. wpc[w] = "reload" /\ backup[w] = settled[u] /\ u \in Users
    BY <1>2, <1>4 DEF ReloadFails, HostInv, HostSettled, Busy
  <2>3. CASE left = job[w]
    BY <1>1, <2>1, <2>2, <2>3, RegisterSimulates
  <2>4. CASE left # job[w]
    <3>1. left \in {settled[u], NoRequest} /\ UNCHANGED registered
      BY <2>1, <2>2, <2>4
    <3>2. QED
      BY <1>1, <2>1, <2>2, <3>1, FailureSimulates
  <2>5. QED
    BY <2>3, <2>4
<1>5. CASE WriteFails(w)
  <2>1. PICK left \in {host[u], NoRequest} :
           settled' = [settled EXCEPT ![u] = left]
    BY <1>5 DEF WriteFails
  <2>2. wpc[w] = "write" /\ u \in Users /\ UNCHANGED registered
    BY <1>2, <1>5 DEF WriteFails, Busy
  <2>3. \A v \in Workers : wpc[v] # "reload"
    BY <2>2 DEF IInv, UpdateInv, Updating
  <2>4. host[u] = settled[u]
    BY <2>2, <2>3 DEF HostInv, HostSettled
  <2>5. QED
    BY <1>1, <2>1, <2>2, <2>4, FailureSimulates
<1>6. CASE ~ (Commit(w) \/ ReloadFails(w) \/ WriteFails(w))
  <2>1. UNCHANGED <<settled, registered>>
    BY <1>6 DEF WorkerStep, Dequeue, WorkerExit, CheckJob, AcquireToken,
       AcquireCancelled, Recheck, WriteHost, Deliver, fileVars
  <2>2. QED
    BY <1>1, <2>1, Stutters
<1>7. QED
  BY <1>3, <1>4, <1>5, <1>6

LEMMA EnvironmentSimulates ==
  ASSUME IInv, NEW r \in Requests, Environment(r)
  PROVE  [Abstract!Next]_(Abstract!vars)
<1>0. UNCHANGED <<resp, settled, registered>>
  BY EnvironmentFrame DEF fileVars
<1>1. CASE Arrive(r)
  <2>1. /\ hpc[r] = "idle" /\ hpc' = [hpc EXCEPT ![r] = "parse"]
        /\ before' = [before EXCEPT ![r] = Returned]
        /\ hpc \in [Requests -> HandlerPc]
    BY <1>1 DEF Arrive, IInv, TypeOK
  <2>2. Returned' = Returned /\ \A q \in Requests : AnswerOf(q)' = AnswerOf(q)
    BY <1>0, <2>1 DEF Returned, AnswerOf
  <2>3. {q \in Requests : hpc'[q] # "idle"} =
            {q \in Requests : hpc[q] # "idle"} \cup {r}
    BY <2>1
  <2>4. Abstract!Ask(r)
    BY <1>0, <2>1, <2>2, <2>3 DEF Abstract!Ask
  <2>5. QED
    BY <2>4 DEF Abstract!Next
<1>2. CASE UNCHANGED <<hpc, before>>
  BY <1>0, <1>2, Stutters
<1>3. QED
  BY <1>1, <1>2, EnvironmentFrame

(***************************************************************************)
(* The server implements Registration with keys registered in order: a     *)
(* client that is told its configuration has its key in the host file, one *)
(* that is refused never will, one that times out may until a newer        *)
(* request of its user is served, and each is answered once, for any       *)
(* number of requests, workers and users.                                  *)
(***************************************************************************)
THEOREM Refinement == Spec => ImplementsRegistration
<1>1. Init => Abstract!Init
  BY DEF Init, Abstract!Init, Returned, AnswerOf
<1>2. IInv /\ HostInv /\ FreshInv /\ OwnInv /\ AnswerInv /\ [Next]_vars
        => [Abstract!Next]_(Abstract!vars)
  <2> SUFFICES ASSUME IInv, HostInv, FreshInv, OwnInv, AnswerInv, [Next]_vars
               PROVE  [Abstract!Next]_(Abstract!vars)
    OBVIOUS
  <2>1. ASSUME NEW r \in Requests, HandlerStep(r)
        PROVE  [Abstract!Next]_(Abstract!vars)
    BY <2>1, HandlerSimulates
  <2>2. ASSUME NEW w \in Workers, WorkerStep(w)
        PROVE  [Abstract!Next]_(Abstract!vars)
    BY <2>2, WorkerSimulates
  <2>3. ASSUME NEW r \in Requests, Environment(r)
        PROVE  [Abstract!Next]_(Abstract!vars)
    BY <2>3, EnvironmentSimulates
  <2>4. CASE (Signal \/ MainStep \/ MainTimeout) \/ UNCHANGED vars
    BY <2>4, MainFrame, Stutters DEF vars, handlerVars, fileVars
  <2>5. QED
    BY <2>1, <2>2, <2>3, <2>4 DEF Next, Ended
<1>3. QED
  BY <1>1, <1>2, Invariant, Fresh, Owned, Answered, PTL
     DEF Spec, ImplementsRegistration, Abstract!Spec

-----------------------------------------------------------------------------
(***************************************************************************)
(* The host files as HostStore has them.  Only the worker with the update  *)
(* token has a transaction, so that a user's open one is that worker's.    *)
(***************************************************************************)
LEMMA TxFrame ==
  ASSUME \A w \in Workers : /\ wpc'[w] = "reload" <=> wpc[w] = "reload"
                            /\ wpc[w] = "reload" => job'[w] = job[w]
  PROVE  \A u \in Users : InTx(u)' = InTx(u)
  BY DEF InTx

(* A worker's transaction is the only one, and of the user of its job. *)
LEMMA OnlyTx ==
  ASSUME IInv, NEW w \in Workers, Updating(w)
  PROVE  \A u \in Users :
            InTx(u) = IF wpc[w] = "reload" /\ UserOf[job[w]] = u THEN {w} ELSE {}
  BY DEF IInv, UpdateInv, Updating, InTx

LEMMA WriteHostUsed ==
  ASSUME IInv, NEW w \in Workers, WriteHost(w), NEW u \in Users
  PROVE  HostUpdate(u) \/ UNCHANGED <<host[u], InTx(u)>>
<1>1. /\ wpc[w] = "write" /\ wpc' = [wpc EXCEPT ![w] = "reload"] /\ job' = job
      /\ backup' = [backup EXCEPT ![w] = host[UserOf[job[w]]]]
      /\ host' = [host EXCEPT ![UserOf[job[w]]] = job[w]]
  BY DEF WriteHost, GoTo
<1>2. /\ InTx(u) = {}
      /\ \A v \in Workers : v # w => wpc[v] # "reload"
  BY <1>1, OnlyTx DEF IInv, UpdateInv, Updating
<1>3. InTx(u)' = IF UserOf[job[w]] = u THEN {w} ELSE {}
  BY <1>1, <1>2 DEF IInv, TypeOK, InTx
<1>4. CASE UserOf[job[w]] = u
  <2>1. job[w] \in Requests
    BY <1>1 DEF IInv, JobInv, Busy, Enqueued
  <2>2. InTx(u)' # {} /\ (CHOOSE v \in InTx(u)' : TRUE) = w
    BY <1>3, <1>4
  <2>3. backup'[w] = host[u] /\ host'[u] = job[w]
    BY <1>1, <1>4 DEF IInv, TypeOK
  <2>4. HostOf(u)!Write(job[w])
    BY <1>2, <2>1, <2>2, <2>3 DEF HostOf!Write
  <2>5. QED
    BY <2>1, <2>4 DEF HostUpdate
<1>5. CASE UserOf[job[w]] # u
  BY <1>1, <1>2, <1>3, <1>5 DEF IInv, TypeOK
<1>6. QED
  BY <1>4, <1>5

LEMMA WriteFailsUsed ==
  ASSUME IInv, NEW w \in Workers, WriteFails(w), NEW u \in Users
  PROVE  HostUpdate(u) \/ UNCHANGED <<host[u], InTx(u)>>
<1>1. /\ wpc[w] = "write" /\ wpc' = [wpc EXCEPT ![w] = "deliver"] /\ job' = job
      /\ backup' = backup
  BY DEF WriteFails, ThenDeliver, GoTo
<1>2. InTx(u) = {} /\ InTx(u)' = {}
  <2>1. InTx(u) = {}
    BY <1>1, OnlyTx DEF Updating
  <2>2. InTx(u)' = InTx(u)
    BY <1>1, TxFrame DEF IInv, TypeOK
  <2>3. QED
    BY <2>1, <2>2
<1>3. CASE UserOf[job[w]] = u
  <2>1. host'[u] \in {host[u], NoRequest}
    BY <1>3 DEF WriteFails, IInv, TypeOK
  <2>2. HostOf(u)!WriteFails
    BY <1>2, <2>1 DEF HostOf!WriteFails
  <2>3. QED
    BY <2>2 DEF HostUpdate
<1>4. CASE UserOf[job[w]] # u
  BY <1>2, <1>4 DEF WriteFails, IInv, TypeOK
<1>5. QED
  BY <1>3, <1>4

(***************************************************************************)
(* A transaction that ends: what a rollback restores is what was there     *)
(* when the transaction began, as the backup is the worker's own.          *)
(***************************************************************************)
LEMMA EndUsed ==
  ASSUME IInv, HostInv, NEW w \in Workers, Commit(w) \/ ReloadFails(w),
         NEW u \in Users
  PROVE  HostUpdate(u) \/ UNCHANGED <<host[u], InTx(u)>>
<1>1. wpc[w] = "reload" /\ wpc' = [wpc EXCEPT ![w] = "deliver"] /\ job' = job
  BY DEF Commit, ReloadFails, ThenDeliver, GoTo
<1>2. InTx(u) = IF UserOf[job[w]] = u THEN {w} ELSE {}
  BY <1>1, OnlyTx DEF Updating
<1>3. InTx(u)' = {}
  BY <1>1 DEF IInv, TypeOK, UpdateInv, Updating, InTx
<1>4. CASE UserOf[job[w]] = u
  <2>1. InTx(u) # {} /\ (CHOOSE v \in InTx(u) : TRUE) = w
    BY <1>2, <1>4
  <2>2. CASE Commit(w)
    <3>1. host' = host
      BY <2>2 DEF Commit
    <3>2. HostOf(u)!Commit
      BY <1>3, <2>1, <3>1 DEF HostOf!Commit
    <3>3. QED
      BY <3>2 DEF HostUpdate
  <2>3. CASE ReloadFails(w)
    <3>1. host'[u] \in {backup[w], host[u], NoRequest}
      BY <1>1, <1>4, <2>3 DEF ReloadFails, IInv, TypeOK, HostInv
    <3>2. HostOf(u)!Rollback
      BY <1>3, <2>1, <3>1 DEF HostOf!Rollback
    <3>3. QED
      BY <3>2 DEF HostUpdate
  <2>4. QED
    BY <2>2, <2>3
<1>5. CASE UserOf[job[w]] # u
  BY <1>2, <1>3, <1>5 DEF Commit, ReloadFails, IInv, TypeOK
<1>6. QED
  BY <1>4, <1>5

(* All that workers do with a host file is one of its updates. *)
LEMMA WorkerUses ==
  ASSUME IInv, HostInv, NEW w \in Workers, WorkerStep(w), NEW u \in Users
  PROVE  HostUpdate(u) \/ UNCHANGED <<host[u], InTx(u)>>
<1>1. CASE \/ Dequeue(w) \/ WorkerExit(w) \/ CheckJob(w) \/ AcquireToken(w)
           \/ AcquireCancelled(w) \/ Recheck(w) \/ Deliver(w)
  <2>1. /\ host' = host
        /\ wpc[w] # "reload" /\ wpc'[w] # "reload"
        /\ \A v \in Workers : v # w => wpc'[v] = wpc[v] /\ job'[v] = job[v]
    BY <1>1 DEF IInv, TypeOK, Dequeue, WorkerExit, CheckJob, AcquireToken,
       AcquireCancelled, Recheck, Deliver, Forget, ThenDeliver, GoTo, fileVars
  <2>2. InTx(u)' = InTx(u)
    BY <2>1, TxFrame
  <2>3. QED
    BY <2>1, <2>2
<1>2. QED
  BY <1>1, WriteHostUsed, WriteFailsUsed, EndUsed DEF WorkerStep

(***************************************************************************)
(* What AuthServer does with each user's host file is what HostStore       *)
(* allows: one update after the other, each committed or rolled back.      *)
(***************************************************************************)
THEOREM HostStoreUsed == Spec => UsesHostStore
<1> DEFINE Uses == \A u \in Users :
                      HostUpdate(u) \/ UNCHANGED <<host[u], InTx(u)>>
<1>1. IInv /\ HostInv /\ [Next]_vars => [Uses]_vars
  <2> SUFFICES ASSUME IInv, HostInv, Next PROVE Uses
    OBVIOUS
  <2>1. ASSUME NEW w \in Workers, WorkerStep(w) PROVE Uses
    BY <2>1, WorkerUses
  <2>2. ASSUME UNCHANGED <<wpc, job, host>> PROVE Uses
    BY <2>2, TxFrame
  <2>3. ASSUME NEW r \in Requests, HandlerStep(r) \/ Environment(r)
        PROVE  UNCHANGED <<wpc, job, host>>
    BY <2>3 DEF HandlerStep, Refuse, ParseOk, AcquireVerify, VerifyCancelled,
       VerifyDone, FailDelay, Enqueue, EnqueuePanic, Receive, GiveUp,
       Environment, Arrive, Disconnect, JobDeadline, workerVars, fileVars
  <2>4. CASE Signal \/ MainStep \/ MainTimeout
    BY <2>2, <2>4, MainFrame DEF workerVars, fileVars
  <2>5. CASE UNCHANGED vars
    BY <2>2, <2>5 DEF vars, workerVars, fileVars
  <2>6. QED
    BY <2>1, <2>2, <2>3, <2>4, <2>5 DEF Next, Ended
<1>2. QED
  BY <1>1, Invariant, Fresh, PTL DEF Spec, UsesHostStore

=============================================================================
