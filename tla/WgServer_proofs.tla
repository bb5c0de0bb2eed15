--------------------------- MODULE WgServer_proofs ---------------------------
(***************************************************************************)
(* Proofs about WgServer, for any number of requests, workers and users,   *)
(* any queue capacity and any number of verification tokens; and, at the   *)
(* end, about WgSaver, for any number of requests and any capacity of its  *)
(* channels.                                                               *)
(***************************************************************************)
EXTENDS WgServer, WgSaver, FiniteSetTheorems, TLAPS

-----------------------------------------------------------------------------
(* The inductive invariant *)

Hashing == {r \in Requests : hpc[r] = "hashing"}

(* verifyTokens counts the handlers that are computing a hash. *)
VerifyInv == verifyTokens = Cardinality(Hashing)

(* Whatever a worker or the queue holds is a request that was enqueued. *)
Enqueued(r) == r \in Requests /\ hpc[r] \in {"await", "returned"}

JobInv ==
    /\ \A i \in 1..Len(jobs) : Enqueued(jobs[i])
    /\ \A w \in Workers : Busy(w) => Enqueued(job[w])
    /\ \A w \in Workers : ~ Busy(w) => job[w] = NoRequest
    /\ \A r \in Requests : data[r] # "none" => Enqueued(r)

IInv == TypeOK /\ VerifyInv /\ JobInv

LEMMA InitIInv == Init => IInv
<1> SUFFICES ASSUME Init PROVE IInv
  OBVIOUS
<1> USE DEF Init
<1>1. TypeOK
  <2>1. jobs \in Seq(Requests) /\ Len(jobs) <= JobsCap
    BY ConstantsOK DEF ConstantsOK
  <2>2. verifyTokens \in 0..VerifyCap
    BY ConstantsOK DEF ConstantsOK
  <2>3. QED
    BY <2>1, <2>2 DEF TypeOK, HandlerPc, WorkerPc, MainPc, Messages, Responses
<1>2. VerifyInv
  <2>1. Hashing = {}
    BY DEF Hashing
  <2>2. QED
    BY <2>1, FS_EmptySet DEF VerifyInv
<1>3. JobInv
  BY DEF JobInv, Busy
<1>4. QED
  BY <1>1, <1>2, <1>3 DEF IInv

LEMMA HandlerTypeOK ==
  ASSUME IInv, NEW r \in Requests, HandlerStep(r)
  PROVE  TypeOK'
<1> USE ConstantsOK DEF ConstantsOK, IInv, TypeOK, HandlerPc, Messages, Responses,
        queueVars, workerVars, kernelVars, mainVars, GoTo, Return
<1>1. CASE Refuse(r)
  BY <1>1 DEF Refuse
<1>2. CASE Parsed(r)
  BY <1>2 DEF Parsed
<1>3. CASE AcquireVerify(r)
  BY <1>3 DEF AcquireVerify
<1>4. CASE VerifyCancelled(r)
  BY <1>4 DEF VerifyCancelled
<1>5. CASE VerifyDone(r)
  <2>1. Hashing # {} /\ IsFiniteSet(Hashing)
    BY <1>5, FS_Subset DEF VerifyDone, Hashing
  <2>2. verifyTokens # 0
    BY <2>1, FS_EmptySet DEF VerifyInv
  <2>3. QED
    BY <1>5, <2>2 DEF VerifyDone
<1>6. CASE FailDelay(r)
  <2>1. CASE Return(r, "denied")
    BY <1>6, <2>1 DEF FailDelay
  <2>2. CASE r \in gone /\ Return(r, "none")
    BY <1>6, <2>2 DEF FailDelay
  <2>3. QED
    BY <1>6, <2>1, <2>2 DEF FailDelay
<1>7. CASE Enqueue(r)
  BY <1>7 DEF Enqueue
<1>8. CASE EnqueuePanic(r)
  BY <1>8 DEF EnqueuePanic
<1>9. CASE Receive(r)
  BY <1>9 DEF Receive
<1>10. CASE GiveUp(r)
  BY <1>10 DEF GiveUp
<1>11. QED
  BY <1>1, <1>2, <1>3, <1>4, <1>5, <1>6, <1>7, <1>8, <1>9, <1>10
     DEF HandlerStep

LEMMA EnvironmentTypeOK ==
  ASSUME IInv, NEW r \in Requests, Environment(r)
  PROVE  TypeOK'
<1> USE DEF IInv, TypeOK, HandlerPc, queueVars, workerVars, kernelVars, mainVars,
        GoTo
<1>1. CASE Arrive(r)
  BY <1>1 DEF Arrive, Returned
<1>2. CASE Disconnect(r)
  BY <1>2 DEF Disconnect
<1>3. CASE JobDeadline(r)
  BY <1>3 DEF JobDeadline
<1>4. QED
  BY <1>1, <1>2, <1>3 DEF Environment

LEMMA WorkerTypeOK ==
  ASSUME IInv, NEW w \in Workers, WorkerStep(w)
  PROVE  TypeOK'
<1>0. UserOf \in [Requests -> Users]
  BY ConstantsOK DEF ConstantsOK
<1> USE <1>0 DEF IInv, TypeOK, WorkerPc, Messages, handlerVars, queueVars,
        kernelVars, mainVars, WGoTo, Forget, ThenDeliver
<1>1. CASE Dequeue(w)
  <2>1. jobs \in Seq(Requests) /\ jobs # <<>> /\ Len(jobs) <= JobsCap
    BY <1>1 DEF Dequeue
  <2>2. /\ Head(jobs) \in Requests /\ Tail(jobs) \in Seq(Requests)
        /\ Len(Tail(jobs)) <= JobsCap
    BY <2>1, ConstantsOK DEF ConstantsOK
  <2>3. QED
    BY <1>1, <2>2 DEF Dequeue
<1>2. CASE WorkerExit(w)
  BY <1>2 DEF WorkerExit
<1>3. CASE CheckJob(w)
  <2>1. CASE Forget(w)
    BY <1>3, <2>1 DEF CheckJob
  <2>2. CASE ThenDeliver(w, "notfound") /\ UNCHANGED job
    BY <1>3, <2>2 DEF CheckJob
  <2>3. CASE WGoTo(w, "start") /\ UNCHANGED <<job, wmsg>>
    BY <1>3, <2>3 DEF CheckJob
  <2>4. QED
    BY <1>3, <2>1, <2>2, <2>3 DEF CheckJob
<1>4. CASE StartSet(w)
  BY <1>4 DEF StartSet
<1>5. CASE KernelSets(w)
  <2>1. job[w] \in Requests
    BY <1>5 DEF KernelSets, JobInv, Busy, Enqueued
  <2>2. UserOf[job[w]] \in Users
    BY <2>1
  <2>3. QED
    BY <1>5, <2>1, <2>2 DEF KernelSets
<1>6. CASE SetDone(w) \/ SetFails(w)
  BY <1>6 DEF SetDone, SetFails
<1>7. CASE Deliver(w)
  <2>1. job[w] \in Requests
    BY <1>7 DEF Deliver, JobInv, Busy, Enqueued
  <2>2. data' \in [Requests -> Messages \cup {"none"}]
    BY <1>7, <2>1 DEF Deliver
  <2>3. QED
    BY <1>7, <2>2 DEF Deliver
<1>8. QED
  BY <1>1, <1>2, <1>3, <1>4, <1>5, <1>6, <1>7 DEF WorkerStep

(* A handler changes verifyTokens exactly when it begins or ends a hash. *)
LEMMA HandlerVerifyInv ==
  ASSUME IInv, NEW r \in Requests, HandlerStep(r)
  PROVE  VerifyInv'
<1> USE DEF IInv, TypeOK, VerifyInv, GoTo, Return
<1>1. IsFiniteSet(Hashing) /\ Cardinality(Hashing) \in Nat
  BY ConstantsOK, FS_Subset, FS_CardinalityType DEF ConstantsOK, Hashing
<1>2. CASE AcquireVerify(r)
  <2>1. Hashing' = Hashing \cup {r} /\ r \notin Hashing
    BY <1>2 DEF AcquireVerify, Hashing
  <2>2. QED
    BY <1>1, <1>2, <2>1, FS_AddElement DEF AcquireVerify
<1>3. CASE VerifyDone(r)
  <2>1. Hashing' = Hashing \ {r} /\ r \in Hashing
    BY <1>3 DEF VerifyDone, Hashing
  <2>2. QED
    BY <1>1, <1>3, <2>1, FS_RemoveElement DEF VerifyDone
<1>4. ASSUME verifyTokens' = verifyTokens,
             \A q \in Requests : hpc'[q] = "hashing" <=> hpc[q] = "hashing"
      PROVE  VerifyInv'
  BY <1>4 DEF Hashing
<1>5. CASE Refuse(r) \/ Parsed(r) \/ VerifyCancelled(r)
  BY <1>4, <1>5 DEF Refuse, Parsed, VerifyCancelled
<1>6. CASE FailDelay(r) \/ Enqueue(r) \/ EnqueuePanic(r)
  BY <1>4, <1>6 DEF FailDelay, Enqueue, EnqueuePanic
<1>7. CASE Receive(r) \/ GiveUp(r)
  BY <1>4, <1>7 DEF Receive, GiveUp
<1>8. QED
  BY <1>2, <1>3, <1>5, <1>6, <1>7 DEF HandlerStep

(* What a queue holds after an element was added or taken. *)
LEMMA AppendElements ==
  ASSUME NEW S, NEW q \in Seq(S), NEW e \in S
  PROVE  /\ Len(Append(q, e)) = Len(q) + 1
         /\ \A i \in 1..Len(q) : Append(q, e)[i] = q[i]
         /\ Append(q, e)[Len(q) + 1] = e
  OBVIOUS

LEMMA TailElements ==
  ASSUME NEW S, NEW q \in Seq(S), q # <<>>
  PROVE  /\ 1 \in 1..Len(q) /\ Head(q) = q[1]
         /\ Len(Tail(q)) = Len(q) - 1
         /\ \A i \in 1..Len(Tail(q)) : i + 1 \in 1..Len(q) /\ Tail(q)[i] = q[i + 1]
  OBVIOUS

(* Only Enqueue puts a request in the queue; no handler touches a worker. *)
LEMMA HandlerFrame ==
  ASSUME IInv, NEW r \in Requests, HandlerStep(r)
  PROVE  /\ UNCHANGED <<wpc, job, wmsg, route, registered, mainPc, forced, before>>
         /\ \A q \in Requests : Enqueued(q) => Enqueued(q)'
         /\ UNCHANGED jobs \/ Enqueue(r)
         /\ Returned \subseteq Returned'
         /\ Active' \subseteq Active
<1> USE DEF IInv, TypeOK, Enqueued, Returned, Active, GoTo, Return, queueVars,
        workerVars, kernelVars, mainVars
<1>1. CASE Refuse(r) \/ Parsed(r) \/ AcquireVerify(r)
  BY <1>1 DEF Refuse, Parsed, AcquireVerify
<1>2. CASE VerifyCancelled(r) \/ VerifyDone(r) \/ FailDelay(r)
  BY <1>2 DEF VerifyCancelled, VerifyDone, FailDelay
<1>3. CASE Enqueue(r) \/ EnqueuePanic(r)
  BY <1>3 DEF Enqueue, EnqueuePanic
<1>4. CASE Receive(r) \/ GiveUp(r)
  BY <1>4 DEF Receive, GiveUp
<1>5. QED
  BY <1>1, <1>2, <1>3, <1>4 DEF HandlerStep

LEMMA HandlerData ==
  ASSUME IInv, NEW r \in Requests, HandlerStep(r)
  PROVE  \A q \in Requests : data'[q] # "none" => data'[q] = data[q]
  BY DEF IInv, TypeOK, HandlerStep, Refuse, Parsed, AcquireVerify,
     VerifyCancelled, VerifyDone, FailDelay, Enqueue, EnqueuePanic, Receive,
     GiveUp, queueVars

(* A request that was enqueued stays enqueued or has returned. *)
LEMMA HandlerJobInv ==
  ASSUME IInv, NEW r \in Requests, HandlerStep(r)
  PROVE  JobInv'
<1> USE DEF IInv, TypeOK, JobInv, Busy
<1>1. (\A i \in 1..Len(jobs) : Enqueued(jobs[i]))'
  <2>1. CASE Enqueue(r)
    <3>1. Enqueued(r)' /\ jobs' = Append(jobs, r)
      BY <2>1 DEF Enqueue, Enqueued, GoTo
    <3>2. ASSUME NEW i \in 1..Len(jobs')
          PROVE  jobs'[i] = r \/ (i \in 1..Len(jobs) /\ jobs'[i] = jobs[i])
      BY <3>1, AppendElements
    <3>3. QED
      BY <3>1, <3>2, HandlerFrame DEF Enqueued
  <2>2. CASE UNCHANGED jobs
    BY <2>2, HandlerFrame DEF Enqueued
  <2>3. QED
    BY <2>1, <2>2, HandlerFrame
<1>2. QED
  BY <1>1, HandlerFrame, HandlerData DEF Enqueued

LEMMA WorkerJobInv ==
  ASSUME IInv, NEW w \in Workers, WorkerStep(w)
  PROVE  JobInv'
<1> USE DEF IInv, TypeOK, JobInv, Busy, Enqueued, WGoTo, Forget, ThenDeliver,
        handlerVars, queueVars
<1>1. CASE Dequeue(w)
  <2>1. Enqueued(Head(jobs)) /\ \A i \in 1..Len(jobs') : Enqueued(jobs'[i])
    BY <1>1, TailElements DEF Dequeue
  <2>2. QED
    BY <1>1, <2>1 DEF Dequeue
<1>2. CASE WorkerExit(w) \/ CheckJob(w)
  BY <1>2 DEF WorkerExit, CheckJob
<1>3. CASE StartSet(w) \/ KernelSets(w) \/ SetDone(w) \/ SetFails(w)
  BY <1>3 DEF StartSet, KernelSets, SetDone, SetFails
<1>4. CASE Deliver(w)
  BY <1>4 DEF Deliver
<1>5. QED
  BY <1>1, <1>2, <1>3, <1>4 DEF WorkerStep

(* What the steps of main and the environment leave alone. *)
LEMMA MainFrame ==
  ASSUME Signal \/ MainStep \/ MainTimeout
  PROVE  UNCHANGED <<handlerVars, queueVars, workerVars, kernelVars>>
  BY DEF Signal, MainStep, MainTimeout, DrainDone, DrainTimeout, CancelWorkers,
     CloseJobs, WorkersDone, WorkersTimeout, Exit, MainGoTo

LEMMA EnvironmentFrame ==
  ASSUME IInv, NEW r \in Requests, Environment(r)
  PROVE  /\ UNCHANGED <<verifyTokens, resp, overrun, queueVars, workerVars,
                        kernelVars, mainVars>>
         /\ \A q \in Requests : hpc'[q] = "hashing" <=> hpc[q] = "hashing"
         /\ \A q \in Requests : Enqueued(q) <=> Enqueued(q)'
         /\ Returned' = Returned
  BY DEF IInv, TypeOK, Environment, Arrive, Disconnect, JobDeadline, Enqueued,
     Returned, GoTo

LEMMA NextIInv == IInv /\ [Next]_vars => IInv'
<1> SUFFICES ASSUME IInv, [Next]_vars PROVE IInv'
  OBVIOUS
<1>1. ASSUME NEW r \in Requests, HandlerStep(r)
      PROVE  IInv'
  BY <1>1, HandlerTypeOK, HandlerVerifyInv, HandlerJobInv DEF IInv
<1>2. ASSUME NEW r \in Requests, Environment(r)
      PROVE  IInv'
  <2>1. VerifyInv'
    BY <1>2, EnvironmentFrame DEF IInv, VerifyInv, Hashing
  <2>2. JobInv'
    BY <1>2, EnvironmentFrame DEF IInv, TypeOK, JobInv, Busy, Enqueued,
       queueVars, workerVars
  <2>3. QED
    BY <1>2, <2>1, <2>2, EnvironmentTypeOK DEF IInv
<1>3. ASSUME NEW w \in Workers, WorkerStep(w)
      PROVE  IInv'
  <2>1. UNCHANGED handlerVars
    BY <1>3 DEF WorkerStep, Dequeue, WorkerExit, CheckJob, StartSet, KernelSets,
       SetDone, SetFails, Deliver
  <2>2. VerifyInv'
    BY <2>1 DEF IInv, VerifyInv, Hashing, handlerVars
  <2>3. QED
    BY <1>3, <2>2, WorkerTypeOK, WorkerJobInv DEF IInv
<1>4. CASE Signal \/ MainStep \/ MainTimeout
  <2>1. mainPc' \in MainPc /\ forced' \in BOOLEAN
    BY <1>4 DEF IInv, TypeOK, MainPc, Signal, MainStep, MainTimeout, DrainDone,
       DrainTimeout, CancelWorkers, CloseJobs, WorkersDone, WorkersTimeout,
       Exit, MainGoTo
  <2>2. QED
    BY <1>4, <2>1, MainFrame DEF IInv, TypeOK, VerifyInv, Hashing, JobInv, Busy,
       Enqueued, handlerVars, queueVars, workerVars, kernelVars
<1>5. CASE UNCHANGED vars
  BY <1>5 DEF IInv, TypeOK, VerifyInv, Hashing, JobInv, Busy, Enqueued, vars,
     handlerVars, queueVars, workerVars, kernelVars, mainVars
<1>6. QED
  BY <1>1, <1>2, <1>3, <1>4, <1>5 DEF Next, Ended

LEMMA Invariant == Spec => []IInv
  BY InitIInv, NextIInv, PTL DEF Spec

(***************************************************************************)
(* The variables of the server always have their types; in particular a    *)
(* verification token is never given back that was not taken.              *)
(***************************************************************************)
THEOREM TypeCorrect == Spec => []TypeOK
<1>1. IInv => TypeOK
  BY DEF IInv
<1>2. QED
  BY <1>1, Invariant, PTL

-----------------------------------------------------------------------------
(* Shutdown.  After a graceful drain no handler is active any more. *)

DrainInv ==
    /\ mainPc \notin {"serving", "draining"} /\ ~ forced => Active = {}
    /\ \A r \in Requests : resp[r] = "panic" => forced

LEMMA InitDrain == Init => DrainInv
  BY DEF Init, DrainInv

LEMMA NextDrain == IInv /\ DrainInv /\ [Next]_vars => DrainInv'
<1> SUFFICES ASSUME IInv, DrainInv, [Next]_vars PROVE DrainInv'
  OBVIOUS
<1>1. ASSUME NEW r \in Requests, HandlerStep(r)
      PROVE  DrainInv'
  <2>1. ASSUME NEW q \in Requests, resp'[q] = "panic"
        PROVE  forced
    <3>1. CASE EnqueuePanic(r)
      BY <3>1, <2>1 DEF IInv, TypeOK, EnqueuePanic, Return, DrainInv, Active,
         JobsClosed
    <3>2. CASE ~ EnqueuePanic(r)
      <4>1. resp[q] = "panic"
        BY <1>1, <2>1, <3>2 DEF IInv, TypeOK, Messages, HandlerStep, Refuse,
           Parsed, AcquireVerify, VerifyCancelled, VerifyDone, FailDelay,
           Enqueue, Receive, GiveUp, Return
      <4>2. QED
        BY <4>1 DEF DrainInv
    <3>3. QED
      BY <3>1, <3>2
  <2>2. QED
    BY <1>1, <2>1, HandlerFrame DEF DrainInv
<1>2. ASSUME NEW r \in Requests, Environment(r)
      PROVE  DrainInv'
  <2>1. mainPc \in {"serving", "draining"} \/ UNCHANGED hpc
    BY <1>2 DEF Environment, Arrive, Disconnect, JobDeadline
  <2>2. QED
    BY <1>2, <2>1, EnvironmentFrame DEF DrainInv, Active, mainVars
<1>3. ASSUME NEW w \in Workers, WorkerStep(w)
      PROVE  DrainInv'
  <2>1. UNCHANGED <<mainPc, forced, resp, hpc>>
    BY <1>3 DEF WorkerStep, Dequeue, WorkerExit, CheckJob, StartSet, KernelSets,
       SetDone, SetFails, Deliver, mainVars, handlerVars
  <2>2. QED
    BY <2>1 DEF DrainInv, Active
<1>4. CASE Signal \/ MainStep \/ MainTimeout
  BY <1>4, MainFrame DEF Signal, MainStep, MainTimeout, DrainDone, DrainTimeout,
     CancelWorkers, CloseJobs, WorkersDone, WorkersTimeout, Exit, MainGoTo,
     handlerVars, DrainInv, Active
<1>5. CASE UNCHANGED vars
  BY <1>5 DEF DrainInv, Active, vars, handlerVars, mainVars
<1>6. QED
  BY <1>1, <1>2, <1>3, <1>4, <1>5 DEF Next, Ended

LEMMA Drained == Spec => []DrainInv
  BY InitDrain, NextDrain, Invariant, PTL DEF Spec

(***************************************************************************)
(* Jobs is never closed under a handler that may send on it, and nobody is *)
(* answered 500 by such a send, unless Shutdown failed.                    *)
(***************************************************************************)
THEOREM CloseIsGraceful == Spec => []GracefulClose
<1>1. DrainInv => GracefulClose
  BY DEF DrainInv, GracefulClose, JobsClosed
<1>2. QED
  BY <1>1, Drained, PTL

(* The steps after which wg set is running for another worker. *)
LEMMA StartedBy ==
  ASSUME IInv, [Next]_vars, NEW w \in Workers,
         wpc[w] # "command", wpc'[w] = "command"
  PROVE  StartSet(w) /\ ~ CtxDone(job[w])
<1>1. PICK v \in Workers : WorkerStep(v)
  BY MainFrame, HandlerFrame, EnvironmentFrame
     DEF Next, Ended, vars, workerVars
<1>2. QED
  BY <1>1 DEF IInv, TypeOK, WorkerStep, Dequeue, WorkerExit, CheckJob, StartSet,
     KernelSets, SetDone, SetFails, Deliver, WGoTo, Forget, ThenDeliver

(***************************************************************************)
(* After an orderly Shutdown no handler is active when Jobs is closed and  *)
(* no worker starts a wg set any more, however many jobs are left:         *)
(* those jobs' handlers have returned, and the worker looks at their       *)
(* contexts.                                                               *)
(***************************************************************************)
THEOREM ShutdownIsOrderly == Spec => OrderlyShutdown
<1>1. ASSUME IInv, DrainInv, [Next]_vars
      PROVE  [NoUpdateStarts]_vars
  <2> SUFFICES ASSUME NEW w \in Workers, wpc[w] # "command", wpc'[w] = "command"
               PROVE  mainPc \in {"serving", "draining"} \/ forced
    BY DEF NoUpdateStarts
  <2>1. job[w] \in Active
    BY <1>1, StartedBy DEF IInv, JobInv, Busy, Enqueued, StartSet, CtxDone,
       Returned, Active
  <2>2. QED
    BY <1>1, <2>1 DEF DrainInv
<1>2. GracefulClose' /\ [NoUpdateStarts]_vars => [GracefulClose' /\ NoUpdateStarts]_vars
  OBVIOUS
<1>3. QED
  BY <1>1, <1>2, Invariant, Drained, CloseIsGraceful, PTL DEF Spec, OrderlyShutdown

-----------------------------------------------------------------------------
(***************************************************************************)
(* Late keys.  A wg set that is running for a request that has returned    *)
(* was running when it returned, because it does not start afterwards.     *)
(***************************************************************************)
LateInv ==
    /\ \A q \in Requests : before[q] \subseteq Returned
    /\ \A w \in Workers :
          wpc[w] = "command" /\ hpc[job[w]] = "returned" => job[w] \in overrun

LEMMA InitLate == Init => LateInv
  BY DEF Init, LateInv

LEMMA HandlerLate ==
  ASSUME IInv, LateInv, NEW r \in Requests, HandlerStep(r)
  PROVE  LateInv'
<1>1. \A q \in Requests : q # r => hpc'[q] = hpc[q]
  BY DEF IInv, TypeOK, HandlerStep, Refuse, Parsed, AcquireVerify,
     VerifyCancelled, VerifyDone, FailDelay, Enqueue, EnqueuePanic, Receive,
     GiveUp, GoTo, Return
<1>2. overrun \subseteq overrun'
  BY DEF HandlerStep, Refuse, Parsed, AcquireVerify, VerifyCancelled,
     VerifyDone, FailDelay, Enqueue, EnqueuePanic, Receive, GiveUp, Return
<1>3. hpc[r] # "returned" /\ hpc'[r] = "returned" /\ Running(r) => r \in overrun'
  BY DEF IInv, TypeOK, HandlerStep, Refuse, Parsed, AcquireVerify,
     VerifyCancelled, VerifyDone, FailDelay, Enqueue, EnqueuePanic, Receive,
     GiveUp, GoTo, Return
<1>4. ASSUME NEW w \in Workers, wpc'[w] = "command", hpc'[job[w]] = "returned"
      PROVE  job[w] \in overrun'
  BY <1>1, <1>2, <1>3, <1>4, HandlerFrame
     DEF LateInv, IInv, JobInv, Busy, Enqueued, Running
<1>5. QED
  BY <1>4, HandlerFrame DEF LateInv

LEMMA NextLate == IInv /\ LateInv /\ [Next]_vars => LateInv'
<1> SUFFICES ASSUME IInv, LateInv, [Next]_vars PROVE LateInv'
  OBVIOUS
<1>1. ASSUME NEW r \in Requests, HandlerStep(r)
      PROVE  LateInv'
  BY <1>1, HandlerLate
<1>2. ASSUME NEW r \in Requests, Environment(r)
      PROVE  LateInv'
  <2>1. \A q \in Requests : before'[q] = before[q] \/ before'[q] = Returned
    BY <1>2 DEF IInv, TypeOK, Environment, Arrive, Disconnect, JobDeadline
  <2>2. \A q \in Requests : hpc'[q] = "returned" <=> hpc[q] = "returned"
    BY <1>2, EnvironmentFrame DEF Returned
  <2>3. QED
    BY <1>2, <2>1, <2>2, EnvironmentFrame
       DEF LateInv, IInv, JobInv, Busy, Enqueued, workerVars
<1>3. ASSUME NEW w \in Workers, WorkerStep(w)
      PROVE  LateInv'
  <2>1. UNCHANGED <<hpc, before, overrun>>
    BY <1>3 DEF WorkerStep, Dequeue, WorkerExit, CheckJob, StartSet, KernelSets,
       SetDone, SetFails, Deliver, handlerVars
  <2>2. ASSUME NEW v \in Workers, wpc'[v] = "command", hpc'[job'[v]] = "returned"
        PROVE  job'[v] \in overrun'
    <3>1. job'[v] = job[v]
      BY <1>3, <2>2 DEF IInv, TypeOK, WorkerStep, Dequeue, WorkerExit, CheckJob,
         StartSet, KernelSets, SetDone, SetFails, Deliver, WGoTo, Forget,
         ThenDeliver
    <3>2. CASE wpc[v] = "command"
      BY <2>1, <2>2, <3>1, <3>2 DEF LateInv
    <3>3. CASE wpc[v] # "command"
      BY <2>1, <2>2, <3>1, <3>3, StartedBy
         DEF IInv, JobInv, Busy, Enqueued, StartSet, CtxDone, Returned
    <3>4. QED
      BY <3>2, <3>3
  <2>3. QED
    BY <2>1, <2>2 DEF LateInv, Returned
<1>4. CASE (Signal \/ MainStep \/ MainTimeout) \/ UNCHANGED vars
  <2>1. UNCHANGED <<hpc, before, overrun, wpc, job>>
    BY <1>4, MainFrame DEF vars, handlerVars, workerVars
  <2>2. QED
    BY <2>1 DEF LateInv, Returned
<1>5. QED
  BY <1>1, <1>2, <1>3, <1>4 DEF Next, Ended

LEMMA Late == Spec => []LateInv
  BY InitLate, NextLate, Invariant, PTL DEF Spec

(* Only the kernel moves an address, and it moves it to the worker's job. *)
LEMMA RoutedBy ==
  ASSUME [Next]_vars, route' # route
  PROVE  \E w \in Workers : KernelSets(w)
<1>1. PICK w \in Workers : WorkerStep(w)
  BY MainFrame DEF Next, Ended, vars, kernelVars, HandlerStep, Refuse, Parsed,
     AcquireVerify, VerifyCancelled, VerifyDone, FailDelay, Enqueue,
     EnqueuePanic, Receive, GiveUp, Environment, Arrive, Disconnect, JobDeadline
<1>2. QED
  BY <1>1 DEF WorkerStep, Dequeue, WorkerExit, CheckJob, StartSet, SetDone,
     SetFails, Deliver, kernelVars

(***************************************************************************)
(* An address goes to the key of a request that was over before a newer    *)
(* one was made only if its wg set was running when it ended, for any      *)
(* number of workers and requests.                                         *)
(***************************************************************************)
THEOREM LateNeedsOverrun == Spec => OnlyOverrunsAreLate
<1> DEFINE Overrun == \A u \in Users :
             route'[u] # route[u] /\ Outdated(route'[u]) => route'[u] \in overrun
<1>1. ASSUME IInv, LateInv, [Next]_vars
      PROVE  [Overrun]_vars
  <2> SUFFICES ASSUME NEW u \in Users, route'[u] # route[u], Outdated(route'[u])
               PROVE  route'[u] \in overrun
    OBVIOUS
  <2>1. PICK w \in Workers : KernelSets(w)
    <3>1. route' # route
      OBVIOUS
    <3>2. QED
      BY <1>1, <3>1, RoutedBy
  <2>2. route'[u] = job[w] /\ wpc[w] = "command"
    BY <1>1, <2>1 DEF IInv, TypeOK, KernelSets
  <2>3. job[w] \in Returned
    BY <1>1, <2>2 DEF IInv, TypeOK, LateInv, Outdated
  <2>4. QED
    BY <1>1, <2>2, <2>3 DEF LateInv, Returned
<1>2. QED
  BY <1>1, Invariant, Late, PTL DEF Spec, OnlyOverrunsAreLate

-----------------------------------------------------------------------------
(***************************************************************************)
(* Ownership of jobs.  A peer the kernel has been given belongs to a       *)
(* request whose job is past its wg set.                                   *)
(***************************************************************************)
InQueue == {jobs[i] : i \in 1..Len(jobs)}

OwnInv ==
    /\ \A i, j \in 1..Len(jobs) : jobs[i] = jobs[j] => i = j
    /\ \A v, w \in Workers : Busy(v) /\ Busy(w) /\ job[v] = job[w] => v = w
    /\ \A w \in Workers : Busy(w) => job[w] \notin InQueue
    /\ \A r \in Requests :
          data[r] # "none" => r \notin InQueue /\ \A w \in Workers : job[w] # r
    /\ \A r \in registered :
          /\ Enqueued(r)
          /\ r \notin InQueue
          /\ \A w \in Workers : job[w] = r => wpc[w] \in {"applied", "deliver"}

LEMMA InitOwn == Init => OwnInv
  BY DEF Init, OwnInv, Busy, InQueue

(* A request that is added to the queue is new to it, to workers and data. *)
LEMMA HandlerOwn ==
  ASSUME IInv, OwnInv, NEW r \in Requests, HandlerStep(r)
  PROVE  OwnInv'
<1> USE DEF OwnInv, Busy
<1>1. CASE UNCHANGED jobs
  <2>1. InQueue' = InQueue
    BY <1>1 DEF InQueue
  <2>2. /\ UNCHANGED <<wpc, job, registered>>
        /\ \A q \in Requests : data'[q] # "none" => data[q] # "none"
        /\ \A q \in registered : Enqueued(q)'
    BY HandlerData, HandlerFrame DEF IInv, TypeOK
  <2>3. QED
    BY <1>1, <2>1, <2>2
<1>2. CASE Enqueue(r)
  <2>1. /\ jobs' = Append(jobs, r) /\ jobs \in Seq(Requests)
        /\ UNCHANGED data
        /\ ~ Enqueued(r)
    BY <1>2 DEF IInv, TypeOK, Enqueue, Enqueued
  <2>2. /\ Len(jobs') = Len(jobs) + 1
        /\ \A i \in 1..Len(jobs) : jobs'[i] = jobs[i]
        /\ jobs'[Len(jobs) + 1] = r
    BY <2>1, AppendElements
  <2>3. \A i \in 1..Len(jobs) : jobs[i] # r
    BY <2>1 DEF IInv, JobInv
  <2>4. Len(jobs) \in Nat
    BY <2>1
  <2>5. \A i, j \in 1..Len(jobs') : jobs'[i] = jobs'[j] => i = j
    <3> SUFFICES ASSUME NEW i \in 1..Len(jobs'), NEW j \in 1..Len(jobs'),
                        jobs'[i] = jobs'[j]
                 PROVE  i = j
      OBVIOUS
    <3>1. CASE i \in 1..Len(jobs) /\ j \in 1..Len(jobs)
      BY <2>2, <3>1
    <3>2. CASE i = Len(jobs) + 1 /\ j = Len(jobs) + 1
      BY <3>2
    <3>3. CASE i \in 1..Len(jobs) /\ j = Len(jobs) + 1
      BY <2>2, <2>3, <3>3
    <3>4. CASE i = Len(jobs) + 1 /\ j \in 1..Len(jobs)
      BY <2>2, <2>3, <3>4
    <3>5. QED
      BY <2>2, <2>4, <3>1, <3>2, <3>3, <3>4
  <2>6. InQueue' \subseteq InQueue \cup {r}
    BY <2>2, <2>4 DEF InQueue
  <2>7. /\ \A w \in Workers : Busy(w) => job[w] # r
        /\ data[r] = "none"
        /\ r \notin registered
    BY <2>1 DEF IInv, JobInv
  <2>8. /\ UNCHANGED <<wpc, job, registered>>
        /\ \A q \in registered : Enqueued(q)'
    BY HandlerFrame DEF IInv, TypeOK
  <2>9. \A w \in Workers : ~ Busy(w) => job[w] # r
    BY ConstantsOK DEF IInv, JobInv, ConstantsOK
  <2>10. QED
    BY <2>1, <2>5, <2>6, <2>7, <2>8, <2>9
<1>3. QED
  BY <1>1, <1>2, HandlerFrame

LEMMA WorkerOwn ==
  ASSUME IInv, OwnInv, NEW w \in Workers, WorkerStep(w)
  PROVE  OwnInv'
<1> USE DEF OwnInv, Busy, WGoTo, Forget, ThenDeliver, handlerVars, queueVars,
        kernelVars
<1>1. CASE Dequeue(w)
  <2>1. /\ jobs \in Seq(Requests) /\ jobs # <<>> /\ jobs' = Tail(jobs)
        /\ wpc[w] = "idle" /\ job[w] = NoRequest
        /\ wpc' = [wpc EXCEPT ![w] = "check"]
        /\ job' = [job EXCEPT ![w] = Head(jobs)]
        /\ UNCHANGED <<hpc, data, registered>>
    BY <1>1 DEF IInv, TypeOK, JobInv, Dequeue
  <2>2. /\ 1 \in 1..Len(jobs) /\ Head(jobs) = jobs[1]
        /\ Len(jobs') = Len(jobs) - 1
        /\ \A i \in 1..Len(jobs') :
              i + 1 \in 1..Len(jobs) /\ jobs'[i] = jobs[i + 1]
    BY <2>1, TailElements
  <2>3. Head(jobs) \in InQueue /\ Head(jobs) \in Requests
    BY <2>1, <2>2 DEF InQueue
  <2>4. InQueue' \subseteq InQueue \ {Head(jobs)}
    BY <2>2 DEF InQueue
  <2>5. \A i, j \in 1..Len(jobs') : jobs'[i] = jobs'[j] => i = j
    BY <2>2
  <2>6. \A v \in Workers : Busy(v) => job[v] # Head(jobs)
    BY <2>3
  <2>7. wpc \in [Workers -> WorkerPc] /\ job \in [Workers -> Requests \cup {NoRequest}]
    BY DEF IInv, TypeOK
  <2>8. \A u, v \in Workers : Busy(u)' /\ Busy(v)' /\ job'[u] = job'[v] => u = v
    BY <2>1, <2>6, <2>7
  <2>9. \A v \in Workers : Busy(v)' => job'[v] \notin InQueue'
    BY <2>1, <2>4, <2>7
  <2>10. \A q \in Requests :
            data'[q] # "none" => q \notin InQueue' /\ \A v \in Workers : job'[v] # q
    BY <2>1, <2>3, <2>4, <2>7
  <2>11. \A r \in registered' :
            /\ Enqueued(r)'
            /\ r \notin InQueue'
            /\ \A v \in Workers :
                  job'[v] = r => wpc'[v] \in {"applied", "deliver"}
    BY <2>1, <2>3, <2>4, <2>7 DEF Enqueued
  <2>12. QED
    BY <2>5, <2>8, <2>9, <2>10, <2>11
<1> USE DEF InQueue
<1>2. CASE WorkerExit(w)
  BY <1>2 DEF WorkerExit, IInv, TypeOK, JobInv, Enqueued
<1>3. CASE CheckJob(w)
  <2>1. /\ wpc[w] = "check" /\ wpc' \in [Workers -> WorkerPc]
        /\ UNCHANGED <<jobs, data, hpc, registered>>
        /\ \A v \in Workers \ {w} : wpc'[v] = wpc[v] /\ job'[v] = job[v]
        /\ job[w] \notin registered
        /\ \/ wpc'[w] = "idle" /\ job'[w] = NoRequest
           \/ job'[w] = job[w]
    <3>1. wpc[w] = "check" /\ wpc' \in [Workers -> WorkerPc]
      BY <1>3 DEF CheckJob, IInv, TypeOK, WorkerPc
    <3>2. job[w] \notin registered
      BY <3>1
    <3>3. QED
      BY <1>3, <3>1, <3>2 DEF CheckJob, IInv, TypeOK
  <2>2. NoRequest \notin Requests /\ registered \subseteq Requests
    BY ConstantsOK DEF ConstantsOK, IInv, TypeOK
  <2>3. \A v \in Workers : Busy(v)' => Busy(v) /\ job'[v] = job[v]
    BY <2>1, <2>2 DEF IInv, JobInv, Enqueued
  <2>4. InQueue' = InQueue
    BY <2>1
  <2>5. \A v \in Workers : job'[v] \in Requests => job'[v] = job[v]
    BY <2>1, <2>2
  <2>6. \A q \in Requests :
           data'[q] # "none" => q \notin InQueue' /\ \A v \in Workers : job'[v] # q
    BY <2>1, <2>4, <2>5
  <2>7. \A v \in Workers :
           job'[v] \in registered => wpc'[v] \in {"applied", "deliver"}
    BY <2>1, <2>2, <2>5
  <2> HIDE DEF InQueue
  <2>8. QED
    BY <2>1, <2>3, <2>4, <2>6, <2>7 DEF Enqueued
<1>4. CASE StartSet(w)
  BY <1>4 DEF StartSet, IInv, TypeOK, JobInv, Enqueued
<1>5. CASE KernelSets(w)
  <2>1. /\ wpc[w] = "command" /\ wpc' = [wpc EXCEPT ![w] = "applied"]
        /\ registered' = registered \cup {job[w]}
        /\ UNCHANGED <<jobs, data, job, hpc>>
        /\ wpc \in [Workers -> WorkerPc]
    BY <1>5 DEF KernelSets, IInv, TypeOK
  <2>2. Enqueued(job[w]) /\ job[w] \notin InQueue
    BY <2>1 DEF IInv, JobInv
  <2>3. \A v \in Workers : job[v] = job[w] => v = w
    BY <2>1, <2>2, ConstantsOK DEF IInv, JobInv, Enqueued, ConstantsOK
  <2>4. \A v \in Workers : Busy(v)' <=> Busy(v)
    BY <2>1
  <2>5. QED
    BY <2>1, <2>2, <2>3, <2>4 DEF Enqueued
<1>6. CASE SetDone(w)
  BY <1>6 DEF SetDone, IInv, TypeOK, JobInv, Enqueued
<1>7. CASE SetFails(w)
  <2>1. /\ wpc[w] \in {"command", "applied"} /\ wpc' = [wpc EXCEPT ![w] = "deliver"]
        /\ UNCHANGED <<jobs, data, job, hpc, registered>>
        /\ wpc \in [Workers -> WorkerPc]
    BY <1>7 DEF SetFails, IInv, TypeOK
  <2>2. QED
    BY <2>1 DEF Enqueued
<1>8. CASE Deliver(w)
  BY <1>8, ConstantsOK DEF Deliver, IInv, TypeOK, JobInv, Enqueued, ConstantsOK
<1>9. QED
  BY <1>1, <1>2, <1>3, <1>4, <1>5, <1>6, <1>7, <1>8 DEF WorkerStep

LEMMA NextOwn == IInv /\ OwnInv /\ [Next]_vars => OwnInv'
<1> SUFFICES ASSUME IInv, OwnInv, [Next]_vars PROVE OwnInv'
  OBVIOUS
<1>1. ASSUME NEW r \in Requests, HandlerStep(r)
      PROVE  OwnInv'
  BY <1>1, HandlerOwn
<1>2. ASSUME NEW w \in Workers, WorkerStep(w)
      PROVE  OwnInv'
  BY <1>2, WorkerOwn
<1>3. ASSUME UNCHANGED <<jobs, data, wpc, job, registered>>,
             \A q \in Requests : Enqueued(q) <=> Enqueued(q)'
      PROVE  OwnInv'
  BY <1>3 DEF OwnInv, Busy, InQueue, Enqueued
<1>4. ASSUME NEW r \in Requests, Environment(r)
      PROVE  OwnInv'
  BY <1>3, <1>4, EnvironmentFrame DEF queueVars, workerVars, kernelVars
<1>5. CASE (Signal \/ MainStep \/ MainTimeout) \/ UNCHANGED vars
  BY <1>3, <1>5, MainFrame
     DEF vars, handlerVars, queueVars, workerVars, kernelVars, Enqueued
<1>6. QED
  BY <1>1, <1>2, <1>4, <1>5 DEF Next, Ended

LEMMA Owned == Spec => []OwnInv
  BY InitOwn, NextOwn, Invariant, PTL DEF Spec

-----------------------------------------------------------------------------
(***************************************************************************)
(* No job is lost.  Workers leave only when they are told to, by which     *)
(* time an orderly Shutdown has seen every handler return.                 *)
(***************************************************************************)
LostInv ==
    /\ \A w \in Workers : wpc[w] = "exited" => Cancelled
    /\ \A w \in Workers : wpc[w] = "deliver" => wmsg[w] # "none"
    /\ \A r \in Requests :
          hpc[r] = "await" /\ ~ CtxDone(r) =>
              \/ r \in InQueue
              \/ \E w \in Workers : job[w] = r
              \/ data[r] # "none"

LEMMA InitLost == Init => LostInv
  BY DEF Init, LostInv

LEMMA HandlerLost ==
  ASSUME IInv, LostInv, NEW r \in Requests, HandlerStep(r)
  PROVE  LostInv'
<1>1. UNCHANGED <<wpc, job, wmsg, mainPc>>
  BY HandlerFrame
<1>2. \A q \in Requests \ {r} :
         hpc'[q] = hpc[q] /\ data'[q] = data[q] /\ (CtxDone(q) => CtxDone(q)')
  BY DEF IInv, TypeOK, HandlerStep, Refuse, Parsed, AcquireVerify,
     VerifyCancelled, VerifyDone, FailDelay, Enqueue, EnqueuePanic, Receive,
     GiveUp, GoTo, Return, CtxDone, Returned, queueVars
<1>3. hpc'[r] = "await" => Enqueue(r)
  BY DEF IInv, TypeOK, HandlerStep, Refuse, Parsed, AcquireVerify,
     VerifyCancelled, VerifyDone, FailDelay, EnqueuePanic, Receive, GiveUp,
     GoTo, Return
<1>4. InQueue \subseteq InQueue' /\ (Enqueue(r) => r \in InQueue')
  <2>1. CASE UNCHANGED jobs /\ ~ Enqueue(r)
    BY <2>1 DEF InQueue
  <2>2. CASE Enqueue(r)
    <3>1. /\ Len(jobs') = Len(jobs) + 1 /\ Len(jobs) \in Nat
          /\ \A i \in 1..Len(jobs) : jobs'[i] = jobs[i]
          /\ jobs'[Len(jobs) + 1] = r
      BY <2>2, AppendElements DEF Enqueue, IInv, TypeOK
    <3>2. QED
      BY <3>1 DEF InQueue
  <2>3. QED
    BY <2>1, <2>2, HandlerFrame
<1>5. QED
  BY <1>1, <1>2, <1>3, <1>4 DEF LostInv, Cancelled

LEMMA WorkerLost ==
  ASSUME IInv, LostInv, NEW w \in Workers, WorkerStep(w)
  PROVE  LostInv'
<1>1. /\ UNCHANGED <<hpc, gone, expired, mainPc>>
      /\ \A q \in Requests : CtxDone(q)' <=> CtxDone(q)
      /\ Cancelled' = Cancelled
  BY DEF WorkerStep, Dequeue, WorkerExit, CheckJob, StartSet, KernelSets,
     SetDone, SetFails, Deliver, handlerVars, mainVars, CtxDone, Returned,
     Cancelled
<1>2. /\ \A v \in Workers \ {w} :
            wpc'[v] = wpc[v] /\ job'[v] = job[v] /\ wmsg'[v] = wmsg[v]
      /\ wpc'[w] = "exited" => Cancelled
      /\ wpc'[w] = "deliver" => wmsg'[w] # "none"
  BY DEF IInv, TypeOK, WorkerStep, Dequeue, WorkerExit, CheckJob, StartSet,
     KernelSets, SetDone, SetFails, Deliver, WGoTo, Forget, ThenDeliver,
     Cancelled, JobsClosed
<1>3. ASSUME NEW q \in Requests, ~ CtxDone(q),
             q \in InQueue \/ (\E v \in Workers : job[v] = q) \/ data[q] # "none"
      PROVE  q \in InQueue' \/ (\E v \in Workers : job'[v] = q) \/ data'[q] # "none"
  <2>1. CASE Dequeue(w)
    <3>1. /\ jobs \in Seq(Requests) /\ jobs # <<>> /\ jobs' = Tail(jobs)
          /\ job[w] = NoRequest /\ job'[w] = Head(jobs)
          /\ UNCHANGED data
      BY <2>1 DEF Dequeue, IInv, TypeOK, JobInv, Busy
    <3>2. /\ Head(jobs) = jobs[1] /\ Len(jobs') = Len(jobs) - 1
          /\ Len(jobs) \in Nat
          /\ \A i \in 1..Len(jobs') : jobs'[i] = jobs[i + 1]
      BY <3>1, TailElements
    <3>3. CASE q \in InQueue
      <4>1. PICK i \in 1..Len(jobs) : jobs[i] = q
        BY <3>3 DEF InQueue
      <4>2. CASE i = 1
        BY <3>1, <3>2, <4>1, <4>2
      <4>3. CASE i # 1
        <5>1. i - 1 \in 1..Len(jobs') /\ jobs'[i - 1] = q
          BY <3>2, <4>1, <4>3
        <5>2. QED
          BY <5>1 DEF InQueue
      <4>4. QED
        BY <4>2, <4>3
    <3>4. NoRequest \notin Requests
      BY ConstantsOK DEF ConstantsOK
    <3>5. QED
      BY <1>2, <1>3, <3>1, <3>3, <3>4
  <2>2. CASE ~ Dequeue(w)
    <3>1. UNCHANGED jobs /\ InQueue' = InQueue
      BY <2>2 DEF WorkerStep, WorkerExit, CheckJob, StartSet, KernelSets,
         SetDone, SetFails, Deliver, queueVars, InQueue
    <3>2. \/ job'[w] = job[w]
          \/ job[w] = q => data'[q] # "none"
      BY <1>3, <2>2 DEF IInv, TypeOK, LostInv, WorkerStep, WorkerExit, CheckJob,
         StartSet, KernelSets, SetDone, SetFails, Deliver, ThenDeliver, Forget
    <3>3. data[q] # "none" => data'[q] # "none"
      BY <2>2 DEF IInv, TypeOK, LostInv, WorkerStep, WorkerExit, CheckJob,
         StartSet, KernelSets, SetDone, SetFails, Deliver, queueVars
    <3>4. QED
      BY <1>2, <1>3, <3>1, <3>2, <3>3
  <2>3. QED
    BY <2>1, <2>2
<1>4. QED
  BY <1>1, <1>2, <1>3 DEF LostInv

LEMMA NextLost == IInv /\ LostInv /\ [Next]_vars => LostInv'
<1> SUFFICES ASSUME IInv, LostInv, [Next]_vars PROVE LostInv'
  OBVIOUS
<1>1. ASSUME NEW r \in Requests, HandlerStep(r)
      PROVE  LostInv'
  BY <1>1, HandlerLost
<1>2. ASSUME NEW w \in Workers, WorkerStep(w)
      PROVE  LostInv'
  BY <1>2, WorkerLost
<1>3. ASSUME UNCHANGED <<jobs, data, wpc, job, wmsg>>, Cancelled => Cancelled',
             \A q \in Requests : hpc'[q] = "await" <=> hpc[q] = "await",
             \A q \in Requests : CtxDone(q) => CtxDone(q)'
      PROVE  LostInv'
  BY <1>3 DEF LostInv, InQueue
<1>4. ASSUME NEW r \in Requests, Environment(r)
      PROVE  LostInv'
  <2>1. /\ UNCHANGED <<jobs, data, wpc, job, wmsg>> /\ (Cancelled => Cancelled')
        /\ \A q \in Requests : hpc'[q] = "await" <=> hpc[q] = "await"
        /\ \A q \in Requests : CtxDone(q) => CtxDone(q)'
    BY <1>4 DEF IInv, TypeOK, Environment, Arrive, Disconnect, JobDeadline, GoTo,
       queueVars, workerVars, mainVars, Cancelled, CtxDone, Returned
  <2>2. QED
    BY <1>3, <2>1
<1>5. CASE (Signal \/ MainStep \/ MainTimeout) \/ UNCHANGED vars
  <2>1. UNCHANGED <<handlerVars, queueVars, workerVars>>
    BY <1>5, MainFrame DEF vars
  <2>2. Cancelled => Cancelled'
    BY <1>5 DEF Signal, MainStep, MainTimeout, DrainDone, DrainTimeout,
       CancelWorkers, CloseJobs, WorkersDone, WorkersTimeout, Exit, MainGoTo,
       Cancelled, vars, mainVars
  <2>3. QED
    BY <1>3, <2>1, <2>2 DEF handlerVars, queueVars, workerVars, CtxDone, Returned
<1>6. QED
  BY <1>1, <1>2, <1>4, <1>5 DEF Next, Ended

LEMMA NothingLost == Spec => []LostInv
  BY InitLost, NextLost, Invariant, PTL DEF Spec

(***************************************************************************)
(* The job of a client that waits is in exactly one place, and if that is  *)
(* the queue some worker reads it, unless Shutdown failed.                 *)
(***************************************************************************)
THEOREM JobsAccountedFor == Spec => []JobsAccounted
<1>1. OwnInv => OneOwner
  BY DEF OwnInv, OneOwner, InQueue, Queued
<1>2. IInv /\ DrainInv /\ LostInv => NoLostJob
  <2> SUFFICES ASSUME IInv, DrainInv, LostInv, NEW r \in Requests,
                      hpc[r] = "await", ~ CtxDone(r), ~ forced
               PROVE  \/ Queued(r) /\ \E w \in Workers : wpc[w] # "exited"
                      \/ \E w \in Workers : job[w] = r
                      \/ data[r] # "none"
    BY DEF NoLostJob
  <2>1. r \in Active
    BY DEF Active
  <2>2. ~ Cancelled
    BY <2>1 DEF DrainInv, Cancelled
  <2>3. \E w \in Workers : wpc[w] # "exited"
    BY <2>2, ConstantsOK DEF LostInv, ConstantsOK
  <2>4. r \in InQueue => Queued(r)
    BY DEF InQueue, Queued
  <2>5. QED
    BY <2>3, <2>4 DEF LostInv
<1>3. QED
  BY <1>1, <1>2, Invariant, Drained, Owned, NothingLost, PTL DEF JobsAccounted

-----------------------------------------------------------------------------
(***************************************************************************)
(* The refinement of Registration.  The answers are kept in step with the  *)
(* peers: "config" follows a wg set, "notfound" excludes one for good, and *)
(* a client that left its job behind was told "timeout".                   *)
(***************************************************************************)
AnswerInv ==
    /\ \A w \in Workers :
          /\ wpc[w] \in {"start", "command", "applied"} =>
                UserOf[job[w]] \in Known
          /\ wpc[w] = "applied" => job[w] \in registered
          /\ wpc[w] = "deliver" /\ wmsg[w] = "config" => job[w] \in registered
          /\ wpc[w] = "deliver" /\ wmsg[w] = "notfound" =>
                UserOf[job[w]] \notin Known
          /\ Busy(w) /\ hpc[job[w]] = "returned" => resp[job[w]] = "timeout"
    /\ \A r \in InQueue : hpc[r] = "returned" => resp[r] = "timeout"
    /\ \A r \in Requests :
          /\ data[r] = "config" => r \in registered
          /\ data[r] = "notfound" => UserOf[r] \notin Known
    /\ \A r \in registered :
          /\ UserOf[r] \in Known
          /\ hpc[r] = "returned" => resp[r] \in {"timeout", "config", "internal"}

LEMMA InitAnswer == Init => AnswerInv
  BY DEF Init, AnswerInv, Busy, InQueue

(* How a handler answers, and what it may have been told before. *)
LEMMA HandlerAnswers ==
  ASSUME IInv, OwnInv, AnswerInv, NEW r \in Requests, HandlerStep(r)
  PROVE  /\ hpc[r] # "returned"
         /\ \A q \in Requests \ {r} : hpc'[q] = hpc[q] /\ resp'[q] = resp[q]
         /\ hpc'[r] = "returned" /\ Enqueued(r) =>
               \/ resp'[r] = "timeout"
               \/ resp'[r] = data[r] /\ data[r] # "none"
         /\ hpc'[r] = "returned" /\ ~ Enqueued(r) =>
               resp'[r] \in {"refused", "denied", "none", "panic", "timeout"}
         /\ hpc[r] # "idle" /\ hpc'[r] # "idle"
         /\ UserOf \in [Requests -> Users]
<1> USE ConstantsOK DEF ConstantsOK, IInv, TypeOK, Enqueued, GoTo, Return
<1>1. CASE Refuse(r) \/ Parsed(r) \/ AcquireVerify(r)
  BY <1>1 DEF Refuse, Parsed, AcquireVerify
<1>2. CASE VerifyCancelled(r) \/ VerifyDone(r) \/ FailDelay(r)
  BY <1>2 DEF VerifyCancelled, VerifyDone, FailDelay
<1>3. CASE Enqueue(r) \/ EnqueuePanic(r)
  BY <1>3 DEF Enqueue, EnqueuePanic
<1>4. CASE Receive(r) \/ GiveUp(r)
  BY <1>4 DEF Receive, GiveUp
<1>5. QED
  BY <1>1, <1>2, <1>3, <1>4 DEF HandlerStep

LEMMA HandlerAnswer ==
  ASSUME IInv, OwnInv, AnswerInv, NEW r \in Requests, HandlerStep(r)
  PROVE  AnswerInv'
<1>1. /\ UNCHANGED <<wpc, job, wmsg, registered>>
      /\ \A q \in Requests : data'[q] # "none" => data'[q] = data[q]
      /\ registered \subseteq Requests
      /\ \A w \in Workers : Busy(w)' <=> Busy(w)
  BY HandlerFrame, HandlerData DEF IInv, TypeOK, Busy
<1>2. InQueue' \subseteq InQueue \cup {r} /\ (r \in InQueue' => r \in InQueue \/ hpc'[r] # "returned")
  <2>1. CASE UNCHANGED jobs
    BY <2>1 DEF InQueue
  <2>2. CASE Enqueue(r)
    <3>1. /\ jobs' = Append(jobs, r) /\ jobs \in Seq(Requests)
          /\ hpc'[r] = "await"
      BY <2>2 DEF IInv, TypeOK, Enqueue, GoTo
    <3>2. /\ Len(jobs') = Len(jobs) + 1 /\ Len(jobs) \in Nat
          /\ \A i \in 1..Len(jobs) : jobs'[i] = jobs[i]
          /\ jobs'[Len(jobs) + 1] = r
      BY <3>1, AppendElements
    <3>3. QED
      BY <3>1, <3>2 DEF InQueue
  <2>3. QED
    BY <2>1, <2>2, HandlerFrame
<1>3. InQueue \subseteq {q \in Requests : Enqueued(q)}
  BY DEF InQueue, IInv, JobInv, Enqueued
<1>4. (r \in InQueue \/ \E w \in Workers : job[w] = r) => data[r] = "none"
  BY DEF OwnInv
<1>5. ASSUME NEW w \in Workers, Busy(w), hpc'[job[w]] = "returned"
      PROVE  resp'[job[w]] = "timeout"
  <2>1. Enqueued(job[w])
    BY <1>5 DEF IInv, JobInv
  <2>2. QED
    BY <1>4, <1>5, <2>1, HandlerAnswers DEF AnswerInv, Enqueued
<1>6. ASSUME NEW q \in InQueue', hpc'[q] = "returned"
      PROVE  resp'[q] = "timeout"
  BY <1>2, <1>3, <1>4, <1>6, HandlerAnswers DEF AnswerInv
<1>7. ASSUME NEW q \in registered, hpc'[q] = "returned"
      PROVE  resp'[q] \in {"timeout", "config", "internal"}
  <2>1. Enqueued(q) /\ q \in Requests /\ UserOf[q] \in Known
    BY <1>1 DEF OwnInv, AnswerInv
  <2>2. data[q] \in {"none", "config", "internal"}
    BY <2>1 DEF AnswerInv, IInv, TypeOK, Messages
  <2>3. QED
    BY <1>7, <2>1, <2>2, HandlerAnswers DEF AnswerInv
<1>8. QED
  BY <1>1, <1>5, <1>6, <1>7 DEF AnswerInv

LEMMA WorkerAnswer ==
  ASSUME IInv, OwnInv, AnswerInv, NEW w \in Workers, WorkerStep(w)
  PROVE  AnswerInv'
<1> USE DEF AnswerInv, Busy, WGoTo, Forget, ThenDeliver, handlerVars,
        queueVars, kernelVars
<1>1. CASE Dequeue(w)
  <2>1. /\ jobs \in Seq(Requests) /\ jobs # <<>> /\ jobs' = Tail(jobs)
        /\ wpc' = [wpc EXCEPT ![w] = "check"]
        /\ job' = [job EXCEPT ![w] = Head(jobs)]
        /\ wpc \in [Workers -> WorkerPc]
        /\ job \in [Workers -> Requests \cup {NoRequest}]
        /\ UNCHANGED <<hpc, resp, wmsg, data, registered>>
    BY <1>1 DEF IInv, TypeOK, Dequeue
  <2>2. Head(jobs) \in InQueue /\ InQueue' \subseteq InQueue
    BY <2>1, TailElements DEF InQueue
  <2>3. QED
    BY <2>1, <2>2
<1> USE DEF InQueue
<1>2. CASE WorkerExit(w)
  BY <1>2 DEF WorkerExit, IInv, TypeOK
<1>3. CASE CheckJob(w)
  BY <1>3 DEF CheckJob, IInv, TypeOK
<1>4. CASE StartSet(w)
  BY <1>4 DEF StartSet, IInv, TypeOK
<1>5. CASE KernelSets(w)
  <2>1. Enqueued(job[w])
    BY <1>5 DEF KernelSets, IInv, JobInv
  <2>2. QED
    BY <1>5, <2>1 DEF KernelSets, IInv, TypeOK, Enqueued
<1>6. CASE SetDone(w)
  BY <1>6 DEF SetDone, IInv, TypeOK
<1>7. CASE SetFails(w)
  BY <1>7 DEF SetFails, IInv, TypeOK
<1>8. CASE Deliver(w)
  BY <1>8 DEF Deliver, IInv, TypeOK
<1>9. QED
  BY <1>1, <1>2, <1>3, <1>4, <1>5, <1>6, <1>7, <1>8 DEF WorkerStep

(* Requests arrive, clients leave and deadlines pass: no answer changes. *)
LEMMA EnvironmentAnswer ==
  ASSUME IInv, NEW r \in Requests, Environment(r)
  PROVE  /\ UNCHANGED <<resp, data, jobs, wpc, job, wmsg, route, registered>>
         /\ \A q \in Requests : hpc'[q] = "returned" <=> hpc[q] = "returned"
         /\ \A q \in Requests \ {r} : hpc'[q] = hpc[q]
         /\ Arrive(r) \/ UNCHANGED <<hpc, before>>
  BY DEF IInv, TypeOK, Environment, Arrive, Disconnect, JobDeadline, GoTo,
     queueVars, workerVars, kernelVars

LEMMA NextAnswer == IInv /\ OwnInv /\ AnswerInv /\ [Next]_vars => AnswerInv'
<1> SUFFICES ASSUME IInv, OwnInv, AnswerInv, [Next]_vars PROVE AnswerInv'
  OBVIOUS
<1>1. ASSUME NEW r \in Requests, HandlerStep(r)
      PROVE  AnswerInv'
  BY <1>1, HandlerAnswer
<1>2. ASSUME NEW w \in Workers, WorkerStep(w)
      PROVE  AnswerInv'
  BY <1>2, WorkerAnswer
<1>3. ASSUME UNCHANGED <<resp, data, jobs, wpc, job, wmsg, registered>>,
             \A q \in Requests : hpc'[q] = "returned" <=> hpc[q] = "returned"
      PROVE  AnswerInv'
  <2>1. /\ \A w \in Workers : Busy(w) => job[w] \in Requests
        /\ InQueue \subseteq Requests /\ registered \subseteq Requests
    BY DEF IInv, TypeOK, JobInv, Enqueued, InQueue
  <2>2. InQueue' = InQueue
    BY <1>3 DEF InQueue
  <2>3. QED
    BY <1>3, <2>1, <2>2 DEF AnswerInv, Busy
<1>4. ASSUME NEW r \in Requests, Environment(r)
      PROVE  AnswerInv'
  BY <1>3, <1>4, EnvironmentAnswer
<1>5. CASE (Signal \/ MainStep \/ MainTimeout) \/ UNCHANGED vars
  BY <1>3, <1>5, MainFrame DEF vars, handlerVars, queueVars, workerVars, kernelVars
<1>6. QED
  BY <1>1, <1>2, <1>4, <1>5 DEF Next, Ended

LEMMA Answered == Spec => []AnswerInv
  BY InitAnswer, NextAnswer, Invariant, Owned, PTL DEF Spec

(* A step that takes no request from a program counter to another. *)
LEMMA Stutters ==
  ASSUME UNCHANGED <<hpc, resp, before, route, registered>>
  PROVE  UNCHANGED Abstract!vars
  BY DEF Abstract!vars, Returned, AnswerOf

(* A handler step leaves the abstract state alone, or closes its request. *)
LEMMA HandlerSimulates ==
  ASSUME IInv, OwnInv, AnswerInv, NEW r \in Requests, HandlerStep(r)
  PROVE  [Abstract!Next]_(Abstract!vars)
<1>1. /\ UNCHANGED <<before, route, registered>>
      /\ \A q \in Requests : q # r => AnswerOf(q)' = AnswerOf(q)
      /\ \A q \in Requests : hpc'[q] # "idle" <=> hpc[q] # "idle"
  BY HandlerFrame, HandlerAnswers DEF AnswerOf
<1>2. CASE hpc'[r] # "returned"
  <2>1. AnswerOf(r)' = AnswerOf(r)
    BY <1>2, HandlerAnswers DEF AnswerOf
  <2>2. Returned' = Returned
    BY <1>2, HandlerAnswers DEF Returned
  <2>3. QED
    BY <1>1, <2>1, <2>2 DEF Abstract!vars
<1>3. CASE hpc'[r] = "returned"
  <2> DEFINE a == AnswerOf(r)'
  <2>1. /\ a \in Abstract!Answers
        /\ a = "config" => resp'[r] = "config"
        /\ a = "rejected" =>
              resp'[r] \in {"none", "refused", "denied", "panic", "notfound"}
    <3>1. TypeOK'
      BY HandlerTypeOK
    <3>2. resp'[r] \in Responses
      BY <3>1 DEF TypeOK
    <3>3. QED
      BY <1>3, <3>2 DEF AnswerOf, Responses, Messages, Abstract!Answers
  <2>2. a = "config" => r \in registered
    BY <1>3, <2>1, HandlerAnswers DEF AnswerInv
  <2>3. a = "rejected" => r \notin registered
    <3>1. r \in registered => Enqueued(r) /\ UserOf[r] \in Known
      BY DEF OwnInv, AnswerInv
    <3>2. data[r] \in {"none", "config", "internal", "notfound"}
      BY DEF IInv, TypeOK, Messages
    <3>3. QED
      BY <1>3, <2>1, <3>1, <3>2, HandlerAnswers DEF AnswerInv
  <2>4. /\ Returned' = Returned \cup {r} /\ r \notin Returned
        /\ hpc[r] # "idle"
    BY <1>3, HandlerAnswers DEF Returned
  <2>5. [q \in Requests |-> AnswerOf(q)]' =
            [[q \in Requests |-> AnswerOf(q)] EXCEPT ![r] = a]
    BY <1>1
  <2> HIDE DEF a
  <2>6. Abstract!Close(r, a)
    BY <1>1, <2>1, <2>2, <2>3, <2>4, <2>5 DEF Abstract!Close
  <2>7. QED
    BY <2>1, <2>6 DEF Abstract!Next
<1>4. QED
  BY <1>2, <1>3

(* A worker registers a peer in the kernel, or leaves the abstract state. *)
LEMMA WorkerSimulates ==
  ASSUME IInv, OwnInv, AnswerInv, NEW w \in Workers, WorkerStep(w)
  PROVE  [Abstract!Next]_(Abstract!vars)
<1>1. UNCHANGED <<hpc, resp, before>>
  BY DEF WorkerStep, Dequeue, WorkerExit, CheckJob, StartSet, KernelSets,
     SetDone, SetFails, Deliver, handlerVars
<1>2. CASE KernelSets(w)
  <2> DEFINE r == job[w]
  <2>1. /\ wpc[w] = "command"
        /\ route' = [route EXCEPT ![UserOf[r]] = r]
        /\ registered' = registered \cup {r}
    BY <1>2 DEF KernelSets
  <2>2. Enqueued(r) /\ r \notin registered
    BY <2>1 DEF IInv, JobInv, OwnInv, Busy
  <2>3. hpc[r] = "returned" => resp[r] = "timeout"
    BY <2>1 DEF AnswerInv, Busy
  <2>4. AnswerOf(r) # "rejected"
    BY <2>3 DEF AnswerOf
  <2>5. Returned' = Returned /\ \A q \in Requests : AnswerOf(q)' = AnswerOf(q)
    BY <1>1 DEF Returned, AnswerOf
  <2> HIDE DEF r
  <2>6. Abstract!Register(r)
    BY <1>1, <2>1, <2>2, <2>4, <2>5 DEF Abstract!Register, Enqueued
  <2>7. QED
    BY <2>2, <2>6 DEF Abstract!Next, Enqueued
<1>3. CASE ~ KernelSets(w)
  <2>1. UNCHANGED <<route, registered>>
    BY <1>3 DEF WorkerStep, Dequeue, WorkerExit, CheckJob, StartSet, SetDone,
       SetFails, Deliver, kernelVars
  <2>2. QED
    BY <1>1, <2>1, Stutters
<1>4. QED
  BY <1>2, <1>3

LEMMA EnvironmentSimulates ==
  ASSUME IInv, NEW r \in Requests, Environment(r)
  PROVE  [Abstract!Next]_(Abstract!vars)
<1>1. CASE Arrive(r)
  <2>1. /\ hpc[r] = "idle" /\ hpc' = [hpc EXCEPT ![r] = "parse"]
        /\ before' = [before EXCEPT ![r] = Returned]
        /\ UNCHANGED <<resp, route, registered>>
        /\ hpc \in [Requests -> HandlerPc]
    BY <1>1 DEF Arrive, GoTo, IInv, TypeOK, kernelVars
  <2>2. Returned' = Returned /\ \A q \in Requests : AnswerOf(q)' = AnswerOf(q)
    BY <2>1 DEF Returned, AnswerOf
  <2>3. {q \in Requests : hpc'[q] # "idle"} =
            {q \in Requests : hpc[q] # "idle"} \cup {r}
    BY <2>1
  <2>4. Abstract!Ask(r)
    BY <2>1, <2>2, <2>3 DEF Abstract!Ask
  <2>5. QED
    BY <2>4 DEF Abstract!Next
<1>2. CASE UNCHANGED <<hpc, before>>
  BY <1>2, EnvironmentAnswer, Stutters
<1>3. QED
  BY <1>1, <1>2, EnvironmentAnswer

(***************************************************************************)
(* The server implements Registration without order: a client that is told *)
(* its configuration has a peer, one that is refused never will, one that  *)
(* times out may, and each is answered once, for any number of requests,   *)
(* workers and users.                                                      *)
(***************************************************************************)
THEOREM Refinement == Spec => ImplementsRegistration
<1>1. Init => Abstract!Init
  BY DEF Init, Abstract!Init, Returned, AnswerOf
<1>2. IInv /\ OwnInv /\ AnswerInv /\ [Next]_vars => [Abstract!Next]_(Abstract!vars)
  <2> SUFFICES ASSUME IInv, OwnInv, AnswerInv, [Next]_vars
               PROVE  [Abstract!Next]_(Abstract!vars)
    OBVIOUS
  <2>1. ASSUME NEW r \in Requests, HandlerStep(r)
        PROVE  [Abstract!Next]_(Abstract!vars)
    BY <2>1, HandlerSimulates
  <2>2. ASSUME NEW w \in Workers, WorkerStep(w)
        PROVE  [Abstract!Next]_(Abstract!vars)
    BY <2>2, WorkerSimulates
  <2>3. ASSUME NEW r \in Requests, Environment(r)
        PROVE  [Abstract!Next]_(Abstract!vars)
    BY <2>3, EnvironmentSimulates
  <2>4. CASE (Signal \/ MainStep \/ MainTimeout) \/ UNCHANGED vars
    BY <2>4, MainFrame, Stutters DEF vars, handlerVars, kernelVars
  <2>5. QED
    BY <2>1, <2>2, <2>3, <2>4 DEF Next, Ended
<1>3. QED
  BY <1>1, <1>2, Invariant, Owned, Answered, PTL
     DEF Spec, ImplementsRegistration, Abstract!Spec

-----------------------------------------------------------------------------
(* The saver, of which WgSaver gives the specification *)

(***************************************************************************)
(* Every variable of WgSaver keeps its type; in particular neither channel *)
(* ever holds more requests than its capacity.                             *)
(***************************************************************************)
THEOREM SaverTypeCorrect == SaverSpec => []SaverTypeOK
<1>1. SaverInit => SaverTypeOK
  <2> SUFFICES ASSUME SaverInit PROVE SaverTypeOK
    OBVIOUS
  <2>1. 0 \in 0..SaveCap
    BY SaverConstantsOK DEF SaverConstantsOK
  <2> QED
    BY <2>1 DEF SaverInit, SaverTypeOK
<1>2. SaverTypeOK /\ [SaverNext]_wgSaverVars => SaverTypeOK'
  <2> SUFFICES ASSUME SaverTypeOK, [SaverNext]_wgSaverVars PROVE SaverTypeOK'
    OBVIOUS
  <2> USE SaverConstantsOK
      DEF SaverConstantsOK, SaverTypeOK, chanVars, gatherVars, saverVars,
          updateVars
  <2>1. ASSUME NEW r \in Updates, Update(r) PROVE SaverTypeOK'
    <3>1. CASE SetPeer(r)
      BY <3>1 DEF SetPeer, UpdateGoTo
    <3>2. CASE Schedule(r)
      BY <3>2 DEF Schedule, UpdateGoTo
    <3>3. CASE DropOldest(r)
      BY <3>3 DEF DropOldest, UpdateGoTo
    <3>4. CASE SendAgain(r)
      BY <3>4 DEF SendAgain, UpdateGoTo
    <3> QED
      BY <2>1, <3>1, <3>2, <3>3, <3>4 DEF Update
  <2>2. CASE Gatherer
    <3>1. CASE Gather
      BY <3>1 DEF Gather
    <3>2. CASE ReceiveTimer
      BY <3>2 DEF ReceiveTimer
    <3>3. CASE Forward
      BY <3>3 DEF Forward
    <3>4. CASE Clear
      BY <3>4 DEF Clear
    <3>5. CASE GatherExit
      BY <3>5 DEF GatherExit
    <3> QED
      BY <2>2, <3>1, <3>2, <3>3, <3>4, <3>5 DEF Gatherer
  <2>3. CASE Saver
    <3>1. CASE TakeRequest
      BY <3>1 DEF TakeRequest
    <3>2. CASE ReadPeers
      BY <3>2 DEF ReadPeers
    <3>3. CASE WriteFile
      BY <3>3 DEF WriteFile
    <3>4. CASE SaveFails
      BY <3>4 DEF SaveFails
    <3>5. CASE SaverExit
      BY <3>5 DEF SaverExit
    <3> QED
      BY <2>3, <3>1, <3>2, <3>3, <3>4, <3>5 DEF Saver
  <2>4. CASE TimerFires
    BY <2>4 DEF TimerFires
  <2>5. CASE StopWGSaver
    BY <2>5 DEF StopWGSaver
  <2>6. CASE UNCHANGED wgSaverVars
    BY <2>6 DEF wgSaverVars
  <2> QED
    BY <2>1, <2>2, <2>3, <2>4, <2>5, <2>6 DEF SaverNext
<1> QED
  BY <1>1, <1>2, PTL DEF SaverSpec

-----------------------------------------------------------------------------
(***************************************************************************)
(* NoSaveForgotten alone is not inductive: wg-quick save overwrites the    *)
(* file, so one has to know that what it has read includes what is in the  *)
(* file, and all that was scheduled before it read.                        *)
(***************************************************************************)
SavedInv ==
    /\ Scheduled \subseteq peers
    /\ {r \in Updates : upc[r] \in {"schedule", "full", "again"}}
          \subseteq peers
    /\ file \subseteq peers /\ snapshot \subseteq peers
    /\ spc = "writing" => file \subseteq snapshot

SaverInv == SaverTypeOK /\ SavedInv /\ NoSaveForgotten

LEMMA WorkerKeeps ==
  ASSUME SaverInv, SaverTypeOK', NEW r \in Updates, Update(r)
  PROVE  SavedInv' /\ NoSaveForgotten'
<1> USE SaverConstantsOK
    DEF SaverConstantsOK, SaverInv, SaverTypeOK, SavedInv, NoSaveForgotten,
        SaveDue, Scheduled, chanVars, gatherVars, saverVars, updateVars
<1>1. CASE SetPeer(r)
  BY <1>1 DEF SetPeer, UpdateGoTo
<1>2. CASE Schedule(r)
  BY <1>2 DEF Schedule, UpdateGoTo
<1>3. CASE DropOldest(r)
  BY <1>3 DEF DropOldest, UpdateGoTo
<1>4. CASE SendAgain(r)
  BY <1>4 DEF SendAgain, UpdateGoTo
<1> QED
  BY <1>1, <1>2, <1>3, <1>4 DEF Update

LEMMA GathererKeeps ==
  ASSUME SaverInv, SaverTypeOK', Gatherer
  PROVE  SavedInv' /\ NoSaveForgotten'
<1> USE SaverConstantsOK
    DEF SaverConstantsOK, SaverInv, SaverTypeOK, SavedInv, NoSaveForgotten,
        SaveDue, Scheduled, chanVars, gatherVars, saverVars, updateVars
<1>1. CASE Gather
  BY <1>1 DEF Gather
<1>2. CASE ReceiveTimer
  BY <1>2 DEF ReceiveTimer
<1>3. CASE Forward
  BY <1>3 DEF Forward
<1>4. CASE Clear
  BY <1>4 DEF Clear
<1>5. CASE GatherExit
  BY <1>5 DEF GatherExit
<1> QED
  BY <1>1, <1>2, <1>3, <1>4, <1>5 DEF Gatherer

LEMMA SaverKeeps ==
  ASSUME SaverInv, SaverTypeOK', Saver
  PROVE  SavedInv' /\ NoSaveForgotten'
<1> USE SaverConstantsOK
    DEF SaverConstantsOK, SaverInv, SaverTypeOK, SavedInv, NoSaveForgotten,
        SaveDue, Scheduled, chanVars, gatherVars, saverVars, updateVars
<1>1. CASE TakeRequest
  BY <1>1 DEF TakeRequest
<1>2. CASE ReadPeers
  BY <1>2 DEF ReadPeers
<1>3. CASE WriteFile
  <2>1. SavedInv'
    BY <1>3 DEF WriteFile
  <2>2. SUFFICES ASSUME ~ stopped, NEW r \in Scheduled,
                        r \notin snapshot, r \notin excused
                 PROVE  SaveDue'
    BY <1>3, <2>1 DEF WriteFile
  <2>3. r \notin file
    BY <1>3, <2>2 DEF WriteFile
  <2>4. SaveDue
    BY <2>2, <2>3
  <2> QED
    BY <1>3, <2>4 DEF WriteFile
<1>4. CASE SaveFails
  BY <1>4 DEF SaveFails
<1>5. CASE SaverExit
  BY <1>5 DEF SaverExit
<1> QED
  BY <1>1, <1>2, <1>3, <1>4, <1>5 DEF Saver

(***************************************************************************)
(* No peer that was set and scheduled is forgotten by the chain of         *)
(* channels, goroutines and timer between updatewg and the file; a save    *)
(* that fails excuses its peers, and the saver may have been stopped.      *)
(***************************************************************************)
THEOREM NoSaveForgottenAlways == SaverSpec => []NoSaveForgotten
<1>1. SaverInit => SavedInv /\ NoSaveForgotten
  BY DEF SaverInit, SavedInv, NoSaveForgotten, Scheduled
<1>2. SaverInv /\ SaverTypeOK' /\ [SaverNext]_wgSaverVars =>
         SavedInv' /\ NoSaveForgotten'
  <2> SUFFICES ASSUME SaverInv, SaverTypeOK', [SaverNext]_wgSaverVars
               PROVE  SavedInv' /\ NoSaveForgotten'
    OBVIOUS
  <2> USE DEF SaverInv, SavedInv, NoSaveForgotten, SaveDue, Scheduled,
          chanVars, gatherVars, saverVars, updateVars
  <2>1. CASE \E r \in Updates : Update(r)
    BY <2>1, WorkerKeeps
  <2>2. CASE Gatherer
    BY <2>2, GathererKeeps
  <2>3. CASE Saver
    BY <2>3, SaverKeeps
  <2>4. CASE TimerFires
    BY <2>4 DEF TimerFires
  <2>5. CASE StopWGSaver
    BY <2>5 DEF StopWGSaver
  <2>6. CASE UNCHANGED wgSaverVars
    BY <2>6 DEF wgSaverVars
  <2> QED
    BY <2>1, <2>2, <2>3, <2>4, <2>5, <2>6 DEF SaverNext
<1> QED
  BY <1>1, <1>2, SaverTypeCorrect, PTL DEF SaverSpec, SaverInv

=============================================================================
