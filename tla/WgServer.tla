------------------------------ MODULE WgServer ------------------------------
(***************************************************************************)
(* The request path of the WireGuard server (src/esa/): Auth.ServeHTTP,    *)
(* the password verification tokens, the queue of AuthJobs, the workers    *)
(* that run wg set for a job, and the shutdown sequence of main.           *)
(*                                                                         *)
(* It differs from the tinc server (AuthServer) in what happens to a job:  *)
(* no token keeps workers apart, the update is a command that may be       *)
(* killed half-way, workers are told to stop although jobs are queued, and *)
(* connections are not closed when Shutdown fails.                         *)
(*                                                                         *)
(* A request stands for the public key it carries.  The verdicts of the    *)
(* limiter, the validation, the password and the nonce store are free      *)
(* choices (see Limiter and NonceStore).  What follows a successful wg     *)
(* set, the saving of the configuration, is in WgSaver.                    *)
(***************************************************************************)
EXTENDS Naturals, Sequences, FiniteSets

CONSTANTS Requests,    \* the HTTP requests clients make
          Workers,     \* the worker goroutines (8 unless ESA_WORKERS says so)
          Users,       \* user names
          UserOf,      \* UserOf[r]: the user name request r carries
          Known,       \* users with an address in the user configuration file
          JobsCap,     \* capacity of Auth.Jobs (150 in the code)
          VerifyCap,   \* password verification tokens (2 in the code)
          NoRequest    \* no job, or no key of any request

ASSUME ConstantsOK ==
    /\ IsFiniteSet(Requests)
    /\ IsFiniteSet(Workers)
    /\ Workers # {}
    /\ NoRequest \notin Requests
    /\ UserOf \in [Requests -> Users]
    /\ Known \subseteq Users
    /\ JobsCap \in Nat \ {0}
    /\ VerifyCap \in Nat \ {0}

VARIABLES
    \* the handler of each request
    hpc,          \* where ServeHTTP is
    gone,         \* requests being served whose client went away
    expired,      \* requests being served whose job context met its deadline
    resp,         \* the answer written to the client
    verifyTokens, \* length of the channel passwordVerifyTokens
    \* the queue
    jobs,         \* Auth.Jobs
    data,         \* data[r]: content of the channel job.Data of r's job
    \* the workers
    wpc,          \* where the worker is
    job,          \* the job it processes
    wmsg,         \* the message it is about to deliver
    \* the kernel
    route,        \* route[u]: the peer that has the address of user u
    \* main
    mainPc,       \* where main is
    forced,       \* did server.Shutdown return an error?
    \* history: read by the properties only
    before,       \* before[r]: requests already returned when r arrived
    registered,   \* peers the kernel has been given
    overrun       \* requests that returned while their wg set was running

handlerVars == <<hpc, gone, expired, resp, verifyTokens, before, overrun>>
queueVars   == <<jobs, data>>
workerVars  == <<wpc, job, wmsg>>
kernelVars  == <<route, registered>>
mainVars    == <<mainPc, forced>>
vars == <<handlerVars, queueVars, workerVars, kernelVars, mainVars>>

HandlerPc == {"idle", "parse", "verify", "hashing", "failed", "enqueue",
              "await", "returned"}
WorkerPc  == {"idle", "check", "start", "command", "applied", "deliver", "exited"}
MainPc    == {"serving", "draining", "cancel", "close", "joining", "cleanup",
              "exited"}
Messages  == {"config", "internal", "notfound"}
Responses == Messages \cup {"none", "refused", "denied", "timeout", "panic"}

TypeOK ==
    /\ hpc \in [Requests -> HandlerPc]
    /\ gone \subseteq Requests
    /\ expired \subseteq Requests
    /\ resp \in [Requests -> Responses]
    /\ verifyTokens \in 0..VerifyCap
    /\ jobs \in Seq(Requests)
    /\ Len(jobs) <= JobsCap
    /\ data \in [Requests -> Messages \cup {"none"}]
    /\ wpc \in [Workers -> WorkerPc]
    /\ job \in [Workers -> Requests \cup {NoRequest}]
    /\ wmsg \in [Workers -> Messages \cup {"none"}]
    /\ route \in [Users -> Requests \cup {NoRequest}]
    /\ mainPc \in MainPc
    /\ forced \in BOOLEAN
    /\ before \in [Requests -> SUBSET Requests]
    /\ registered \subseteq Requests
    /\ overrun \subseteq Requests

Init ==
    /\ hpc = [r \in Requests |-> "idle"]
    /\ gone = {}
    /\ expired = {}
    /\ resp = [r \in Requests |-> "none"]
    /\ verifyTokens = 0
    /\ jobs = <<>>
    /\ data = [r \in Requests |-> "none"]
    /\ wpc = [w \in Workers |-> "idle"]
    /\ job = [w \in Workers |-> NoRequest]
    /\ wmsg = [w \in Workers |-> "none"]
    /\ route = [u \in Users |-> NoRequest]
    /\ mainPc = "serving"
    /\ forced = FALSE
    /\ before = [r \in Requests |-> {}]
    /\ registered = {}
    /\ overrun = {}

Returned == {r \in Requests : hpc[r] = "returned"}
Active   == {r \in Requests : hpc[r] \notin {"idle", "returned"}}
Alive    == mainPc # "exited"

(* job.Ctx is done: the client left, five seconds passed, or cancel() ran. *)
CtxDone(r) == r \in gone \cup expired \cup Returned

(* Mutant of Cancelled: the workers are stopped before the server is. *)
CancelledEarly == mainPc # "serving"

(* cancelWorkers() has been called. *)
Cancelled == mainPc \in {"close", "joining", "cleanup", "exited"}

(* close(auth.Jobs) has been called. *)
JobsClosed == mainPc \in {"joining", "cleanup", "exited"}

(* A wg set for r has started and not ended. *)
Running(r) == \E w \in Workers : job[w] = r /\ wpc[w] \in {"command", "applied"}

-----------------------------------------------------------------------------
(* The handler of request r *)

GoTo(r, pc) == hpc' = [hpc EXCEPT ![r] = pc]

(* ServeHTTP returns: both contexts are cancelled, so why no longer matters. *)
Return(r, answer) ==
    /\ GoTo(r, "returned")
    /\ resp' = [resp EXCEPT ![r] = answer]
    /\ gone' = gone \ {r}
    /\ expired' = expired \ {r}
    /\ overrun' = IF Running(r) THEN overrun \cup {r} ELSE overrun

(* The server hands a request to ServeHTTP: until Shutdown returns. *)
Arrive(r) ==
    /\ mainPc \in {"serving", "draining"}
    /\ hpc[r] = "idle"
    /\ GoTo(r, "parse")
    /\ before' = [before EXCEPT ![r] = Returned]
    /\ UNCHANGED <<gone, expired, resp, verifyTokens, overrun, queueVars,
                   workerVars, kernelVars, mainVars>>

(* Not a POST, rate limited, or a form that does not validate. *)
Refuse(r) ==
    /\ hpc[r] = "parse"
    /\ Return(r, "refused")
    /\ UNCHANGED <<verifyTokens, before, queueVars, workerVars, kernelVars,
                   mainVars>>

(* The form validates.  A user without an account fails without a hash. *)
Parsed(r) ==
    /\ hpc[r] = "parse"
    /\ \E next \in {"verify", "failed"} : GoTo(r, next)
    /\ UNCHANGED <<gone, expired, resp, verifyTokens, before, overrun,
                   queueVars, workerVars, kernelVars, mainVars>>

(* verifyPasswordContext takes one of the verification tokens ... *)
AcquireVerify(r) ==
    /\ hpc[r] = "verify"
    /\ verifyTokens < VerifyCap
    /\ verifyTokens' = verifyTokens + 1
    /\ GoTo(r, "hashing")
    /\ UNCHANGED <<gone, expired, resp, before, overrun, queueVars, workerVars,
                   kernelVars, mainVars>>

(* ... or gives up because the client went away while it waited. *)
VerifyCancelled(r) ==
    /\ hpc[r] = "verify"
    /\ r \in gone
    /\ GoTo(r, "failed")
    /\ UNCHANGED <<gone, expired, resp, verifyTokens, before, overrun,
                   queueVars, workerVars, kernelVars, mainVars>>

(* Mutant of VerifyDone: a failed verification keeps its token. *)
VerifyDoneLeaks(r) ==
    /\ hpc[r] = "hashing"
    /\ \/ GoTo(r, "enqueue") /\ verifyTokens' = verifyTokens - 1
       \/ GoTo(r, "failed") /\ UNCHANGED verifyTokens
    /\ UNCHANGED <<gone, expired, resp, before, overrun, queueVars, workerVars,
                   kernelVars, mainVars>>

(***************************************************************************)
(* The hash is computed and the token given back; password, signature and  *)
(* nonce are good, or not.                                                 *)
(***************************************************************************)
VerifyDone(r) ==
    /\ hpc[r] = "hashing"
    /\ verifyTokens' = verifyTokens - 1
    /\ \E next \in {"enqueue", "failed"} : GoTo(r, next)
    /\ UNCHANGED <<gone, expired, resp, before, overrun, queueVars, workerVars,
                   kernelVars, mainVars>>

(* The delay after a failure: 401 when it ends, nothing if the client left. *)
FailDelay(r) ==
    /\ hpc[r] = "failed"
    /\ \/ Return(r, "denied")
       \/ r \in gone /\ Return(r, "none")
    /\ UNCHANGED <<verifyTokens, before, queueVars, workerVars, kernelVars,
                   mainVars>>

(* select { a.Jobs <- job; <-ctx.Done() } *)
Enqueue(r) ==
    /\ hpc[r] = "enqueue"
    /\ ~ JobsClosed
    /\ Len(jobs) < JobsCap
    /\ jobs' = Append(jobs, r)
    /\ GoTo(r, "await")
    /\ UNCHANGED <<gone, expired, resp, verifyTokens, before, overrun, data,
                   workerVars, kernelVars, mainVars>>

(* A send on the closed channel panics, and withRecover answers 500. *)
EnqueuePanic(r) ==
    /\ hpc[r] = "enqueue"
    /\ JobsClosed
    /\ Return(r, "panic")
    /\ UNCHANGED <<verifyTokens, before, queueVars, workerVars, kernelVars,
                   mainVars>>

(* select { <-job.Data; <-ctx.Done(); <-timeout.C } *)
Receive(r) ==
    /\ hpc[r] = "await"
    /\ data[r] # "none"
    /\ Return(r, data[r])
    /\ data' = [data EXCEPT ![r] = "none"]
    /\ UNCHANGED <<verifyTokens, before, jobs, workerVars, kernelVars, mainVars>>

(* 504, from either select; the timer of the second never beats ctx. *)
GiveUp(r) ==
    /\ hpc[r] \in {"enqueue", "await"}
    /\ CtxDone(r)
    /\ Return(r, "timeout")
    /\ UNCHANGED <<verifyTokens, before, queueVars, workerVars, kernelVars,
                   mainVars>>

(* The client closes the connection. *)
Disconnect(r) ==
    /\ r \in Active \ gone
    /\ gone' = gone \cup {r}
    /\ UNCHANGED <<hpc, expired, resp, verifyTokens, before, overrun,
                   queueVars, workerVars, kernelVars, mainVars>>

(* authRequestTimeout passes. *)
JobDeadline(r) ==
    /\ hpc[r] \in {"enqueue", "await"}
    /\ r \notin expired
    /\ expired' = expired \cup {r}
    /\ UNCHANGED <<hpc, gone, resp, verifyTokens, before, overrun, queueVars,
                   workerVars, kernelVars, mainVars>>

HandlerStep(r) ==
    \/ Refuse(r) \/ Parsed(r)
    \/ AcquireVerify(r) \/ VerifyCancelled(r) \/ VerifyDone(r) \/ FailDelay(r)
    \/ Enqueue(r) \/ EnqueuePanic(r) \/ Receive(r) \/ GiveUp(r)

-----------------------------------------------------------------------------
(* The workers: select { <-auth.Jobs; <-workerCtx.Done() } *)

WGoTo(w, pc) == wpc' = [wpc EXCEPT ![w] = pc]

(* Mutant of Dequeue: the job is read but stays at the head of the queue. *)
DequeuePeeks(w) ==
    /\ wpc[w] = "idle"
    /\ jobs # <<>>
    /\ job' = [job EXCEPT ![w] = Head(jobs)]
    /\ WGoTo(w, "check")
    /\ UNCHANGED <<wmsg, queueVars, handlerVars, kernelVars, mainVars>>

Dequeue(w) ==
    /\ wpc[w] = "idle"
    /\ jobs # <<>>
    /\ job' = [job EXCEPT ![w] = Head(jobs)]
    /\ jobs' = Tail(jobs)
    /\ WGoTo(w, "check")
    /\ UNCHANGED <<wmsg, data, handlerVars, kernelVars, mainVars>>

(* The queue is closed and empty, or workerCtx is done, whatever is queued. *)
WorkerExit(w) ==
    /\ wpc[w] = "idle"
    /\ (JobsClosed /\ jobs = <<>>) \/ Cancelled
    /\ WGoTo(w, "exited")
    /\ UNCHANGED <<job, wmsg, queueVars, handlerVars, kernelVars, mainVars>>

(* processWGJob returns. *)
Forget(w) ==
    /\ WGoTo(w, "idle")
    /\ job' = [job EXCEPT ![w] = NoRequest]
    /\ wmsg' = [wmsg EXCEPT ![w] = "none"]

(* processWGJob goes on to deliver(job, msg). *)
ThenDeliver(w, msg) ==
    /\ WGoTo(w, "deliver")
    /\ wmsg' = [wmsg EXCEPT ![w] = msg]

(* A job whose client is gone is skipped; a user without an address is told. *)
CheckJob(w) ==
    /\ wpc[w] = "check"
    /\ \/ CtxDone(job[w]) /\ Forget(w)
       \/ /\ ~ CtxDone(job[w])
          /\ UserOf[job[w]] \notin Known
          /\ ThenDeliver(w, "notfound")
          /\ UNCHANGED job
       \/ /\ ~ CtxDone(job[w])
          /\ UserOf[job[w]] \in Known
          /\ WGoTo(w, "start")
          /\ UNCHANGED <<job, wmsg>>
    /\ UNCHANGED <<queueVars, handlerVars, kernelVars, mainVars>>

(* Mutant of StartSet: the command does not get the job's context. *)
StartSetDetached(w) ==
    /\ wpc[w] = "start"
    /\ WGoTo(w, "command")
    /\ UNCHANGED <<job, wmsg, queueVars, handlerVars, kernelVars, mainVars>>

(***************************************************************************)
(* updatewg: the peer does not validate, or exec.CommandContext starts wg  *)
(* set, which it does not do once the context is done.                     *)
(***************************************************************************)
StartSet(w) ==
    /\ wpc[w] = "start"
    /\ \/ ThenDeliver(w, "internal")
       \/ ~ CtxDone(job[w]) /\ WGoTo(w, "command") /\ UNCHANGED wmsg
    /\ UNCHANGED <<job, queueVars, handlerVars, kernelVars, mainVars>>

(* The kernel takes the peer: the user's address moves to it. *)
KernelSets(w) ==
    /\ wpc[w] = "command"
    /\ route' = [route EXCEPT ![UserOf[job[w]]] = job[w]]
    /\ registered' = registered \cup {job[w]}
    /\ WGoTo(w, "applied")
    /\ UNCHANGED <<job, wmsg, queueVars, handlerVars, mainVars>>

(* wg set exits with status 0, and a save is scheduled. *)
SetDone(w) ==
    /\ wpc[w] = "applied"
    /\ ThenDeliver(w, "config")
    /\ UNCHANGED <<job, queueVars, handlerVars, kernelVars, mainVars>>

(* Mutant of SetFails: the error of updatewg is only logged. *)
SetFailsUnnoticed(w) ==
    /\ \/ wpc[w] = "command"
       \/ wpc[w] = "applied" /\ CtxDone(job[w])
    /\ ThenDeliver(w, "config")
    /\ UNCHANGED <<job, queueVars, handlerVars, kernelVars, mainVars>>

(***************************************************************************)
(* wg set fails, or is killed because the context is done, before or after *)
(* the kernel took the peer.                                               *)
(***************************************************************************)
SetFails(w) ==
    /\ \/ wpc[w] = "command"
       \/ wpc[w] = "applied" /\ CtxDone(job[w])
    /\ ThenDeliver(w, "internal")
    /\ UNCHANGED <<job, queueVars, handlerVars, kernelVars, mainVars>>

(* Mutant of Deliver: Data has no buffer, and deliver does not give up. *)
DeliverUnbuffered(w) ==
    /\ wpc[w] = "deliver"
    /\ hpc[job[w]] = "await"
    /\ data' = [data EXCEPT ![job[w]] = wmsg[w]]
    /\ Forget(w)
    /\ UNCHANGED <<jobs, handlerVars, kernelVars, mainVars>>

(***************************************************************************)
(* deliver: the message goes into the buffer of job.Data, or ctx is done.  *)
(* The select may also send to a handler that has gone; its third case, a  *)
(* timer of 500 ms, never comes, for the buffer has room (see OneOwner).   *)
(***************************************************************************)
Deliver(w) ==
    /\ wpc[w] = "deliver"
    /\ \/ data' = [data EXCEPT ![job[w]] = wmsg[w]]
       \/ CtxDone(job[w]) /\ UNCHANGED data
    /\ Forget(w)
    /\ UNCHANGED <<jobs, handlerVars, kernelVars, mainVars>>

WorkerStep(w) ==
    \/ Dequeue(w) \/ WorkerExit(w) \/ CheckJob(w)
    \/ StartSet(w) \/ KernelSets(w) \/ SetDone(w) \/ SetFails(w)
    \/ Deliver(w)

-----------------------------------------------------------------------------
(* main, from the signal to the end of the process *)

MainGoTo(pc) ==
    /\ mainPc' = pc
    /\ UNCHANGED <<handlerVars, queueVars, workerVars, kernelVars>>

(* SIGINT or SIGTERM, or ListenAndServe returned: server.Shutdown starts. *)
Signal == mainPc = "serving" /\ MainGoTo("draining") /\ UNCHANGED forced

(* Mutant of DrainDone: Shutdown does not wait for active requests. *)
DrainDoneEarly == mainPc = "draining" /\ MainGoTo("cancel") /\ UNCHANGED forced

(* Shutdown returns nil once no connection is active. *)
DrainDone ==
    /\ mainPc = "draining"
    /\ Active = {}
    /\ MainGoTo("cancel")
    /\ UNCHANGED forced

(* Shutdown meets its ten seconds.  The handlers go on. *)
DrainTimeout ==
    /\ mainPc = "draining"
    /\ forced' = TRUE
    /\ MainGoTo("cancel")

CancelWorkers == mainPc = "cancel" /\ MainGoTo("close") /\ UNCHANGED forced

CloseJobs == mainPc = "close" /\ MainGoTo("joining") /\ UNCHANGED forced

(* All workers have returned, or five seconds have passed. *)
WorkersDone ==
    /\ mainPc = "joining"
    /\ \A w \in Workers : wpc[w] = "exited"
    /\ MainGoTo("cleanup")
    /\ UNCHANGED forced

WorkersTimeout == mainPc = "joining" /\ MainGoTo("cleanup") /\ UNCHANGED forced

(* StopCleanup, WaitCleanup (for two seconds), stopWGSaver, and the end. *)
Exit == mainPc = "cleanup" /\ MainGoTo("exited") /\ UNCHANGED forced

MainStep    == DrainDone \/ CancelWorkers \/ CloseJobs \/ WorkersDone \/ Exit
MainTimeout == DrainTimeout \/ WorkersTimeout

-----------------------------------------------------------------------------
Environment(r) == Arrive(r) \/ Disconnect(r) \/ JobDeadline(r)

(* The end of the process. *)
Ended == ~ Alive /\ UNCHANGED vars

Next ==
    \/ Alive /\ \E r \in Requests : HandlerStep(r) \/ Environment(r)
    \/ Alive /\ \E w \in Workers : WorkerStep(w)
    \/ Alive /\ (Signal \/ MainStep \/ MainTimeout)
    \/ Ended

Spec == Init /\ [][Next]_vars

(***************************************************************************)
(* Goroutines that can run are run, and wg set comes to an end, at the     *)
(* latest by the timeout of its context.  Nothing makes a request arrive,  *)
(* a client leave, a signal come, a job meet its deadline or one of main's *)
(* timeouts pass.                                                          *)
(***************************************************************************)
FairSpec ==
    /\ Spec
    /\ \A r \in Requests : WF_vars(Alive /\ HandlerStep(r))
    /\ \A w \in Workers : WF_vars(Alive /\ WorkerStep(w))
    /\ WF_vars(Alive /\ MainStep)

-----------------------------------------------------------------------------
(* Properties *)

Busy(w) == wpc[w] \notin {"idle", "exited"}

Queued(r) == \E i \in 1..Len(jobs) : jobs[i] = r

(***************************************************************************)
(* A job has one owner, a place in the queue or a worker, and its answer   *)
(* is not yet given.  Hence job.Data, which holds one message, has room.   *)
(***************************************************************************)
OneOwner ==
    /\ \A i, j \in 1..Len(jobs) : jobs[i] = jobs[j] => i = j
    /\ \A v, w \in Workers : Busy(v) /\ Busy(w) /\ job[v] = job[w] => v = w
    /\ \A w \in Workers : Busy(w) => ~ Queued(job[w])
    /\ \A r \in Requests :
          data[r] # "none" => ~ Queued(r) /\ \A w \in Workers : job[w] # r

(***************************************************************************)
(* Unless Shutdown failed, a client that waits has its job in the queue,   *)
(* which some worker still reads, with a worker, or answered: cancelling   *)
(* the workers strands nobody, although they leave the queue as it is.     *)
(***************************************************************************)
NoLostJob ==
    \A r \in Requests :
        hpc[r] = "await" /\ ~ CtxDone(r) /\ ~ forced =>
            \/ Queued(r) /\ \E w \in Workers : wpc[w] # "exited"
            \/ \E w \in Workers : job[w] = r
            \/ data[r] # "none"

(***************************************************************************)
(* Exactly one place has the job of a client that waits: jobs are neither  *)
(* duplicated nor lost on their way through queue, workers and shutdown.   *)
(***************************************************************************)
JobsAccounted == OneOwner /\ NoLostJob

(***************************************************************************)
(* Jobs is closed under a handler that may still send on it only when      *)
(* Shutdown failed: no request is answered 500 by the panic of a send on a *)
(* closed channel in a graceful shutdown.                                  *)
(***************************************************************************)
GracefulClose ==
    ~ forced => /\ JobsClosed => Active = {}
                /\ \A r \in Requests : resp[r] # "panic"

(***************************************************************************)
(* The key of a request that was over before a newer request of the same   *)
(* user was made takes the address from the newer key only if its wg set   *)
(* was running when it ended.  (There is no update token, and the command  *)
(* may reach the kernel before it is killed.)                              *)
(***************************************************************************)
Outdated(r) == \E q \in registered : UserOf[q] = UserOf[r] /\ r \in before[q]

OnlyOverrunsAreLate ==
    [][\A u \in Users :
          route'[u] # route[u] /\ Outdated(route'[u]) => route'[u] \in overrun
      ]_vars

(* Once Shutdown has drained the handlers no wg set starts any more. *)
NoUpdateStarts ==
    \A w \in Workers :
        wpc[w] # "command" /\ wpc'[w] = "command" =>
            mainPc \in {"serving", "draining"} \/ forced

(***************************************************************************)
(* After an orderly Shutdown nothing is left that could go wrong: no       *)
(* handler is active, none has met the closed queue, and no update starts. *)
(***************************************************************************)
OrderlyShutdown == [][GracefulClose' /\ NoUpdateStarts]_vars

(* The server implements Registration, but not in order. *)
AnswerOf(r) ==
    CASE hpc[r] # "returned" -> "none"
      [] hpc[r] = "returned" /\ resp[r] = "config" -> "config"
      [] hpc[r] = "returned" /\ resp[r] \in {"timeout", "internal"} -> "unknown"
      [] OTHER -> "rejected"

Abstract == INSTANCE Registration WITH
    InOrder <- FALSE,
    settled <- route,
    asked   <- {r \in Requests : hpc[r] # "idle"},
    closed  <- Returned,
    answer  <- [r \in Requests |-> AnswerOf(r)]

(***************************************************************************)
(* A client told "config" has had its peer set, one that was refused,      *)
(* denied, not found or met a panic never will have, a timed out one may.  *)
(***************************************************************************)
ImplementsRegistration == Abstract!Spec

(* Every request the server takes is finished with, unless the process ends. *)
RequestsEnd ==
    \A r \in Requests : hpc[r] = "parse" ~> hpc[r] = "returned" \/ ~ Alive

(* The shutdown sequence needs none of its timeouts to come to its end. *)
ShutdownEnds == mainPc = "draining" ~> ~ Alive
=============================================================================
