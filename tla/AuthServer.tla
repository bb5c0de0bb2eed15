----------------------------- MODULE AuthServer -----------------------------
(***************************************************************************)
(* The request path of the tinc server (tincver/): the HTTP handler        *)
(* Auth.ServeHTTP, the two password verification tokens, the bounded queue *)
(* of AuthJobs, the worker goroutines that update a user's tinc host file  *)
(* under the update token, and the shutdown sequence of main.              *)
(*                                                                         *)
(* A request stands for the public key it carries, so host[u] = r says     *)
(* that the host file of user u holds the key of request r.                *)
(*                                                                         *)
(* The verdicts of the rate limiter, the form validation, the password and *)
(* signature check and the nonce store are free choices here: Limiter and  *)
(* NonceStore model how they are reached.  TincHost models the file        *)
(* operations that WriteHost and Reload take in one step.                  *)
(***************************************************************************)
EXTENDS Naturals, Sequences, FiniteSets

CONSTANTS Requests,    \* the HTTP requests clients make
          Workers,     \* the worker goroutines (8 in the code)
          Users,       \* user names
          UserOf,      \* UserOf[r]: the user name request r carries
          Known,       \* the users listed in the user configuration file
          JobsCap,     \* capacity of Auth.Jobs (150 in the code)
          VerifyCap,   \* password verification tokens (2 in the code)
          TincReload,  \* is tinc reloaded after an update?
          NoRequest    \* no job, or no key of any request

ASSUME ConstantsOK ==
    /\ IsFiniteSet(Requests)
    /\ IsFiniteSet(Workers)
    /\ Workers # {}
    /\ NoRequest \notin Requests
    /\ UserOf \in [Requests -> Users]
    /\ Known \subseteq Users
    /\ JobsCap \in Nat \ {0}
    /\ VerifyCap \in Nat \ {0}
    /\ TincReload \in BOOLEAN

VARIABLES
    \* the handler of each request
    hpc,          \* where ServeHTTP is
    gone,         \* requests being served whose client went away
    expired,      \* requests being served whose job context met its deadline
    resp,         \* the answer written to the client
    verifyTokens, \* length of the channel passwordVerifyTokens
    \* the queue
    jobs,         \* Auth.Jobs
    jobsClosed,   \* has close(auth.Jobs) been called?
    data,         \* data[r]: content of the channel job.Data of r's job
    \* the workers
    wpc,          \* where the worker is
    job,          \* the job it processes
    wmsg,         \* the message it is about to deliver
    backup,       \* the host content its open transaction would restore
    tincToken,    \* length of the channel tincUpdateToken
    host,         \* host[u]: whose key the host file of u holds
    \* main
    mainPc,       \* where main is
    forced,       \* did server.Shutdown fail, so that server.Close ran?
    sweepers,     \* the cleanup goroutines that are running
    \* history: not in the program, read by the properties only
    before,       \* before[r]: requests already returned when r arrived
    settled,      \* settled[u]: host[u] as of the last closed transaction
    registered    \* requests whose key a closed transaction left in place

handlerVars == <<hpc, gone, expired, resp, verifyTokens, before>>
queueVars   == <<jobs, jobsClosed, data>>
workerVars  == <<wpc, job, wmsg, backup>>
fileVars    == <<tincToken, host, settled, registered>>
mainVars    == <<mainPc, forced, sweepers>>
vars == <<handlerVars, queueVars, workerVars, fileVars, mainVars>>

HandlerPc == {"idle", "parse", "verify", "hashing", "failed", "enqueue",
              "await", "returned"}
WorkerPc  == {"idle", "check", "acquire", "recheck", "write", "reload",
              "deliver", "exited"}
MainPc    == {"serving", "draining", "stopping", "joining", "cleanup", "exited"}
Messages  == {"config", "internal", "notfound"}
Responses == Messages \cup {"none", "refused", "denied", "timeout", "panic"}

TypeOK ==
    /\ hpc \in [Requests -> HandlerPc]
    /\ gone \subseteq Requests
    /\ expired \subseteq Requests
    /\ resp \in [Requests -> Responses]
    /\ verifyTokens \in 0..VerifyCap
    /\ jobs \in Seq(Requests)
    /\ Len(jobs) <= JobsCap
    /\ jobsClosed \in BOOLEAN
    /\ data \in [Requests -> Messages \cup {"none"}]
    /\ wpc \in [Workers -> WorkerPc]
    /\ job \in [Workers -> Requests \cup {NoRequest}]
    /\ wmsg \in [Workers -> Messages \cup {"none"}]
    /\ backup \in [Workers -> Requests \cup {NoRequest}]
    /\ tincToken \in 0..1
    /\ host \in [Users -> Requests \cup {NoRequest}]
    /\ mainPc \in MainPc
    /\ forced \in BOOLEAN
    /\ sweepers \subseteq {"limiter", "nonce"}
    /\ before \in [Requests -> SUBSET Requests]
    /\ settled \in [Users -> Requests \cup {NoRequest}]
    /\ registered \subseteq Requests

Init ==
    /\ hpc = [r \in Requests |-> "idle"]
    /\ gone = {}
    /\ expired = {}
    /\ resp = [r \in Requests |-> "none"]
    /\ verifyTokens = 0
    /\ jobs = <<>>
    /\ jobsClosed = FALSE
    /\ data = [r \in Requests |-> "none"]
    /\ wpc = [w \in Workers |-> "idle"]
    /\ job = [w \in Workers |-> NoRequest]
    /\ wmsg = [w \in Workers |-> "none"]
    /\ backup = [w \in Workers |-> NoRequest]
    /\ tincToken = 0
    /\ host = [u \in Users |-> NoRequest]
    /\ mainPc = "serving"
    /\ forced = FALSE
    /\ sweepers = {"limiter", "nonce"}
    /\ before = [r \in Requests |-> {}]
    /\ settled = [u \in Users |-> NoRequest]
    /\ registered = {}

Returned == {r \in Requests : hpc[r] = "returned"}
Active   == {r \in Requests : hpc[r] \notin {"idle", "returned"}}

(***************************************************************************)
(* job.Ctx is done: the client went away, the five seconds passed, or      *)
(* ServeHTTP returned and its deferred cancel() ran.  The contexts the     *)
(* worker derives from it have the same length and start later, so they    *)
(* are done exactly when job.Ctx is.                                       *)
(***************************************************************************)
CtxDone(r) == r \in gone \cup expired \cup Returned

-----------------------------------------------------------------------------
(* The handler of request r *)

(* ServeHTTP returns: both contexts are cancelled, so why no longer matters. *)
Return(r, answer) ==
    /\ hpc' = [hpc EXCEPT ![r] = "returned"]
    /\ resp' = [resp EXCEPT ![r] = answer]
    /\ gone' = gone \ {r}
    /\ expired' = expired \ {r}

(* Mutant of Arrive: the listener stays open during the shutdown. *)
ArriveAlways(r) ==
    /\ hpc[r] = "idle"
    /\ hpc' = [hpc EXCEPT ![r] = "parse"]
    /\ before' = [before EXCEPT ![r] = Returned]
    /\ UNCHANGED <<gone, expired, resp, verifyTokens, queueVars, workerVars,
                   fileVars, mainVars>>

(* The server hands a request to ServeHTTP: until Shutdown returns. *)
Arrive(r) ==
    /\ mainPc \in {"serving", "draining"}
    /\ hpc[r] = "idle"
    /\ hpc' = [hpc EXCEPT ![r] = "parse"]
    /\ before' = [before EXCEPT ![r] = Returned]
    /\ UNCHANGED <<gone, expired, resp, verifyTokens, queueVars, workerVars,
                   fileVars, mainVars>>

(* Not a POST, rate limited, or a form that does not validate. *)
Refuse(r) ==
    /\ hpc[r] = "parse"
    /\ Return(r, "refused")
    /\ UNCHANGED <<verifyTokens, before, queueVars, workerVars,
                   fileVars, mainVars>>

ParseOk(r) ==
    /\ hpc[r] = "parse"
    /\ hpc' = [hpc EXCEPT ![r] = "verify"]
    /\ UNCHANGED <<gone, expired, resp, verifyTokens, before, queueVars,
                   workerVars, fileVars, mainVars>>

(* verifyPasswordContext takes one of the verification tokens ... *)
AcquireVerify(r) ==
    /\ hpc[r] = "verify"
    /\ verifyTokens < VerifyCap
    /\ verifyTokens' = verifyTokens + 1
    /\ hpc' = [hpc EXCEPT ![r] = "hashing"]
    /\ UNCHANGED <<gone, expired, resp, before, queueVars, workerVars,
                   fileVars, mainVars>>

(* ... or gives up because the client went away while it waited. *)
VerifyCancelled(r) ==
    /\ hpc[r] = "verify"
    /\ r \in gone
    /\ hpc' = [hpc EXCEPT ![r] = "failed"]
    /\ UNCHANGED <<gone, expired, resp, verifyTokens, before, queueVars,
                   workerVars, fileVars, mainVars>>

(* Mutant of VerifyDone: a failed verification keeps its token. *)
VerifyDoneLeaks(r) ==
    /\ hpc[r] = "hashing"
    /\ \E next \in {"enqueue", "failed"} :
          /\ hpc' = [hpc EXCEPT ![r] = next]
          /\ verifyTokens' = IF next = "failed" THEN verifyTokens
                                                ELSE verifyTokens - 1
    /\ UNCHANGED <<gone, expired, resp, before, queueVars, workerVars,
                   fileVars, mainVars>>

(***************************************************************************)
(* The hash is computed and the token given back.  If the password, the    *)
(* signature and the nonce are good the handler creates the job and its    *)
(* context, otherwise it waits out the failure delay.                      *)
(***************************************************************************)
VerifyDone(r) ==
    /\ hpc[r] = "hashing"
    /\ verifyTokens' = verifyTokens - 1
    /\ \E next \in {"enqueue", "failed"} : hpc' = [hpc EXCEPT ![r] = next]
    /\ UNCHANGED <<gone, expired, resp, before, queueVars, workerVars,
                   fileVars, mainVars>>

(* The delay after a failure: 401 when it ends, nothing if the client left. *)
FailDelay(r) ==
    /\ hpc[r] = "failed"
    /\ \/ Return(r, "denied")
       \/ r \in gone /\ Return(r, "none")
    /\ UNCHANGED <<verifyTokens, before, queueVars, workerVars,
                   fileVars, mainVars>>

(***************************************************************************)
(* select { a.Jobs <- job; <-ctx.Done() }: any ready case may be taken, a  *)
(* send on the closed channel panics and withRecover answers 500.          *)
(***************************************************************************)
Enqueue(r) ==
    /\ hpc[r] = "enqueue"
    /\ ~ jobsClosed
    /\ Len(jobs) < JobsCap
    /\ jobs' = Append(jobs, r)
    /\ hpc' = [hpc EXCEPT ![r] = "await"]
    /\ UNCHANGED <<gone, expired, resp, verifyTokens, before, jobsClosed, data,
                   workerVars, fileVars, mainVars>>

EnqueuePanic(r) ==
    /\ hpc[r] = "enqueue"
    /\ jobsClosed
    /\ Return(r, "panic")
    /\ UNCHANGED <<verifyTokens, before, queueVars, workerVars,
                   fileVars, mainVars>>

(* select { <-job.Data; <-ctx.Done(); <-timeout.C } *)
Receive(r) ==
    /\ hpc[r] = "await"
    /\ data[r] # "none"
    /\ Return(r, data[r])
    /\ data' = [data EXCEPT ![r] = "none"]
    /\ UNCHANGED <<verifyTokens, before, jobs, jobsClosed,
                   workerVars, fileVars, mainVars>>

(***************************************************************************)
(* 504, from either select.  The timer of the second one has the duration  *)
(* of ctx and starts later, so ctx is done whenever it fires.              *)
(***************************************************************************)
GiveUp(r) ==
    /\ hpc[r] \in {"enqueue", "await"}
    /\ CtxDone(r)
    /\ Return(r, "timeout")
    /\ UNCHANGED <<verifyTokens, before, queueVars, workerVars,
                   fileVars, mainVars>>

(* The client closes the connection (or server.Close does). *)
Disconnect(r) ==
    /\ r \in Active \ gone
    /\ gone' = gone \cup {r}
    /\ UNCHANGED <<hpc, expired, resp, verifyTokens, before, queueVars,
                   workerVars, fileVars, mainVars>>

(* authRequestTimeout passes. *)
JobDeadline(r) ==
    /\ hpc[r] \in {"enqueue", "await"}
    /\ r \notin expired
    /\ expired' = expired \cup {r}
    /\ UNCHANGED <<hpc, gone, resp, verifyTokens, before, queueVars,
                   workerVars, fileVars, mainVars>>

HandlerStep(r) ==
    \/ Refuse(r) \/ ParseOk(r)
    \/ AcquireVerify(r) \/ VerifyCancelled(r) \/ VerifyDone(r) \/ FailDelay(r)
    \/ Enqueue(r) \/ EnqueuePanic(r) \/ Receive(r) \/ GiveUp(r)

-----------------------------------------------------------------------------
(* The workers: for job := range auth.Jobs { processJob(job) } *)

GoTo(w, pc) == wpc' = [wpc EXCEPT ![w] = pc]

(* updateTinc returns: the deferred release of the update token runs. *)
ReleaseToken == tincToken' = tincToken - 1

(* processJob returns, and what it knew about the job is gone. *)
Forget(w) ==
    /\ GoTo(w, "idle")
    /\ job' = [job EXCEPT ![w] = NoRequest]
    /\ wmsg' = [wmsg EXCEPT ![w] = "none"]

(* The transaction of w is closed. *)
CloseTx(w) == backup' = [backup EXCEPT ![w] = NoRequest]

(* processJob goes on to deliver(job, msg). *)
ThenDeliver(w, msg) ==
    /\ GoTo(w, "deliver")
    /\ wmsg' = [wmsg EXCEPT ![w] = msg]

(* Mutant of Dequeue: the job is read but stays at the head of the queue. *)
DequeuePeeks(w) ==
    /\ wpc[w] = "idle"
    /\ jobs # <<>>
    /\ job' = [job EXCEPT ![w] = Head(jobs)]
    /\ GoTo(w, "check")
    /\ UNCHANGED <<wmsg, backup, queueVars, handlerVars, fileVars, mainVars>>

Dequeue(w) ==
    /\ wpc[w] = "idle"
    /\ jobs # <<>>
    /\ job' = [job EXCEPT ![w] = Head(jobs)]
    /\ jobs' = Tail(jobs)
    /\ GoTo(w, "check")
    /\ UNCHANGED <<wmsg, backup, jobsClosed, data, handlerVars, fileVars,
                   mainVars>>

(* Mutant of WorkerExit: the worker stops although jobs are queued. *)
WorkerExitEarly(w) ==
    /\ wpc[w] = "idle"
    /\ jobsClosed
    /\ GoTo(w, "exited")
    /\ UNCHANGED <<job, wmsg, backup, queueVars, handlerVars, fileVars,
                   mainVars>>

(* The range loop ends when Jobs is closed and empty. *)
WorkerExit(w) ==
    /\ wpc[w] = "idle"
    /\ jobsClosed
    /\ jobs = <<>>
    /\ GoTo(w, "exited")
    /\ UNCHANGED <<job, wmsg, backup, queueVars, handlerVars, fileVars,
                   mainVars>>

(* A job whose client is gone is skipped; a user who is not listed is told. *)
CheckJob(w) ==
    /\ wpc[w] = "check"
    /\ \/ /\ CtxDone(job[w])
          /\ Forget(w)
       \/ /\ ~ CtxDone(job[w])
          /\ UserOf[job[w]] \notin Known
          /\ ThenDeliver(w, "notfound")
          /\ UNCHANGED job
       \/ /\ ~ CtxDone(job[w])
          /\ UserOf[job[w]] \in Known
          /\ GoTo(w, "acquire")
          /\ UNCHANGED <<job, wmsg>>
    /\ UNCHANGED <<backup, queueVars, handlerVars, fileVars, mainVars>>

(* Mutant of AcquireToken: the channel has room for two tokens. *)
AcquireOneOfTwo(w) ==
    /\ wpc[w] = "acquire"
    /\ tincToken < 2
    /\ tincToken' = tincToken + 1
    /\ GoTo(w, "recheck")
    /\ UNCHANGED <<job, wmsg, backup, host, settled, registered, queueVars,
                   handlerVars, mainVars>>

(* select { tincUpdateToken <- struct{}{}; <-ctx.Done() } *)
AcquireToken(w) ==
    /\ wpc[w] = "acquire"
    /\ tincToken = 0
    /\ tincToken' = tincToken + 1
    /\ GoTo(w, "recheck")
    /\ UNCHANGED <<job, wmsg, backup, host, settled, registered, queueVars,
                   handlerVars, mainVars>>

AcquireCancelled(w) ==
    /\ wpc[w] = "acquire"
    /\ CtxDone(job[w])
    /\ ThenDeliver(w, "internal")
    /\ UNCHANGED <<job, backup, queueVars, handlerVars, fileVars, mainVars>>

(* Mutant of Recheck: the cancelled update returns with the token. *)
RecheckKeepsToken(w) ==
    /\ wpc[w] = "recheck"
    /\ \/ CtxDone(job[w]) /\ ThenDeliver(w, "internal")
       \/ ~ CtxDone(job[w]) /\ GoTo(w, "write") /\ UNCHANGED wmsg
    /\ UNCHANGED <<tincToken, job, backup, host, settled, registered,
                   queueVars, handlerVars, mainVars>>

(* Mutant of Recheck: no second look at ctx.Err(). *)
RecheckDropped(w) ==
    /\ wpc[w] = "recheck"
    /\ GoTo(w, "write")
    /\ UNCHANGED <<wmsg, tincToken, job, backup, host, settled, registered,
                   queueVars, handlerVars, mainVars>>

(***************************************************************************)
(* The select may take the token although ctx is done, so updateTinc looks *)
(* at ctx.Err() again before it touches the host file.                     *)
(***************************************************************************)
Recheck(w) ==
    /\ wpc[w] = "recheck"
    /\ \/ /\ CtxDone(job[w])
          /\ ThenDeliver(w, "internal")
          /\ ReleaseToken
       \/ /\ ~ CtxDone(job[w])
          /\ GoTo(w, "write")
          /\ UNCHANGED <<wmsg, tincToken>>
    /\ UNCHANGED <<job, backup, host, settled, registered, queueVars,
                   handlerVars, mainVars>>

(* Mutant of WriteHost: the backup is taken after the replacement. *)
WriteHostThenBackup(w) ==
    /\ wpc[w] = "write"
    /\ backup' = [backup EXCEPT ![w] = job[w]]
    /\ host' = [host EXCEPT ![UserOf[job[w]]] = job[w]]
    /\ GoTo(w, "reload")
    /\ UNCHANGED <<job, wmsg, tincToken, settled, registered, queueVars,
                   handlerVars, mainVars>>

(* beginTincHostUpdate succeeds: the old content is backed up and replaced. *)
WriteHost(w) ==
    LET u == UserOf[job[w]] IN
    /\ wpc[w] = "write"
    /\ backup' = [backup EXCEPT ![w] = host[u]]
    /\ host' = [host EXCEPT ![u] = job[w]]
    /\ GoTo(w, "reload")
    /\ UNCHANGED <<job, wmsg, tincToken, settled, registered, queueVars,
                   handlerVars, mainVars>>

(***************************************************************************)
(* beginTincHostUpdate fails.  The old file is still there, or replaceFile *)
(* removed it, could not rename, and the restore failed the same way.      *)
(***************************************************************************)
WriteFails(w) ==
    LET u == UserOf[job[w]] IN
    /\ wpc[w] = "write"
    /\ \E left \in {host[u], NoRequest} :
          /\ host' = [host EXCEPT ![u] = left]
          /\ settled' = [settled EXCEPT ![u] = left]
    /\ ReleaseToken
    /\ ThenDeliver(w, "internal")
    /\ UNCHANGED <<job, backup, registered, queueVars, handlerVars, mainVars>>

(* The reload succeeds or is switched off: tx.commit(). *)
Commit(w) ==
    /\ wpc[w] = "reload"
    /\ settled' = [settled EXCEPT ![UserOf[job[w]]] = job[w]]
    /\ registered' = registered \cup {job[w]}
    /\ CloseTx(w)
    /\ ReleaseToken
    /\ ThenDeliver(w, "config")
    /\ UNCHANGED <<job, host, queueVars, handlerVars, mainVars>>

(* Mutant of ReloadFails: rolled back, but reloadTinc's error is dropped. *)
ReloadFailsUnnoticed(w) ==
    /\ wpc[w] = "reload"
    /\ TincReload
    /\ host' = [host EXCEPT ![UserOf[job[w]]] = backup[w]]
    /\ CloseTx(w)
    /\ ReleaseToken
    /\ ThenDeliver(w, "config")
    /\ UNCHANGED <<job, settled, registered, queueVars, handlerVars, mainVars>>

(***************************************************************************)
(* The reload fails: tx.rollback() restores the backup.  If its rename     *)
(* fails the new key stays, or the file is lost.                           *)
(***************************************************************************)
ReloadFails(w) ==
    LET u == UserOf[job[w]] IN
    /\ wpc[w] = "reload"
    /\ TincReload
    /\ \E left \in {backup[w], job[w], NoRequest} :
          /\ host' = [host EXCEPT ![u] = left]
          /\ settled' = [settled EXCEPT ![u] = left]
          /\ registered' = IF left = job[w] THEN registered \cup {left}
                                            ELSE registered
    /\ CloseTx(w)
    /\ ReleaseToken
    /\ ThenDeliver(w, "internal")
    /\ UNCHANGED <<job, queueVars, handlerVars, mainVars>>

(***************************************************************************)
(* deliver: nothing if ctx is done, otherwise the message goes into the    *)
(* buffer of job.Data.  A client that leaves between deliver's two selects *)
(* can no longer tell the two apart, so they are one step.                 *)
(***************************************************************************)
Deliver(w) ==
    /\ wpc[w] = "deliver"
    /\ data' = IF CtxDone(job[w]) THEN data
                                  ELSE [data EXCEPT ![job[w]] = wmsg[w]]
    /\ Forget(w)
    /\ UNCHANGED <<backup, jobs, jobsClosed, handlerVars, fileVars,
                   mainVars>>

WorkerStep(w) ==
    \/ Dequeue(w) \/ WorkerExit(w) \/ CheckJob(w)
    \/ AcquireToken(w) \/ AcquireCancelled(w) \/ Recheck(w)
    \/ WriteHost(w) \/ WriteFails(w) \/ Commit(w) \/ ReloadFails(w)
    \/ Deliver(w)

-----------------------------------------------------------------------------
(* main, from the signal to the end of the process *)

MainGoTo(pc) == mainPc' = pc

(* SIGINT or SIGTERM, or ListenAndServe returned: server.Shutdown starts. *)
Signal ==
    /\ mainPc = "serving"
    /\ MainGoTo("draining")
    /\ UNCHANGED <<forced, sweepers, handlerVars, queueVars, workerVars,
                   fileVars>>

(* Mutant of DrainDone: Shutdown does not wait for active requests. *)
DrainDoneEarly ==
    /\ mainPc = "draining"
    /\ MainGoTo("stopping")
    /\ UNCHANGED <<forced, sweepers, handlerVars, queueVars, workerVars,
                   fileVars>>

(* Shutdown returns nil once no connection is active. *)
DrainDone ==
    /\ mainPc = "draining"
    /\ Active = {}
    /\ MainGoTo("stopping")
    /\ UNCHANGED <<forced, sweepers, handlerVars, queueVars, workerVars,
                   fileVars>>

(* Shutdown meets its ten seconds: server.Close closes the connections. *)
DrainTimeout ==
    /\ mainPc = "draining"
    /\ forced' = TRUE
    /\ MainGoTo("stopping")
    /\ UNCHANGED <<sweepers, handlerVars, queueVars, workerVars, fileVars>>

(* Mutant of CloseJobs: the workers are waited for, the queue stays open. *)
CloseJobsForgotten ==
    /\ mainPc = "stopping"
    /\ MainGoTo("joining")
    /\ UNCHANGED <<forced, sweepers, queueVars, handlerVars, workerVars,
                   fileVars>>

(* stopWorkers: close(auth.Jobs), then wait for the workers ... *)
CloseJobs ==
    /\ mainPc = "stopping"
    /\ jobsClosed' = TRUE
    /\ MainGoTo("joining")
    /\ UNCHANGED <<forced, sweepers, jobs, data, handlerVars, workerVars,
                   fileVars>>

(* ... until all have returned; StopCleanup closes stopCh. *)
WorkersDone ==
    /\ mainPc = "joining"
    /\ \A w \in Workers : wpc[w] = "exited"
    /\ MainGoTo("cleanup")
    /\ UNCHANGED <<forced, sweepers, handlerVars, queueVars, workerVars,
                   fileVars>>

(* ... or for ten seconds. *)
WorkersTimeout ==
    /\ mainPc = "joining"
    /\ MainGoTo("cleanup")
    /\ UNCHANGED <<forced, sweepers, handlerVars, queueVars, workerVars,
                   fileVars>>

(* A cleanup goroutine sees stopCh closed and returns. *)
SweeperExit(s) ==
    /\ mainPc = "cleanup"
    /\ s \in sweepers
    /\ sweepers' = sweepers \ {s}
    /\ UNCHANGED <<mainPc, forced, handlerVars, queueVars, workerVars,
                   fileVars>>

(* WaitCleanup returns and the process ends, *)
Exit ==
    /\ mainPc = "cleanup"
    /\ sweepers = {}
    /\ MainGoTo("exited")
    /\ UNCHANGED <<forced, sweepers, handlerVars, queueVars, workerVars,
                   fileVars>>

(* at the latest after two seconds. *)
ExitTimeout ==
    /\ mainPc = "cleanup"
    /\ MainGoTo("exited")
    /\ UNCHANGED <<forced, sweepers, handlerVars, queueVars, workerVars,
                   fileVars>>

(* What main does without a timeout. *)
MainStep ==
    \/ DrainDone \/ CloseJobs \/ WorkersDone \/ Exit
    \/ \E s \in {"limiter", "nonce"} : SweeperExit(s)

MainTimeout == DrainTimeout \/ WorkersTimeout \/ ExitTimeout

-----------------------------------------------------------------------------
Alive == mainPc # "exited"

Environment(r) == Arrive(r) \/ Disconnect(r) \/ JobDeadline(r)

(* The end of the process. *)
Ended == ~ Alive /\ UNCHANGED vars

Next ==
    \/ Alive /\ \E r \in Requests : HandlerStep(r) \/ Environment(r)
    \/ Alive /\ \E w \in Workers : WorkerStep(w)
    \/ Alive /\ (Signal \/ MainStep \/ MainTimeout)
    \/ Ended

Spec == Init /\ [][Next]_vars

(***************************************************************************)
(* The Go scheduler runs every goroutine that can run, and waiters of a    *)
(* channel are served in order.  Nothing makes a request arrive, a client  *)
(* leave, a signal come, a job meet its deadline or one of main's timeouts *)
(* pass: requests and the shutdown have to end without them.               *)
(***************************************************************************)
Fairness ==
    /\ \A r \in Requests : WF_vars(Alive /\ HandlerStep(r))
    /\ \A w \in Workers : WF_vars(Alive /\ WorkerStep(w))
    /\ WF_vars(Alive /\ MainStep)

FairSpec == Spec /\ Fairness

-----------------------------------------------------------------------------
(* Properties *)

(* The worker holds the update token. *)
Updating(w) == wpc[w] \in {"recheck", "write", "reload"}

(* The worker has a job in its hands. *)
Busy(w) == wpc[w] \notin {"idle", "exited"}

Queued(r) == \E i \in 1..Len(jobs) : jobs[i] = r

(***************************************************************************)
(* No token is lost or given back twice on any path of updateTinc and      *)
(* verifyPasswordContext, so at most one worker is inside an update and at *)
(* most VerifyCap hashes are computed at a time.                           *)
(***************************************************************************)
TokensAccounted ==
    /\ tincToken = Cardinality({w \in Workers : Updating(w)})
    /\ verifyTokens = Cardinality({r \in Requests : hpc[r] = "hashing"})

(***************************************************************************)
(* A rollback has nothing to restore but what the last closed transaction  *)
(* left: outside a transaction host[u] is settled, and an open one keeps   *)
(* the settled content in its backup (updateTinc, backupExisting).         *)
(***************************************************************************)
HostSettled ==
    /\ \A w \in Workers :
          wpc[w] = "reload" => backup[w] = settled[UserOf[job[w]]]
    /\ \A u \in Users :
          \/ host[u] = settled[u]
          \/ \E w \in Workers : wpc[w] = "reload" /\ UserOf[job[w]] = u

(***************************************************************************)
(* A job has one owner: one place in the queue or one worker, never both,  *)
(* and its answer is not yet given.  Hence job.Data, which holds one       *)
(* message, always has room and deliver never waits for its timer.         *)
(***************************************************************************)
OneOwner ==
    /\ \A i, j \in 1..Len(jobs) : jobs[i] = jobs[j] => i = j
    /\ \A v, w \in Workers : Busy(v) /\ Busy(w) /\ job[v] = job[w] => v = w
    /\ \A w \in Workers : Busy(w) => ~ Queued(job[w])
    /\ \A r \in Requests :
          data[r] # "none" => ~ Queued(r) /\ \A w \in Workers : job[w] # r

(***************************************************************************)
(* No job is lost while its client waits: it is in the queue, which some   *)
(* worker still reads, with a worker, or answered.  This goes for a        *)
(* shutdown under way as well: workers empty the closed queue.             *)
(***************************************************************************)
NoLostJob ==
    \A r \in Requests :
        hpc[r] = "await" /\ ~ CtxDone(r) =>
            \/ Queued(r) /\ \E w \in Workers : wpc[w] # "exited"
            \/ \E w \in Workers : job[w] = r
            \/ data[r] # "none"

(***************************************************************************)
(* Exactly one place has the job of a client that waits: jobs are neither  *)
(* duplicated nor lost on their way through queue, workers and shutdown.   *)
(***************************************************************************)
JobsAccounted == OneOwner /\ NoLostJob

(***************************************************************************)
(* Jobs is closed under a handler that may still send on it only when      *)
(* server.Shutdown failed: no request is answered 500 by the panic of a    *)
(* send on a closed channel in a graceful shutdown.                        *)
(***************************************************************************)
GracefulClose ==
    ~ forced => /\ jobsClosed => Active = {}
                /\ \A r \in Requests : resp[r] # "panic"

(***************************************************************************)
(* The key of a request that was over before a newer request of the same   *)
(* user was made never replaces the newer key: a late worker finds the job *)
(* context cancelled, whatever the order in which workers get the token.   *)
(***************************************************************************)
Outdated(r) == \E q \in registered : UserOf[q] = UserOf[r] /\ r \in before[q]

NoStaleOverwrite ==
    [][\A u \in Users :
          settled'[u] \notin {settled[u], NoRequest} => ~ Outdated(settled'[u])
      ]_vars

(***************************************************************************)
(* Once Shutdown has drained the handlers no further host update starts:   *)
(* what is still queued has no client any more.                            *)
(***************************************************************************)
NoUpdateStarts ==
    \A w \in Workers :
        wpc[w] # "write" /\ wpc'[w] = "write" =>
            mainPc \in {"serving", "draining"} \/ forced

(***************************************************************************)
(* After an orderly Shutdown nothing is left that could go wrong: no       *)
(* handler is active, none has met the closed queue, and no update starts. *)
(***************************************************************************)
OrderlyShutdown == [][GracefulClose' /\ NoUpdateStarts]_vars

(* The server implements Registration. *)
AnswerOf(r) ==
    CASE hpc[r] # "returned" -> "none"
      [] hpc[r] = "returned" /\ resp[r] = "config" -> "config"
      [] hpc[r] = "returned" /\ resp[r] \in {"timeout", "internal"} -> "unknown"
      [] OTHER -> "rejected"

Abstract == INSTANCE Registration WITH
    InOrder <- TRUE,
    asked  <- {r \in Requests : hpc[r] # "idle"},
    closed <- Returned,
    answer <- [r \in Requests |-> AnswerOf(r)]

(***************************************************************************)
(* Every behaviour of the server is one of Registration: a client told     *)
(* "config" is registered, one that was refused, denied, not found or met  *)
(* a panic never will be, a timed out one may be, and keys come into force *)
(* in an order clients can understand.                                     *)
(***************************************************************************)
ImplementsRegistration == Abstract!Spec

(***************************************************************************)
(* The host file of one user, as HostStore has it: a worker with an open   *)
(* transaction has the saved content in its backup.  Only a crash reads    *)
(* held, and no step here is one, so it may have any key in it.            *)
(***************************************************************************)
InTx(u) == {w \in Workers : wpc[w] = "reload" /\ UserOf[job[w]] = u}

HostOf(u) == INSTANCE HostStore WITH
    Keys   <- Requests,
    Absent <- NoRequest,
    open   <- InTx(u) # {},
    file   <- host[u],
    saved  <- IF InTx(u) = {} THEN NoRequest
              ELSE backup[CHOOSE w \in InTx(u) : TRUE],
    held   <- Requests

HostUpdate(u) ==
    \/ \E r \in Requests : HostOf(u)!Write(r)
    \/ HostOf(u)!WriteFails \/ HostOf(u)!Commit \/ HostOf(u)!Rollback

(***************************************************************************)
(* Whatever the workers do with a host file, however many there are, is    *)
(* one update after the other as HostStore has it: none begins while       *)
(* another of the user is open, and each ends with the new content or with *)
(* what was there when it began.  TincHost shows that the system calls of  *)
(* updateTinc implement HostStore when they are used in this way.          *)
(***************************************************************************)
UsesHostStore ==
    [][\A u \in Users : HostUpdate(u) \/ UNCHANGED <<host[u], InTx(u)>>]_vars

(* Every request the server takes is finished with, unless the process ends. *)
RequestsEnd ==
    \A r \in Requests : hpc[r] = "parse" ~> hpc[r] = "returned" \/ ~ Alive

(* The shutdown sequence needs none of its timeouts to come to its end. *)
ShutdownEnds == mainPc = "draining" ~> ~ Alive
=============================================================================
