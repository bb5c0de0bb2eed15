# EdgeSecurityAccess: a TLA+ model of the registration servers

EdgeSecurityAccess hands out VPN access. A client generates a key pair, signs an
authentication request and posts it; a server checks the password, the signature
and a nonce, puts the client's public key into the VPN's configuration and
answers with a client configuration. There are two servers written along the
same lines: one for tinc (`tincver/`) and one for WireGuard (`src/esa/`); three
client programs, of which one has no window; and two administration tools. The
modules here model their concurrent and stateful parts.

Paths below are relative to the repository.

## 1. Inventory

| Component | State it keeps | Operations | Talks to |
|---|---|---|---|
| tinc server, request path (`tincver/http_.go`, `encrypt.go`) | `passwordVerifyTokens` (2), `Auth.Jobs` (150), one context and one `job.Data` per request | `ServeHTTP`, `verifyPasswordContext`, the two `select`s around the job | limiter, nonce store, workers through `Jobs` and `Data` |
| tinc workers and update (`tincver/main.go`, `updateconf.go`) | `tincUpdateToken` (1), the host files | `processJob`, `updateTinc`, `deliver` | handlers, host files, `tinc reload` |
| tinc host file transaction (`tincver/updateconf.go`) | host file, temporary file, backup | `backupExisting`, `writeTincHostFile`, `replaceFile`, `commit`, `rollback` | the file system, tinc |
| shutdown (`tincver/main.go`) | server, `Jobs` open or closed, cleanup goroutines | `Shutdown`, `Close`, `stopWorkers`, `StopCleanup`, `WaitCleanup` | everything above |
| nonce store (`*/http_.go`) | `a.nonces` under `nonceMu` | `checkAndStoreNonce`, the sweeper of `StartNonceCleanup` | handlers |
| rate limiter (`*/http_.go`) | `a.limiters` (a `sync.Map`), `limiterCount`, one token bucket per address | `getLimiter`, `allowRequest`, `recordFailure`, `recordSuccess`, the sweeper | handlers |
| WireGuard server, request path (`src/esa/http_.go`, `encrypt.go`) | `passwordVerifyTokens` (2), `Auth.Jobs` (150), one context and one `job.Data` per request | `ServeHTTP`, `verifyPasswordContext` | limiter, nonce store, workers |
| WireGuard workers, update and shutdown (`src/esa/main.go`, `updateconf.go`) | the kernel's peers, `workerCtx` | `processWGJob`, `updatewg`, the worker loop, `Shutdown`, `cancelWorkers`, `stopWGSaver` | handlers, `wg set`, the saver |
| WireGuard saver (`src/esa/updateconf.go`) | `wgSaveCh`, `wgSaveQueueCh`, the map `pending`, the debounce timer | `scheduleWGPersist`, two goroutines, `stopWGSaver` | workers, `wg-quick save` |
| validation and signature (`validation.go`, `encrypt.go`) | none | string checks, Argon2, Ed25519 | - |
| accounts and user configuration (`New`, `usercfg.go`) | maps read once at start | `New`, `LoadUserStore`, `Get` | - |
| configuration and paths (`comb.go`, `paths.go`) | the paths file, `AppPaths` at the start | `LoadOrCreateAppPaths`: find, read, environment, prompt, `writeAppPathsFile`, `Validate`; parsing of `esa.conf` | the file system, the operator |
| trusted proxies (`*/http_.go`) | two sets read once | `isTrustedProxy`, `clientIP` | the limiter, which counts by address |
| address allocator (`src/esaipalloc`) | none between runs | `readUsernames`, `allocateAddresses`, `writeAssignments` | reads `users.txt`, writes `usrwg.conf` |
| account manager (`src/esausermanage`) | accounts in memory and in `users.txt` | create, update, delete, `loadAccounts`, `saveAccounts` | `users.txt` |
| clients (`tincver/client`, `src/esaclient`) | fields and buttons, an event queue, a timer, key pairs, the files they save | connect or authenticate in a worker thread, poll, generate, save | servers |

What is hard here, and what correctness means:

- **Requests and workers.** A request has a client that may leave, a deadline,
  and a job that other goroutines handle. Workers reach the update token in any
  order. Tokens must not be lost, jobs must be handled once or not at all, the
  answer must agree with what happened to the host file, and an old request must
  not overwrite the key of a newer one.
- **Workers without a token.** The WireGuard server has no update token: two
  workers may run `wg set` for one user at once, and a command may be killed
  half-way with its job's context. An old key may win, but only in this way.
- **Shutdown.** Closing `Jobs` under a handler panics; after an orderly
  shutdown this must not happen, no host file may be touched any more, and the
  sequence must come to an end without its timeouts. The WireGuard server stops
  its workers with jobs queued, which must strand nobody.
- **Host files.** A replacement is a dozen system calls, each of which may fail,
  and the process may stop between any two. The file must be whole, and the old
  content must come back when tinc does not reload.
- **Nonces.** Times are read before a wait and used after it; the map is swept
  and has a limit. A message must not be accepted twice.
- **Limiter.** Pointers to buckets outlive the map entry, the counter beside the
  map is changed in three places, the clock is read outside the lock.
- **Saver.** Two goroutines, two bounded channels, a drop-the-oldest policy and
  a timer that is put off: no peer may be forgotten.
- **Administration files.** Two tools replace files that the server and the
  other tool read, by calls that may fail and with processes that may be killed.
  The server must accept what they write, and what was reported as saved must be
  in the file.

- **Clients.** The server may go on after a client has given up, or its answer
  may get lost. A client that does not know the outcome must not lose the private
  half of a key that may be in force, must not offer a configuration that is not,
  and must let its user try again.
- **Proxies.** What a header says was written by the client and by proxies: behind
  proxies that are set up for it, a client's requests count in its own bucket.
- **Start-up.** The paths come from one of three files, from the environment and
  from the operator, who answers once. The answers must survive what interrupts
  the writing of them, and be read back as they were given.

Every hazard, with its line and the properties aimed at it, is in
`PROJECT.json` under `hazards`. Where the harm is something the code does, and the
properties are stated around it, the hazard lists no property, or its note names the
exception; section 5 says what happens then.

## 2. Modules

| Module | Models | Level |
|---|---|---|
| `Registration` | what both servers promise their clients; `InOrder` says whether keys are registered in order | abstract |
| `AuthServer` | request path, queue, workers, update token, shutdown of the tinc server | detailed; implements `Registration` with `InOrder` |
| `WgServer` | request path, queue, workers, `wg set`, shutdown of the WireGuard server | detailed; implements `Registration` without `InOrder` |
| `HostStore` | one update of one host file, as its caller sees it | abstract |
| `TincHost` | the same update as system calls, with faults and crashes | detailed; implements `HostStore` |
| `NonceStore` | the nonce store of both servers | detailed |
| `ClientIP` | `clientIP` and `isTrustedProxy` of both servers; proxies as an environment | functions |
| `Limiter` | the rate limiter of both servers, over `ClientIP` | detailed |
| `WgSaver` | `updatewg` and the saver goroutines of the WireGuard server | detailed |
| `Provisioning` | the account manager, the address allocator and what the WireGuard server accepts of their files | detailed |
| `Client` | the three client programs, each against an instance of `Registration` | detailed, composed |
| `Startup` | `LoadOrCreateAppPaths` of the tinc server from one start to the next | detailed |
| `MC*` | instances for TLC (`WgSaver` and `Client` need none) | |
| `*_proofs` | theorems and proofs; those of `WgSaver` are at the end of `WgServer_proofs`, those of `ClientIP` in `Limiter_proofs` | |

`AuthServer` treats the verdicts of the limiter, of validation and of the nonce
store as free choices, and the file operations of an update as one step that
succeeds or fails in one of several ways. `NonceStore` and `Limiter` model how
the first verdicts come about. `TincHost` models the file operations, and
`HostStore` is the joint between the two. `TincHost` implements it, and
`AuthServer` uses it: what its workers do with the host file of a user is one
`Write` after the other of `HostStore`, each ended by `Commit` or `Rollback`
(`UsesHostStore`). `AuthServer` has no crash that it survives, so `held`, which
only a crash reads, is left open there.

### AuthServer

Each goroutine has a program counter: `hpc[r]` for the handler of request `r`
(`ServeHTTP`), `wpc[w]` for a worker (`processJob`), `mainPc` for `main`. One
action is what the code does between two points at which another goroutine can
matter: a channel operation, a `select`, a look at a context. The channels are
`jobs`, `data`, `verifyTokens` and `tincToken`; a `select` is several actions
that can be enabled together, as Go picks any ready case. `gone` and `expired`
are the two reasons for which a job context is done before the handler returns.

A request stands for the key it carries, so `host[u] = r` reads "the host file
of `u` holds the key of `r`". `settled`, `registered` and `before` are history:
they never occur in a guard.

`Registration` has the same history and nothing else. A request is asked,
its key may come into force, and it is closed with `config`, `rejected` or
`unknown`. The refinement maps 504 and "Internal error" to `unknown`: in both
cases the key may be in force. It says among other things that a client that
was told `config` is registered, that a rejected one never will be, and that a
key never replaces that of a request made after it was closed.

### WgServer

The handlers and `main` are modelled as in `AuthServer`. A worker has four
places on its way (`wpc`): `check` looks at the context and the user's address,
`start` is `updatewg` up to the start of the command, in `command` the kernel
has not yet taken the peer, in `applied` it has and the command is still to
exit. The context kills the command in either; `SetFails` has both.
`route[u]` is the peer that has the address of `u`. `Cancelled` and
`JobsClosed` are the two reasons for which a worker ends; the first does not
wait for the queue. There is no step that closes connections, so a handler goes
on after a `Shutdown` that failed and may meet the closed queue
(`EnqueuePanic`). `overrun` is history: the requests that returned while their
command was running. What the process leaves running when it ends is not
modelled.

### TincHost

`pc` is the next system call of `updateTinc`. `dir` maps the three names to
contents, `synced` says which contents are on disk, `onDisk` which host files a
crash may leave. A crash tears what is not synced, may undo renames
since the last `syncDir`, and may lose a hosts directory that was just created.
`litter` is the set of contents of temporary files nobody will remove.
`loaded` is what the running tinc has read. The checks at the beginning of
`updateTinc` (`ValidatePeer`, the name of the network, the tinc directory) have no
action: `esacfg`, `LoadUserStore` and the validation of the form have made sure of
what they ask, so that they cannot fail.

### NonceStore, ClientIP, Limiter, WgSaver

`NonceStore` has an integer clock, one handler per delivery of a message and
the sweeper. `RereadClock` distinguishes the servers: the WireGuard handler
reads the clock again before the nonce store, the tinc handler does not.

In `ClientIP` an address stands for its text, so `net.ParseIP` is membership and
a network is a set. A request has any number of lines of `X-Forwarded-For`, each a
sequence of fields; `Get` returns the first, as `Header.Get` does. The second half
(`Received`) is the environment: what a request looks like when it comes directly,
through proxies that append to one line of `X-Forwarded-For`, or through one that
drops that header and sets `X-Real-IP`, and the client wrote lines of its own
(`Lines`) and trusted proxies stand between (`Chains`). This is how the proxies
must be set up for a server that reads the headers so; other set-ups are not in
`Received`, and `NoFlood` says nothing about them (section 5).

`Limiter` names a bucket by the call that created it, so that a handler can
hold a pointer to a bucket that has left the map. Each handler has the machine
its request comes from (`client[h]`) and the address `clientIP` made of it
(`ipOf[h]`), fixed at the start to any pair that `ClientIP` allows (`Arrivals`).
The buckets are those of `ipOf`, but `ideal[c]` and `strays[c]`, which `NoFlood`
compares with, are those of the client: a client whose requests were counted
under several addresses would break it. `failCount` and `lastFail` are left out.

`WgSaver` has one interface and one path. All requests in the channels are then
equal, so a channel is its length and the map `pending` a Boolean.

### Provisioning

`accounts` is the list of the account manager, `assignments` that of the
allocator, `file[t]` the file tool `t` writes: `users.txt` and `usrwg.conf`.
Both replace their file by the same calls (`saveAccounts`, `writeAssignments`),
so these are actions with the tool as parameter and `pc[t]` as the next call:
write a temporary file, rename it, and if that fails remove the old file and
rename again. The allocator reads `users.txt` in one step, as it opens it once
and a rename leaves the opened file alone. `Kill` ends a tool between two calls.
Everything else in the directory is out of sight, temporary files included.

Names and hashes are members of small sets; a line has one of the two
separators that `New` accepts. `loadAccounts` accepts only the colon, and
`readUsernames` takes a whole line with a comma for a name. An address is a
subnet and an offset, a subnet an address family and a size. `promised` and
`removed` are history: what the manager last said of each account, and whether a
failing rename has removed the file. A command opens the promise, "Saved"
settles it, "Save failed" leaves it open.

### Client

`program` says which of the three clients runs. An attempt is a number; its
worker is in `workers` while it is in `authenticate`, `Post` sends the request
(and in the WireGuard client makes the key pair), and its end is an event in
the queue, which the window's poll function takes while its timer is armed
(`polling`: the WireGuard window arms it after the dialog it shows for an
error). The command line has no window; `stage` is the next statement of its
`main`, and each attempt is a process.

The server is `Registration`, in order for tinc and without order for WireGuard:
`Serve` is any of its steps for a request that was posted. Nothing else is known
of the server, so the properties hold with every server that implements
`Registration`, as both do. A worker may end with a failure whatever the server
does: the answer is lost, late, cut short or not a configuration.

A key pair is a number. `HeldKeys` are those whose private half is in a window,
a process or a file: the WireGuard client writes it into the configuration, the
tinc clients keep it apart. `doubtful` and `forgotten` are history: attempts that
were given up and may yet be registered, and pairs that the user has replaced,
overwritten or closed the window on. What is typed into fields is left out.

### Startup

One action per call of `LoadOrCreateAppPaths` that may fail or be the last one
before a kill. A paths file is a function from the keys it has to their values,
so that a missing key, an empty one (which `filepath.Clean` turns into `.`) and a
relative path differ. `files` are the three places, the variable
`ESA_PATHS_FILE`, the working directory and the directory of the program.
`Validate` and the loading of the three other files succeed or fail freely, but
succeed only with absolute directories. `answers` is history: what the operator
answered and where it was saved, until the administrator edits that file.

## 3. Runs

| Run | Instance | Shows |
|---|---|---|
| `auth_safety` | 2 requests of one user, 2 workers, 1 verification token, queue of 1, shutdown at any time | tokens, whereabouts of jobs, the host file, orderly shutdown, order of keys, refinement of `Registration`, use of `HostStore` |
| `auth_live` | 1 request of a listed and 1 of an unlisted user, fairness | every request ends; shutdown ends |
| `wg_server_safety` | 2 requests of one user, 2 workers, 1 verification token, queue of 1, shutdown at any time | whereabouts of jobs, orderly shutdown, when an older key may win, refinement of `Registration` |
| `wg_server_live` | 1 request of a listed and 1 of an unlisted user, fairness | every request ends; shutdown ends |
| `nonce_tinc` | 2 deliveries of one message and 1 of another, map of 1 | replay protection with stale times, sweeping and a full map |
| `nonce_wg` | 2 deliveries of one message, the clock read again, a map without limit, fairness | stale entries leave the map |
| `limiter` | 3 requests of up to 3 clients, which write lines of up to 2 fields, 1 to 3 proxies of which one is trusted by address and one by network, map of 2 | no client gets more than a bucket of its own allows; only idle buckets are dropped; the counter agrees with the map |
| `tinc_host` | 2 updates, up to 4 failing calls in each, 1 crash | the host file under faults and crashes; refinement of `HostStore` |
| `wg_saver` | 3 requests, channels of 1, fairness | no scheduled peer is forgotten; saves happen; both goroutines stop |
| `provisioning` | 2 names, 2 hashes, a `users.txt` of up to 2 lines to begin with, 3 IPv4 and 2 IPv6 subnets | the server accepts the files, promises are kept, whichever call fails and whichever tool is killed |
| `client` | 2 attempts and 3 key pairs for each of the 3 programs, fairness | no stale configuration is offered; private halves are kept; every attempt ends |
| `startup` | 3 places, 2 directories, 6 contents of an edited file, 6 environments, any number of starts | the answers are kept; a running server can be restarted unattended |

The type invariants of `AuthServer`, `WgServer`, `NonceStore`, `WgSaver`,
`TincHost` and `Provisioning` are theorems and are not checked again. The property `AcceptedOnce`
is checked for the tinc server; the theorem covers both servers.

**Why the bounds are enough.** The interesting cases of `AuthServer` need two
requests of one user (an old and a new key), two workers (one overtakes the
other), a queue that fills and a token that is contended, which two requests,
one place and one token give. A third request would add a worker that is held up
by somebody else's job; the theorems below cover any number. The same holds for
`WgServer`. For `NonceStore` the clock runs to TTL plus twice the
skew or further, so that an entry is stored, becomes stale and is looked up
again; in `nonce_tinc` a third delivery is of another message and fills the map. In `Limiter` the clock
runs past an idle period, and three requests are what a stale pointer needs:
one that makes the bucket, one that keeps the pointer, one that finds the map
empty. Two places for three clients fill the map. Two fields of the client's and
two proxies before the one that the server sees give every order of the kinds of
texts on either side of the client's address; the theorems cover any line. Four faults are as many as one update can make use of between a failed
replacement and a failed restore; one crash ends in the same state as several.
Two updates let the second meet what the first left behind. In `WgSaver` three
requests are one that is being saved, one in the saver's queue and one that is
pending, or two in a hurry that find the channel of one full. In `Provisioning`
two names are one that is changed and one that must not be; the subnets are one
that is refused as too small, one with room for one, one with room for more, and
the same without and with room for IPv6. In `Client` the interesting pairs are an
attempt that was given up and the one after it; a third attempt adds another of
either kind. Three key pairs are one more than there are attempts, generated but
never sent. In `Startup` the environments set each variable and the files have each
key, with a good value, an empty one or none.

`MaxTime`, `MaxLag`, `MaxUpdates`, `MaxFaults`, `MaxCrashes`, `MaxLines`,
`MaxAttempts` and `MaxKeys` bound
the models and stand for nothing in the code. Deadlock checking is off where the system stops by
design: when the clock, the requests or the updates are used up.

**Fairness.** Each goroutine is treated fairly (weakly): Go runs a goroutine
that can run, and a channel serves its waiters in order. Timers and tickers
fire. `wg set` and `wg-quick save` end because they have a timeout. No fairness is assumed for
what nobody guarantees: that requests arrive, clients leave, a job meets its
deadline, a shutdown starts, or one of `main`'s timeouts passes. `RequestsEnd`
and `ShutdownEnds` thus show that requests and the shutdown end without help
from those timeouts. In `Client` a worker comes to its end, since its socket
has a timeout and its thread is scheduled; Tk runs a timer that is armed; and a
command goes on once it has the password. The user need not do anything, nor
the server.

**Mutants.** Each module contains, before some of its definitions, a mutant of
it: the same definition with a plausible bug. They are not used by `Next`; put
in place of the definition they make a property fail, and `PROJECT.json` says
which. They show that the properties depend on what the code does.

## 4. Theorems

Proved with TLAPS for all values of the constants that satisfy the `ASSUME`
`ConstantsOK` of the module (`SaverConstantsOK` of `WgSaver`, `TrustOK` of
`ClientIP`: finite sets of requests, workers and keys,
capacities of at least one, and the like).

- `AuthServer_proofs`. The inductive invariant `IInv` is `TypeOK` with
  `VerifyInv` and `UpdateInv` (which goroutines hold which token) and `JobInv`
  (a queued or handled job was enqueued by its handler). It gives `TypeCorrect`
  and `TokensCorrect`. `HostInv` relates the host file, its settled content and
  the backup of the worker that has the token; it needs `UpdateInv`, because only
  mutual exclusion makes the backup the settled content (`HostSettledAlways`).
  `FreshInv` says that a request whose transaction is open is not outdated: it
  holds because the context is looked at with the token in hand, and while one
  worker has the token no other key is registered (`NeverStale`). `DrainInv`
  follows the shutdown: after an orderly drain no handler is active and every
  job in the queue or with a worker has a finished handler
  (`ShutdownIsOrderly`).
  `OwnInv` says that a job is in one place, and that a
  registered request's job is past its update, without which "in one place" is
  not enough to see that a key is registered once. `LostInv` adds that the
  workers leave only an empty queue that is closed (`JobsAccountedFor`).
  `AnswerInv` keeps answers and host files in step: `config` is only on its way
  for a registered request, and a rejection only for one that never will be.
  With it and `FreshInv` every step is a step of `Registration` or stutters
  (`Refinement`): `Arrive` is `Ask`, a return is `Close`, the end of a
  transaction is `Register`. As a worker with the token has the only open
  transaction (`OnlyTx`), and its backup is its own, host files are used as
  `HostStore` allows (`HostStoreUsed`).
- `WgServer_proofs`. `IInv` is `TypeOK` with `VerifyInv` (tokens count the
  handlers that hash) and `JobInv`. `DrainInv` follows the shutdown as above
  (`ShutdownIsOrderly`). `LateInv`: a command that runs for a request that
  returned was running when it returned, as commands are not started afterwards
  (`LateNeedsOverrun`). `OwnInv` and `LostInv` are as above
  (`JobsAccountedFor`), except that the workers may leave a queue that is not
  empty, of which nobody waits. `AnswerInv` leads to `Refinement`, where
  `KernelSets` is `Register`. At the end of the module is the saver, the other
  half of the process: `NoSaveForgotten` is inductive with `SavedInv`, which says
  that the file and the snapshot hold only peers of the kernel
  (`NoSaveForgottenAlways`).
- `NonceStore_proofs`. The invariant ties each accepted delivery to the entry
  it left, or to the time at which that entry could be dropped: entries are
  dropped only by a cutoff no later than the clock less TTL, whatever the time
  the handler carries. From it `OncePerTTLAlways`, `AcceptedOnceAlways`,
  `RejectedForAReasonAlways` and `WithinCapacityAlways`.
- `Limiter_proofs`. First of `ClientIP`, for any request, whoever wrote its headers:
  `clientIP` returns a machine's address if and only if the request counts as that
  machine's (`ClientIPIsClient`). `CountsAs` says when, without an index or a
  maximum: the peer is the machine; or the peer is a proxy, and the first line is
  something, the machine, and then only proxies and junk, or it is nothing but these
  and `X-Real-IP` is the machine. The last such field exists because the order of
  the indices is well-founded (`HasGreatest`). What `Received` allows counts as the
  client's (`ReceivedIsOwn`), so that there each client has a bucket to itself.
  `BucketInv` and
  `SweepInv` say where the buckets are: in the map, dropped, or not yet made; with
  the sweeper's two looks at the map they give `CountMatchesAlways`. `NoFlood` is
  about tokens a client has used and is far from inductive. `FloodInv` compares
  what a bucket is worth now (`Worth`: its tokens and what it has gained since it
  was last touched) with the credit of a client whose bucket is never dropped
  (`Credit`): the worth of the bucket in the map is covered, and a client without
  one, or whose bucket is being dropped, has credit for a full one. Dropping a
  bucket is safe because one that is stale is full (`StaleIsFull`); this uses
  `ClockInv`, which bounds the lag of the handlers, and the assumption that a bucket
  fills up within the idle time. `IdleInv` gives `OnlyIdleForgottenAlways`.
- `Provisioning_proofs`. About the allocator as a function: what it returns is
  accepted and usable (`AllocationUsable`), and it refuses only what does not
  fit (`RefusedForWantOfRoom`), for every subnet and number of users. About the
  tools: `IInv` says of the lists in memory what is asked of the files, since
  the next replacement writes them, and that promises are kept in memory too as
  long as the manager runs (`PromiseInv`). A command changes one user's line
  (`Changed`), and that user's promise is open. From it `TypeCorrect`,
  `FilesLoadAlways` and `PromisesKeptAlways`.

- `Client_proofs`. `Shape` is what the single worker buys: only the last attempt
  is under way, in its worker or in the queue, and while it is, nothing can be
  saved. `Server` is what of `Registration` the clients rely on. `Outcome` says that
  a posted attempt is under way, doubtful, or answered for good; with it `Newest`
  is inductive: the key in force is the newest registered one, or doubtful, even
  when the server registers out of order. With `Received`, that a configuration
  was answered, this gives `ConfigInForceAlways`. For `PrivateHalfHeldAlways`,
  `Kept` says of the tinc clients that every key posted is one that is held or
  forgotten; the WireGuard window has a pair for each attempt (`Pairs`), and
  `WgKept` follows that of the key in force from the worker to the file. It needs
  `Newest`, because a new configuration replaces the old one in the window.
- `TincHost_proofs`. `Inv` says what is under each of the three names at each
  call: before the copy (`Before`), while the old file is in the backup (`Backup`),
  and of the host file itself (`Place`). The host file may be missing only after
  two faults, or between the removal and the second rename (`Unsettled`), which is
  why `AllOrNothing` holds for one fault. `Disk` says that nothing under the host
  file's name, now or after a crash, is torn: what is moved there was synced
  (`SrcIs`). From it `HostFileSurvivesAlways`, `AllOrNothingAlways`,
  `DurableAnswerAlways` and, as the rename of the temporary file is the only step
  in which the abstract file changes within an update, `Refinement`.

- `Startup_proofs`. Lemmas about the functions come first: what is read from a
  paths file is typed (`ReadTyped`), `readAppPathsFile` finds what
  `writeAppPathsFile` wrote (`ReadBack`), and the environment never takes a value
  away (`EnvironmentApplied`). `PlaceInv` says that the file is where a restart
  will look for it, whatever is done to it. `KeptInv` adds to `AnswersKept` that
  the questions are asked only about a file no answers are in (`NothingToAsk`),
  which is what makes its removal before the second rename safe. `FoundInv` says
  where the paths at hand came from: the operator and then the file, or the file and
  then the environment. From it `AnswersKeptAlways` and
  `RestartsUnattendedAlways`. Besides types, `ConstantsOK` says that the model values
  for "no value" and "no file" are no directories, files or Booleans.

Every invariant and every action property that a run checks, and both
refinements of `Registration` and that of `HostStore`, are stated by a theorem.
Only model-checked are the liveness properties: `RequestsEnd`, `ShutdownEnds`,
`StaleGo`, `PeersSaved`, `StopEnds` and `AttemptEnds`. They rest on fairness, and so on
`ENABLED`, which is out of the prover's reach.

## 5. What the models show about the code

No property that a comment or test of the repository states was found violated.
Some behaviours are worth knowing, and the properties are stated around them:

- A WireGuard client that gives an attempt up drops its private key with it. If
  the server registers the key after that, the user's earlier configuration is no
  longer in force and nobody has the new key, until the next attempt
  (`ConfigInForce` and `PrivateHalfHeld` have the exception). The tinc window keeps
  its key pair over attempts, and the command saves it first; these lose none,
  unless the user generates another or lets `--save-keypair` overwrite the file.
- In the WireGuard window Save stays disabled after an attempt that failed,
  although the configuration of an earlier attempt is still at hand, and may
  be in force. The button Connect does not come back when the thread cannot be
  started or ends by an exception of another class; the window must be closed
  (`AttemptEnds` has the exception).
- The tinc window's Generate is enabled while an attempt is under way, so that the
  fields may show another pair than the one in force. Its Save result saves an
  error message too. `--output` is written in place, so an interrupted
  command leaves a file that is cut short.
- The paths file is removed before the second rename, with nothing in its place
  until that succeeds. No answer is lost by it: the code only asks, and so only
  writes, when the file is missing or not complete (`AnswersKept`).
- The operator's answers win over the environment in the start in which they are
  given, and lose in the next one, so that the paths of a restart can differ from
  those of the running server (`RestartsUnattended` says how). The questions are asked
  when the file is missing even if the environment sets both directories.
- The TTL of a nonce is exactly twice the allowed skew. A message signed ahead
  of the server's clock, or a handler that waits TTL - Skew between reading the
  clock and the nonce store, escapes `AcceptedOnce`; its hypotheses say so.
- The tinc handler gives the nonce store the time it read before the password
  check. `OncePerTTL` therefore counts from the stored time.
- `clientIP` reads the first line of `X-Forwarded-For` only, and reads it before
  `X-Real-IP`. The limiter counts by client only behind proxies that append to that
  line, or that drop the header when they set `X-Real-IP`. Behind one that adds a
  line of its own, or passes the client's line on, requests count as the first line
  says (`ClientIPIsClient`). The repository does not say how proxies are to be set up.
- The limiter's sweeper lets go of a bucket's mutex between looking at it and
  removing it. A handler that has the pointer may still be admitted by it, which
  `NoFlood` counts as a stray.
- The rollback of a first registration removes the host file without syncing
  the directory. After a crash the refused key may be there (`DurableAnswer`
  has the exception).
- Temporary files of failed updates and backups that could not be written are
  never cleaned up, and keep the hosts directory from being removed by a later
  rollback.
- A reload that is killed after tinc read the file leaves tinc ahead of the
  file, which is rolled back.
- In the WireGuard server an older key can replace a newer one of its user, if
  its `wg set` was running when its client gave up (`OnlyOverrunsAreLate`). The
  command may also be killed after the kernel took the peer: the client is told
  504 or "Internal error", and the peer stays.
- The workers of the WireGuard server end with jobs in the queue. After an
  orderly `Shutdown` nobody waits for these (`JobsAccounted`). After one that failed
  handlers go on, and are answered 504 or, by a panic, 500.
- A failed `wg-quick save` is not retried, and one that is scheduled can be put
  off for as long as requests come every second. `stopWGSaver` may lose the last
  peers before a shutdown.
- A change whose save failed stays in the manager's memory, and the next save
  that succeeds writes it. When a rename fails, `users.txt` is removed before it
  is tried again; if that fails too the accounts are gone from the file, and a
  manager that is started then takes the missing file for an empty list
  (`PromisesKept` has the exception).
- A line `name,hash` in `users.txt`, which the server accepts, stops the account
  manager; the allocator writes a `usrwg.conf` for it that the server refuses.
- The allocator accepts an IPv4 /30, with room for one user beside the server.
  It may give the last address of an IPv6 subnet, which is not special there,
  and needs no room for a broadcast address.

## 6. Not modelled, and the plan

The checks of form fields and the signature (`validation.go`, `encrypt.go`) keep
no state and depend on nothing but the request: their verdict is a free choice
wherever it matters. Logging is output. Of `comb.go` and `usercfg.go` the outcome
is modelled, not the grammar. The removal of host files and peers (`status`
false) is not called by the servers. Of the limiter, the length of the delay after
a failure is left out. Of the
administration tools, hashing, the verification command (it changes nothing),
the end of the input, a loss of power (neither tool syncs the directory after a
rename) and a second account manager on the same file are left out.

Next, in this order:

1. `WgServer` composed with `WgSaver`: from the answer to the configuration
   file, through a shutdown.
2. The delays of `recordFailure`, and a composition of the limiter, the nonce
   store and the request path.
