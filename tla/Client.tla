------------------------------- MODULE Client -------------------------------
(***************************************************************************)
(* One user and one of the three client programs: the WireGuard window     *)
(* (src/esaclient/clientgui.py), the tinc window (tincver/client/          *)
(* esa_gui.py) and the tinc command line (tincver/client/esa_client.py),   *)
(* against a server that keeps the promises of Registration.  An attempt   *)
(* posts a public key in a worker thread, or in the command's process; the *)
(* worker puts an event into a queue that the window polls.  The server    *)
(* goes on after the client has given up, and an answer may get lost, so   *)
(* that the program cannot know which key is in force.  What it must not   *)
(* do is offer a configuration that is not, or lose the private key.       *)
(*                                                                         *)
(* Attempts and key pairs are numbered in the order they are made.  The    *)
(* user does not type into the key fields or the result.                   *)
(***************************************************************************)
EXTENDS Integers, Sequences, FiniteSets

CONSTANTS Programs,    \* the programs to look at
          MaxAttempts, \* bounds: attempts,
          MaxKeys      \* and key pairs

ASSUME ConstantsOK ==
    /\ Programs \subseteq {"wg_gui", "tinc_gui", "cli"}
    /\ MaxAttempts \in Nat \ {0}
    /\ MaxKeys \in Nat

Attempts  == 1..MaxAttempts
NoAttempt == 0
ErrorText == -1   \* in a result: an error message
Torn      == -2   \* in a file: cut short
NoKey     == 0
OwnKey    == MaxKeys + 1   \* the user's key pair, of --pubkey
Keys      == 1..OwnKey

VARIABLES
    program,
    \* the program
    stage,     \* the statement of the command that comes next; or "window"
    busy,      \* is Connect, or Authenticate, disabled; does the command run?
    stuck,     \* was the worker not started, or did it die without an event?
    tried,     \* attempts so far
    made,      \* key pairs generated so far
    keyOf,     \* keyOf[r]: the public key of attempt r
    workers,   \* attempts inside authenticate
    sent,      \* attempts whose request was posted
    events,    \* the queue: what became of which attempt
    polling,   \* is the timer of the poll function armed?
    config,    \* the attempt whose configuration the program has, or ErrorText
    canSave,   \* is there a result to look at or save?
    pubkey,    \* the pair in the fields of the window, or of the command
    \* files
    keyFile, configFile,
    \* the server: the variables of Registration
    asked, closed, answer, before, settled, registered,
    \* history: read by the properties only
    doubtful,  \* attempts given up that the server may yet register
    forgotten  \* key pairs the user has let go

windowVars == <<busy, stuck, events, polling, config, canSave>>
keyVars    == <<made, pubkey, keyFile>>
postVars   == <<tried, keyOf, workers, sent>>
clientVars == <<program, stage, windowVars, keyVars, postVars, configFile,
                doubtful, forgotten>>
serverVars == <<asked, closed, answer, before, settled, registered>>
vars == <<clientVars, serverVars>>

TheUser == "user"

Tinc == INSTANCE Registration WITH
    Requests <- Attempts, Users <- {TheUser}, NoRequest <- NoAttempt,
    UserOf <- [r \in Attempts |-> TheUser], InOrder <- TRUE

WG == INSTANCE Registration WITH
    Requests <- Attempts, Users <- {TheUser}, NoRequest <- NoAttempt,
    UserOf <- [r \in Attempts |-> TheUser], InOrder <- FALSE

Results == Attempts \cup {NoAttempt, ErrorText}

(* One worker at most, and one event. *)
TypeOK ==
    /\ program \in Programs
    /\ stage \in {"window", "off", "keys", "password", "authenticate", "output"}
    /\ busy \in BOOLEAN /\ stuck \in BOOLEAN
    /\ tried \in 0..MaxAttempts
    /\ made \in 0..MaxKeys
    /\ keyOf \in [Attempts -> Keys \cup {NoKey}]
    /\ workers \subseteq 1..tried /\ Cardinality(workers) <= 1
    /\ sent \subseteq 1..tried
    /\ Len(events) <= 1
    /\ \A i \in DOMAIN events : events[i] \in [ok : BOOLEAN, of : Attempts]
    /\ polling \in BOOLEAN
    /\ config \in Results
    /\ canSave \in BOOLEAN
    /\ pubkey \in Keys \cup {NoKey}
    /\ keyFile \in Keys \cup {NoKey}
    /\ configFile \in Results \cup {Torn}
    /\ doubtful \subseteq sent
    /\ forgotten \subseteq Keys

Init ==
    /\ program \in Programs
    /\ stage = IF program = "cli" THEN "off" ELSE "window"
    /\ busy = FALSE /\ stuck = FALSE
    /\ tried = 0 /\ made = 0
    /\ keyOf = [r \in Attempts |-> NoKey]
    /\ workers = {} /\ sent = {}
    /\ events = <<>>
    /\ polling = TRUE
    /\ config = NoAttempt /\ canSave = FALSE
    /\ pubkey = NoKey
    /\ keyFile = NoKey /\ configFile = NoAttempt
    /\ Tinc!Init
    /\ doubtful = {} /\ forgotten = {}

-----------------------------------------------------------------------------
(* Private keys: who has them, and who lets them go *)

InFlight == workers \cup {events[i].of : i \in DOMAIN events}

(***************************************************************************)
(* The pairs whose private half is in a window, a process or a file.  The  *)
(* WireGuard window writes it into the configuration.                      *)
(***************************************************************************)
HeldKeys ==
    (IF program = "wg_gui"
     THEN {keyOf[r] : r \in ({config, configFile} \cap Attempts) \cup InFlight}
     ELSE {pubkey, keyFile, OwnKey}) \ {NoKey}

(* The user does something after which some are nowhere (a last conjunct). *)
LetGo == forgotten' = forgotten \cup (HeldKeys \ HeldKeys')

(* The program gives attempts up, and the server may not have. *)
Doubt(attempts) ==
    doubtful' = doubtful \cup {r \in attempts \cap sent : answer[r] # "rejected"}

-----------------------------------------------------------------------------
(* authenticate *)

(* A thread for the next attempt; or Thread.start fails. *)
StartWorker(key) ==
    /\ tried < MaxAttempts
    /\ tried' = tried + 1
    /\ keyOf' = [keyOf EXCEPT ![tried + 1] = key]
    /\ \/ workers' = workers \cup {tried + 1} /\ UNCHANGED stuck
       \/ UNCHANGED workers /\ stuck' = TRUE
    /\ UNCHANGED sent

(* The request is posted; the WireGuard client makes its key pair now. *)
Post(r) ==
    /\ r \in workers \ sent
    /\ sent' = sent \cup {r}
    /\ IF program = "wg_gui"
       THEN /\ made < MaxKeys
            /\ made' = made + 1
            /\ keyOf' = [keyOf EXCEPT ![r] = made + 1]
       ELSE UNCHANGED <<made, keyOf>>
    /\ UNCHANGED <<program, stage, windowVars, pubkey, keyFile, tried, workers,
                   configFile, doubtful, forgotten, serverVars>>

Put(ok, r) == events' = Append(events, [ok |-> ok, of |-> r])

(* The answer is a configuration that parses. *)
WorkerSucceeds(r) ==
    /\ stage = "window"
    /\ r \in workers
    /\ answer[r] = "config"
    /\ workers' = workers \ {r}
    /\ Put(TRUE, r)
    /\ UNCHANGED <<program, stage, busy, stuck, polling, config, canSave, keyVars,
                   tried, keyOf, sent, configFile, doubtful, forgotten, serverVars>>

(***************************************************************************)
(* The parameters do not validate, the server cannot be reached or does    *)
(* not answer in time, its answer is lost, cut or no configuration.        *)
(***************************************************************************)
WorkerFails(r) ==
    /\ stage = "window"
    /\ r \in workers
    /\ workers' = workers \ {r}
    /\ Put(FALSE, r)
    /\ Doubt({r})
    /\ UNCHANGED <<program, stage, busy, stuck, polling, config, canSave, keyVars,
                   tried, keyOf, sent, configFile, forgotten, serverVars>>

(* An exception the worker of the WireGuard window does not expect. *)
WorkerDies(r) ==
    /\ program = "wg_gui"
    /\ r \in workers
    /\ workers' = workers \ {r}
    /\ stuck' = TRUE
    /\ Doubt({r})
    /\ UNCHANGED <<program, stage, busy, events, polling, config, canSave, keyVars,
                   tried, keyOf, sent, configFile, forgotten, serverVars>>

-----------------------------------------------------------------------------
(* The WireGuard window *)

(* The user can reach the window: no modal dialog is open. *)
WgReachable == program = "wg_gui" /\ polling

(* Mutant of WgConnect: the Save button stays as it is. *)
WgConnectKeepsSave ==
    /\ WgReachable
    /\ ~ busy
    /\ busy' = TRUE
    /\ StartWorker(NoKey)
    /\ UNCHANGED <<program, stage, events, polling, config, canSave, keyVars,
                   configFile, doubtful, forgotten, serverVars>>

(* Mutant of WgConnect: the Connect button is not disabled. *)
WgConnectAgain ==
    /\ WgReachable
    /\ ~ busy
    /\ canSave' = FALSE
    /\ StartWorker(NoKey)
    /\ UNCHANGED <<program, stage, busy, events, polling, config, keyVars,
                   configFile, doubtful, forgotten, serverVars>>

(* _start_connect *)
WgConnect ==
    /\ WgReachable
    /\ ~ busy
    /\ busy' = TRUE
    /\ canSave' = FALSE
    /\ StartWorker(NoKey)
    /\ UNCHANGED <<program, stage, events, polling, config, keyVars, configFile,
                   doubtful, forgotten, serverVars>>

(* _drain_events; after an error the timer waits for the dialog. *)
WgPoll ==
    /\ program = "wg_gui"
    /\ polling
    /\ events # <<>>
    /\ events' = Tail(events)
    /\ busy' = FALSE
    /\ IF Head(events).ok
       THEN config' = Head(events).of /\ canSave' = TRUE /\ UNCHANGED polling
       ELSE polling' = FALSE /\ UNCHANGED <<config, canSave>>
    /\ UNCHANGED <<program, stage, stuck, keyVars, postVars, configFile, doubtful,
                   forgotten, serverVars>>

(* The error dialog is dismissed, and the timer armed again. *)
WgDismiss ==
    /\ program = "wg_gui"
    /\ ~ polling
    /\ polling' = TRUE
    /\ UNCHANGED <<program, stage, busy, stuck, events, config, canSave, keyVars,
                   postVars, configFile, doubtful, forgotten, serverVars>>

(* _save_config.  When atomic_write fails, the file is what it was. *)
WgSave ==
    /\ WgReachable
    /\ canSave
    /\ config # NoAttempt
    /\ configFile' = config
    /\ UNCHANGED <<program, stage, windowVars, keyVars, postVars, doubtful,
                   serverVars>>
    /\ LetGo

-----------------------------------------------------------------------------
(* The tinc window *)

(* _generate_keypair, whose button is never disabled. *)
TincGenerate ==
    /\ program = "tinc_gui"
    /\ made < MaxKeys
    /\ made' = made + 1
    /\ pubkey' = made + 1
    /\ UNCHANGED <<program, stage, windowVars, keyFile, postVars, configFile,
                   doubtful, serverVars>>
    /\ LetGo

(* _save_keys, likewise *)
TincSaveKeys ==
    /\ program = "tinc_gui"
    /\ pubkey # NoKey
    /\ keyFile' = pubkey
    /\ UNCHANGED <<program, stage, windowVars, made, pubkey, postVars, configFile,
                   doubtful, serverVars>>
    /\ LetGo

(* The rest of _authenticate, once there is a key in the field. *)
TincStart ==
    \/ \* the parameters are not complete
       UNCHANGED <<busy, stuck, config, canSave, postVars>>
    \/ /\ busy' = TRUE
       /\ config' = NoAttempt
       /\ canSave' = FALSE
       /\ StartWorker(pubkey')

(* Mutant of TincAuthenticate: each attempt has a key pair of its own. *)
TincAuthenticateAfresh ==
    /\ program = "tinc_gui"
    /\ ~ busy
    /\ made < MaxKeys
    /\ made' = made + 1
    /\ pubkey' = made + 1
    /\ TincStart
    /\ UNCHANGED <<program, stage, events, polling, keyFile, configFile, doubtful,
                   forgotten, serverVars>>

(* _authenticate generates a key pair only if there is none. *)
TincAuthenticate ==
    /\ program = "tinc_gui"
    /\ ~ busy
    /\ IF pubkey = NoKey
       THEN made < MaxKeys /\ made' = made + 1 /\ pubkey' = made + 1
       ELSE UNCHANGED <<made, pubkey>>
    /\ TincStart
    /\ UNCHANGED <<program, stage, events, polling, keyFile, configFile, doubtful,
                   forgotten, serverVars>>

(* Mutant of TincPoll: the timer is not armed again after an event. *)
TincPollOnce ==
    /\ program = "tinc_gui"
    /\ polling
    /\ events # <<>>
    /\ events' = Tail(events)
    /\ busy' = FALSE
    /\ config' = IF Head(events).ok THEN Head(events).of ELSE ErrorText
    /\ canSave' = TRUE
    /\ polling' = FALSE
    /\ UNCHANGED <<program, stage, stuck, keyVars, postVars, configFile,
                   doubtful, forgotten, serverVars>>

(* _poll_queue *)
TincPoll ==
    /\ program = "tinc_gui"
    /\ polling
    /\ events # <<>>
    /\ events' = Tail(events)
    /\ busy' = FALSE
    /\ config' = IF Head(events).ok THEN Head(events).of ELSE ErrorText
    /\ canSave' = TRUE
    /\ UNCHANGED <<program, stage, stuck, polling, keyVars, postVars, configFile,
                   doubtful, forgotten, serverVars>>

(* _save_result saves what is shown, be it an error. *)
TincSaveResult ==
    /\ program = "tinc_gui"
    /\ canSave
    /\ configFile' = config
    /\ UNCHANGED <<program, stage, windowVars, keyVars, postVars, doubtful,
                   forgotten, serverVars>>

(* The user closes the window: its threads end, and it is opened anew. *)
CloseWindow ==
    /\ stage = "window"
    /\ Doubt(InFlight)
    /\ busy' = FALSE /\ stuck' = FALSE
    /\ workers' = {}
    /\ events' = <<>>
    /\ polling' = TRUE
    /\ config' = NoAttempt /\ canSave' = FALSE
    /\ pubkey' = NoKey
    /\ UNCHANGED <<program, stage, made, keyFile, tried, keyOf, sent, configFile,
                   serverVars>>
    /\ LetGo

-----------------------------------------------------------------------------
(* The command line, a new process for each attempt *)

GoTo(next) == stage' = next

(* main returns, or the process is killed. *)
Exit ==
    /\ GoTo("off")
    /\ busy' = FALSE
    /\ workers' = {}
    /\ pubkey' = NoKey

(***************************************************************************)
(* read_public_key: the key is given, or generated.  A pair generated      *)
(* without --save-keypair is never seen by the user.                       *)
(***************************************************************************)
CliStart ==
    /\ stage = "off"
    /\ tried < MaxAttempts
    /\ tried' = tried + 1
    /\ busy' = TRUE
    /\ config' = NoAttempt /\ canSave' = FALSE
    /\ \/ /\ pubkey' = OwnKey
          /\ GoTo("password")
          /\ UNCHANGED <<made, forgotten>>
       \/ /\ made < MaxKeys
          /\ made' = made + 1
          /\ pubkey' = made + 1
          /\ \/ GoTo("keys") /\ UNCHANGED forgotten
             \/ GoTo("password") /\ forgotten' = forgotten \cup {made + 1}
    /\ keyOf' = [keyOf EXCEPT ![tried + 1] = pubkey']
    /\ UNCHANGED <<program, stuck, events, polling, keyFile, workers, sent,
                   configFile, doubtful, serverVars>>

(* Mutant of CliSaveKeys: the pair is saved when the server has answered. *)
CliSaveKeysLater ==
    /\ stage = "keys"
    /\ GoTo("password")
    /\ UNCHANGED <<program, busy, stuck, events, polling, config, canSave, keyVars,
                   postVars, configFile, doubtful, forgotten, serverVars>>

(***************************************************************************)
(* --save-keypair: the pair replaces the one in the file, which the user   *)
(* has named, or the command fails.                                        *)
(***************************************************************************)
CliSaveKeys ==
    /\ stage = "keys"
    /\ UNCHANGED <<program, stuck, events, polling, config, canSave, made, tried,
                   keyOf, sent, configFile, doubtful, serverVars>>
    /\ \/ /\ GoTo("password")
          /\ keyFile' = pubkey
          /\ UNCHANGED <<busy, workers, pubkey>>
          /\ LetGo
       \/ Exit /\ UNCHANGED <<keyFile, forgotten>>

(* The password is given, or typed, and authenticate called. *)
CliPassword ==
    /\ stage = "password"
    /\ GoTo("authenticate")
    /\ workers' = {tried}
    /\ UNCHANGED <<program, windowVars, keyVars, tried, keyOf, sent, configFile,
                   doubtful, forgotten, serverVars>>

(* The answer is a configuration that parses. *)
CliSucceeds ==
    /\ stage = "authenticate"
    /\ answer[tried] = "config"
    /\ GoTo("output")
    /\ workers' = {}
    /\ UNCHANGED <<program, windowVars, keyVars, tried, keyOf, sent, configFile,
                   doubtful, forgotten, serverVars>>

(* As WorkerFails: a message, and the command ends. *)
CliFails ==
    /\ stage = "authenticate"
    /\ Exit
    /\ Doubt({tried})
    /\ UNCHANGED <<program, stuck, events, polling, config, canSave, made, keyFile, tried,
                   keyOf, sent, configFile, forgotten, serverVars>>

(* The configuration is printed, or written to --output in place. *)
CliOutput ==
    /\ stage = "output"
    /\ Exit
    /\ \/ /\ config' = tried /\ canSave' = TRUE
          /\ configFile' \in {configFile, tried}
          /\ UNCHANGED doubtful
       \/ /\ configFile' \in {configFile, Torn}
          /\ Doubt({tried})
          /\ UNCHANGED <<config, canSave>>
    /\ UNCHANGED <<program, stuck, events, polling, made, keyFile, tried, keyOf, sent,
                   forgotten, serverVars>>

(* The command is interrupted. *)
CliKilled ==
    /\ stage \notin {"window", "off"}
    /\ Exit
    /\ Doubt({tried})
    /\ configFile' \in IF stage = "output" THEN {configFile, Torn} ELSE {configFile}
    /\ UNCHANGED <<program, stuck, events, polling, config, canSave, made, keyFile, tried,
                   keyOf, sent, forgotten, serverVars>>

-----------------------------------------------------------------------------
(* The server may take a request, or go on with it, when the client is gone. *)
Serve ==
    /\ \/ \E r \in sent : Tinc!Ask(r)
       \/ \E r \in Attempts :
             IF program = "wg_gui" THEN WG!Register(r) ELSE Tinc!Register(r)
       \/ \E r \in Attempts, a \in Tinc!Answers : Tinc!Close(r, a)
       \/ settled[TheUser] # NoAttempt /\ Tinc!Lose(TheUser)
    /\ UNCHANGED clientVars

WorkerEnds(r) == WorkerSucceeds(r) \/ WorkerFails(r) \/ WorkerDies(r)

WgWindow   == WgConnect \/ WgPoll \/ WgDismiss \/ WgSave
TincWindow ==
    \/ TincGenerate \/ TincSaveKeys \/ TincAuthenticate \/ TincPoll
    \/ TincSaveResult
CliRuns    == CliSaveKeys \/ CliPassword \/ CliSucceeds \/ CliFails \/ CliOutput

Next ==
    \/ \E r \in Attempts : Post(r) \/ WorkerEnds(r)
    \/ WgWindow \/ TincWindow \/ CloseWindow
    \/ CliStart \/ CliRuns \/ CliKilled
    \/ Serve

Spec == Init /\ [][Next]_vars

(***************************************************************************)
(* A worker comes to its end, because the sockets of a client have a       *)
(* timeout; Tk calls a timer that is armed; and a command runs on once it  *)
(* has the password.  The user has to do nothing, and the server neither.  *)
(***************************************************************************)
FairSpec ==
    /\ Spec
    /\ \A r \in Attempts : WF_vars(WorkerEnds(r))
    /\ WF_vars(WgPoll \/ TincPoll)
    /\ WF_vars(CliSucceeds \/ CliFails \/ CliOutput)

-----------------------------------------------------------------------------
(* Properties *)

(* The configuration the program shows, prints or lets the user save. *)
Offered == IF canSave THEN config ELSE NoAttempt

(***************************************************************************)
(* A configuration that the program offers, or that was saved, is the one  *)
(* the server has in force.  Exceptions: an attempt that the program had   *)
(* to give up was registered later; for the file, an attempt made after    *)
(* it; or the server has lost the key.                                     *)
(***************************************************************************)
ConfigInForce ==
    /\ Offered \in Attempts =>
          settled[TheUser] \in {Offered, NoAttempt} \cup doubtful
    /\ configFile \in Attempts =>
          settled[TheUser] \in {configFile, NoAttempt} \cup doubtful
                                   \cup {r \in Attempts : r > configFile}

(***************************************************************************)
(* Whatever is lost, late or interrupted, the private half of the key in   *)
(* force is in a window, a process or a file, unless the user let it go.   *)
(* Only the WireGuard window, which makes a pair for each attempt, loses   *)
(* that of an attempt it gives up.                                         *)
(***************************************************************************)
PrivateHalfHeld ==
    settled[TheUser] # NoAttempt =>
        \/ keyOf[settled[TheUser]] \in HeldKeys \cup forgotten
        \/ program = "wg_gui" /\ settled[TheUser] \in doubtful

(***************************************************************************)
(* The user can try again after every attempt: the button comes back, or   *)
(* the command ends.  It does not when Thread.start fails, or the worker   *)
(* of the WireGuard window ends by an exception it does not expect: then   *)
(* the window has to be closed.                                            *)
(***************************************************************************)
AttemptEnds == \A r \in Attempts : r \in workers ~> ~ busy \/ stuck
=============================================================================
