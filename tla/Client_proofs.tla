---------------------------- MODULE Client_proofs ----------------------------
(***************************************************************************)
(* Proofs about Client, for any set of programs and any number of attempts *)
(* and key pairs.                                                          *)
(***************************************************************************)
EXTENDS Client, FiniteSetTheorems, TLAPS

-----------------------------------------------------------------------------
(* The inductive invariant *)

(* TypeOK, but for the number of workers and events. *)
Types ==
    /\ program \in Programs
    /\ stage \in {"window", "off", "keys", "password", "authenticate", "output"}
    /\ busy \in BOOLEAN /\ stuck \in BOOLEAN
    /\ tried \in 0..MaxAttempts
    /\ made \in 0..MaxKeys
    /\ keyOf \in [Attempts -> Keys \cup {NoKey}]
    /\ workers \subseteq Attempts
    /\ sent \subseteq 1..tried
    /\ polling \in BOOLEAN
    /\ config \in Results
    /\ canSave \in BOOLEAN
    /\ pubkey \in Keys \cup {NoKey}
    /\ keyFile \in Keys \cup {NoKey}
    /\ configFile \in Results \cup {Torn}
    /\ doubtful \subseteq sent
    /\ forgotten \subseteq Keys

Event(ok) == [ok |-> ok, of |-> tried]

(***************************************************************************)
(* Only the last attempt is under way, with its worker or an event, and    *)
(* then the button is disabled and there is nothing to save.               *)
(***************************************************************************)
Flow ==
    /\ program = "cli" <=> stage # "window"
    /\ workers \subseteq {tried}
    /\ events \in {<<>>, <<Event(TRUE)>>, <<Event(FALSE)>>}
    /\ events # <<>> => workers = {} /\ stage = "window" /\ tried \in Attempts
    /\ workers # {} \/ events # <<>> => busy /\ ~ canSave
    /\ stage = "authenticate" => workers = {tried}
    /\ stage \in {"off", "keys", "password", "output"} => workers = {}
    /\ stage \notin {"window", "off"} => tried \in Attempts /\ ~ canSave /\ busy

Shape == Types /\ Flow

LEMMA Facts ==
  /\ MaxAttempts \in Nat \ {0} /\ MaxKeys \in Nat
  /\ \A r \in Attempts : r \in Nat /\ r # NoAttempt /\ r # ErrorText /\ r # Torn
  /\ OwnKey \in Keys /\ NoKey \notin Keys
  /\ \A n \in 0..MaxKeys : n < MaxKeys => n + 1 \in Keys /\ n + 1 \in 0..MaxKeys
  /\ 0 \in 0..MaxAttempts /\ 0 \in 0..MaxKeys /\ 1..0 = {}
  /\ \A n \in 0..MaxAttempts : 
        /\ 1..n \subseteq Attempts /\ 1..n \subseteq 1..(n + 1)
        /\ n \in Attempts => n \in 1..n
        /\ n < MaxAttempts => n + 1 \in Attempts /\ n + 1 \in 0..MaxAttempts
BY ConstantsOK DEF ConstantsOK, Attempts, NoAttempt, ErrorText, Torn, OwnKey,
   Keys, NoKey

(* The marks that stand for no attempt. *)
LEMMA Marks ==
  /\ NoAttempt # ErrorText /\ NoAttempt # Torn /\ ErrorText # Torn
  /\ NoAttempt \notin Attempts /\ ErrorText \notin Attempts /\ Torn \notin Attempts
BY ConstantsOK DEF ConstantsOK, Attempts, NoAttempt, ErrorText, Torn

(* Queues of one event. *)
LEMMA OneEvent ==
  ASSUME NEW e
  PROVE  /\ Append(<<>>, e) = <<e>>
         /\ <<e>> # <<>>
         /\ Head(<<e>>) = e
         /\ Tail(<<e>>) = <<>>
         /\ DOMAIN <<e>> = {1}
         /\ <<e>>[1] = e
         /\ Len(<<e>>) = 1
OBVIOUS

LEMMA ShapeTypes == Shape => TypeOK
<1> SUFFICES ASSUME Shape PROVE TypeOK
  OBVIOUS
<1>1. workers \subseteq 1..tried /\ Cardinality(workers) <= 1
  <2>1. workers = {} \/ workers = {tried}
    BY DEF Shape, Flow
  <2>2. Cardinality({}) = 0 /\ Cardinality({tried}) = 1
    BY FS_EmptySet, FS_Singleton
  <2>3. workers \subseteq 1..tried
    BY Facts DEF Shape, Types, Flow, Attempts
  <2>4. Cardinality(workers) \in {0, 1}
    <3>1. CASE workers = {}
      BY <2>2, <3>1
    <3>2. CASE workers = {tried}
      BY <2>2, <3>2
    <3>3. QED
      BY <2>1, <3>1, <3>2
  <2>5. QED
    BY <2>3, <2>4
<1>2. Len(events) <= 1 /\ \A i \in DOMAIN events : events[i] \in [ok : BOOLEAN, of : Attempts]
  <2>1. CASE events = <<>>
    BY <2>1
  <2>2. ASSUME NEW ok \in BOOLEAN, events = <<Event(ok)>>
        PROVE  /\ Len(events) <= 1
               /\ \A i \in DOMAIN events : events[i] \in [ok : BOOLEAN, of : Attempts]
    <3>1. tried \in Attempts
      BY <2>2, OneEvent DEF Shape, Flow
    <3>2. Event(ok) \in [ok : BOOLEAN, of : Attempts]
      BY <3>1 DEF Event
    <3>3. QED
      BY <2>2, <3>2, OneEvent
  <2>3. QED
    BY <2>1, <2>2 DEF Shape, Flow
<1>3. QED
  BY <1>1, <1>2 DEF Shape, Types, TypeOK

LEMMA InitShape == Init => Shape
<1> SUFFICES ASSUME Init PROVE Shape
  OBVIOUS
<1>1. Types
  BY Facts DEF Init, Types, Results, Tinc!Init, NoAttempt
<1>2. Flow
  BY DEF Init, Flow
<1>3. QED
  BY <1>1, <1>2 DEF Shape

(* An event, field by field. *)
LEMMA Events ==
  /\ \A ok : Event(ok).of = tried /\ Event(ok).ok = ok /\ Event(ok) = [ok |-> ok, of |-> tried]
  /\ UNCHANGED tried => Event(TRUE)' = Event(TRUE) /\ Event(FALSE)' = Event(FALSE)
BY DEF Event

(* What the queue holds. *)
LEMMA HeadEvent ==
  ASSUME Flow, events # <<>>
  PROVE  /\ Head(events).of = tried /\ Head(events).ok \in BOOLEAN
         /\ events = <<Head(events)>>
         /\ Tail(events) = <<>>
         /\ tried \in Attempts
<1>1. CASE events = <<Event(TRUE)>>
  <2>1. Event(TRUE).of = tried /\ Event(TRUE).ok = TRUE
    BY DEF Event
  <2>2. tried \in Attempts
    BY DEF Flow
  <2>3. QED
    BY <1>1, <2>1, <2>2, OneEvent
<1>2. CASE events = <<Event(FALSE)>>
  <2>1. Event(FALSE).of = tried /\ Event(FALSE).ok = FALSE
    BY DEF Event
  <2>2. tried \in Attempts
    BY DEF Flow
  <2>3. QED
    BY <1>2, <2>1, <2>2, OneEvent
<1>3. QED
  BY <1>1, <1>2 DEF Flow

LEMMA InFlightIs ==
  ASSUME Shape
  PROVE  InFlight = IF events = <<>> THEN workers ELSE {tried}
<1>1. CASE events = <<>>
  BY <1>1 DEF InFlight
<1>2. CASE events # <<>>
  <2>1. Flow /\ workers = {}
    BY <1>2 DEF Shape, Flow
  <2>2. PICK e : events = <<e>> /\ e.of = tried
    BY <1>2, <2>1, HeadEvent
  <2>3. DOMAIN events = {1} /\ events[1] = e
    BY <2>2, OneEvent
  <2>4. InFlight = {tried}
    BY <2>1, <2>2, <2>3 DEF InFlight
  <2>5. QED
    BY <1>2, <2>4
<1>3. QED
  BY <1>1, <1>2

LEMMA HeldKeysType == Shape => HeldKeys \subseteq Keys
<1> SUFFICES ASSUME Shape PROVE HeldKeys \subseteq Keys
  OBVIOUS
<1>1. InFlight \subseteq Attempts
  BY InFlightIs, HeadEvent DEF Shape, Types
<1>2. QED
  BY <1>1, Facts DEF HeldKeys, Shape, Types

LEMMA StartWorkerTypes ==
  ASSUME Shape, NEW key \in Keys \cup {NoKey}, StartWorker(key)
  PROVE  /\ stuck' \in BOOLEAN
         /\ tried' = tried + 1 /\ tried' \in 0..MaxAttempts
         /\ keyOf' \in [Attempts -> Keys \cup {NoKey}]
         /\ workers' \subseteq Attempts
         /\ sent' = sent /\ sent \subseteq 1..tried'
         /\ tried' \in Attempts
<1> USE Facts DEF StartWorker, Shape, Types
<1>1. tried' = tried + 1 /\ tried' \in Attempts /\ tried' \in 0..MaxAttempts
  OBVIOUS
<1>2. sent' = sent /\ sent \subseteq 1..tried'
  OBVIOUS
<1>3. keyOf' \in [Attempts -> Keys \cup {NoKey}]
  OBVIOUS
<1>4. stuck' \in BOOLEAN /\ workers' \subseteq Attempts
  BY <1>1
<1>5. QED
  BY <1>1, <1>2, <1>3, <1>4

LEMMA TypesStep ==
  ASSUME Shape, [Next]_vars
  PROVE  Types'
<1> USE DEF Shape, Types, Event, Results, windowVars, keyVars, postVars
<1>1. ASSUME NEW r \in Attempts, Post(r) \/ WorkerEnds(r) PROVE Types'
  <2>1. CASE Post(r)
    <3>1. sent' \subseteq 1..tried'
      BY <2>1, Facts DEF Post, Flow
    <3>2. made' \in 0..MaxKeys /\ keyOf' \in [Attempts -> Keys \cup {NoKey}]
      BY <2>1, Facts DEF Post
    <3>3. QED
      BY <2>1, <3>1, <3>2 DEF Post
  <2>2. CASE WorkerSucceeds(r)
    BY <2>2 DEF WorkerSucceeds, Put
  <2>3. CASE WorkerFails(r)
    BY <2>3 DEF WorkerFails, Put, Doubt
  <2>4. CASE WorkerDies(r)
    <3>1. doubtful' \subseteq sent' /\ workers' \subseteq Attempts
      BY <2>4 DEF WorkerDies, Doubt
    <3>2. QED
      BY <2>4, <3>1 DEF WorkerDies
  <2>5. QED
    BY <1>1, <2>1, <2>2, <2>3, <2>4 DEF WorkerEnds
<1>2. CASE WgWindow
  <2>1. CASE WgConnect
    <3>1. UNCHANGED <<program, stage, polling, config, keyVars, configFile, doubtful,
                     forgotten>>
      BY <2>1 DEF WgConnect
    <3>2. busy' = TRUE /\ canSave' = FALSE /\ StartWorker(NoKey)
      BY <2>1 DEF WgConnect
    <3>3. QED
      <4>1. config' \in Results /\ pubkey' \in Keys \cup {NoKey} /\ made' \in 0..MaxKeys
        BY <3>1
      <4>2. QED
        BY <3>1, <3>2, <4>1, StartWorkerTypes
  <2>2. CASE WgPoll
    <3>1. config' \in Results /\ canSave' \in BOOLEAN /\ polling' \in BOOLEAN
      BY <2>2, HeadEvent DEF WgPoll
    <3>2. QED
      BY <2>2, <3>1 DEF WgPoll
  <2>3. CASE WgDismiss
    BY <2>3 DEF WgDismiss
  <2>4. CASE WgSave
    <3>1. forgotten' \subseteq Keys
      BY <2>4, HeldKeysType DEF WgSave, LetGo
    <3>2. QED
      BY <2>4, <3>1 DEF WgSave
  <2>5. QED
    BY <1>2, <2>1, <2>2, <2>3, <2>4 DEF WgWindow
<1>3. CASE TincWindow
  <2>1. CASE TincGenerate
    <3>1. forgotten' \subseteq Keys
      BY <2>1, HeldKeysType DEF TincGenerate, LetGo
    <3>2. made' \in 0..MaxKeys /\ pubkey' \in Keys
      BY <2>1, Facts DEF TincGenerate
    <3>3. QED
      BY <2>1, <3>1, <3>2 DEF TincGenerate
  <2>2. CASE TincSaveKeys
    <3>1. forgotten' \subseteq Keys
      BY <2>2, HeldKeysType DEF TincSaveKeys, LetGo
    <3>2. QED
      BY <2>2, <3>1 DEF TincSaveKeys
  <2>3. CASE TincAuthenticate
    <3>1. made' \in 0..MaxKeys /\ pubkey' \in Keys \cup {NoKey}
      BY <2>3, Facts DEF TincAuthenticate
    <3>2. CASE UNCHANGED <<busy, stuck, config, canSave, postVars>>
      BY <2>3, <3>1, <3>2 DEF TincAuthenticate
    <3>3. CASE StartWorker(pubkey') /\ busy' = TRUE /\ config' = NoAttempt /\ canSave' = FALSE
      BY <2>3, <3>1, <3>3, StartWorkerTypes DEF TincAuthenticate
    <3>4. QED
      BY <2>3, <3>2, <3>3 DEF TincAuthenticate, TincStart
  <2>4. CASE TincPoll
    <3>1. config' \in Results
      BY <2>4, HeadEvent DEF TincPoll
    <3>2. QED
      BY <2>4, <3>1 DEF TincPoll
  <2>5. CASE TincSaveResult
    BY <2>5 DEF TincSaveResult
  <2>6. QED
    BY <1>3, <2>1, <2>2, <2>3, <2>4, <2>5 DEF TincWindow
<1>4. CASE CloseWindow
  <2>1. forgotten' \subseteq Keys
    BY <1>4, HeldKeysType DEF CloseWindow, LetGo
  <2>2. doubtful' \subseteq sent'
    BY <1>4 DEF CloseWindow, Doubt
  <2>3. QED
    BY <1>4, <2>1, <2>2 DEF CloseWindow
<1>5. CASE CliStart
  <2>1. /\ tried' = tried + 1 /\ tried' \in Attempts /\ tried' \in 0..MaxAttempts
        /\ sent' = sent /\ sent \subseteq 1..tried'
    BY <1>5, Facts DEF CliStart
  <2>2. /\ made' \in 0..MaxKeys /\ pubkey' \in Keys
        /\ forgotten' \subseteq Keys
        /\ stage' \in {"keys", "password"}
    BY <1>5, Facts DEF CliStart, GoTo
  <2>3. keyOf' \in [Attempts -> Keys \cup {NoKey}]
    BY <1>5, <2>1, <2>2 DEF CliStart
  <2>4. QED
    BY <1>5, <2>1, <2>2, <2>3 DEF CliStart
<1>6. CASE CliRuns
  <2>1. CASE CliSaveKeys
    <3>1. forgotten' \subseteq Keys
      BY <2>1, HeldKeysType DEF CliSaveKeys, LetGo
    <3>2. /\ stage' \in {"password", "off"} /\ busy' \in BOOLEAN /\ workers' \subseteq Attempts
          /\ pubkey' \in Keys \cup {NoKey} /\ keyFile' \in Keys \cup {NoKey}
      BY <2>1 DEF CliSaveKeys, GoTo, Exit
    <3>3. QED
      BY <2>1, <3>1, <3>2 DEF CliSaveKeys
  <2>2. CASE CliPassword
    BY <2>2 DEF CliPassword, GoTo, Flow
  <2>3. CASE CliSucceeds
    BY <2>3 DEF CliSucceeds, GoTo
  <2>4. CASE CliFails
    BY <2>4 DEF CliFails, Exit, GoTo, Doubt
  <2>5. CASE CliOutput
    <3>1. config' \in Results /\ configFile' \in Results \cup {Torn} /\ canSave' \in BOOLEAN
      BY <2>5 DEF CliOutput, Flow
    <3>2. doubtful' \subseteq sent'
      BY <2>5 DEF CliOutput, Doubt
    <3>3. QED
      BY <2>5, <3>1, <3>2 DEF CliOutput, Exit, GoTo
  <2>6. QED
    BY <1>6, <2>1, <2>2, <2>3, <2>4, <2>5 DEF CliRuns
<1>7. CASE CliKilled
  <2>1. doubtful' \subseteq sent' /\ configFile' \in Results \cup {Torn}
    BY <1>7 DEF CliKilled, Doubt
  <2>2. QED
    BY <1>7, <2>1 DEF CliKilled, Exit, GoTo
<1>8. CASE Serve \/ UNCHANGED vars
  <2>1. UNCHANGED clientVars
    BY <1>8 DEF Serve, vars
  <2>2. QED
    BY <2>1 DEF clientVars
<1>9. QED
  BY <1>1, <1>2, <1>3, <1>4, <1>5, <1>6, <1>7, <1>8 DEF Next

LEMMA FlowStep ==
  ASSUME Shape, Types', [Next]_vars
  PROVE  Flow'
<1> USE Facts, Events DEF Shape, Flow, windowVars, keyVars, postVars
<1>1. ASSUME NEW r \in Attempts, Post(r) \/ WorkerEnds(r) PROVE Flow'
  <2>1. CASE Post(r)
    BY <2>1, OneEvent DEF Post, Types
  <2>2. CASE WorkerSucceeds(r)
    <3>1. r = tried /\ events = <<>> /\ workers' = {} /\ program # "cli"
      BY <2>2 DEF WorkerSucceeds
    <3>2. events' = <<Event(TRUE)>>
      BY <2>2, <3>1, OneEvent DEF WorkerSucceeds, Put
    <3>3. QED
      BY <2>2, <3>1, <3>2 DEF WorkerSucceeds
  <2>3. CASE WorkerFails(r)
    <3>1. r = tried /\ events = <<>> /\ workers' = {} /\ program # "cli"
      BY <2>3 DEF WorkerFails
    <3>2. events' = <<Event(FALSE)>>
      BY <2>3, <3>1, OneEvent DEF WorkerFails, Put
    <3>3. QED
      BY <2>3, <3>1, <3>2 DEF WorkerFails
  <2>4. CASE WorkerDies(r)
    BY <2>4, OneEvent DEF WorkerDies, Types
  <2>5. QED
    BY <1>1, <2>1, <2>2, <2>3, <2>4 DEF WorkerEnds
<1>2. CASE WgWindow
  <2>1. CASE WgConnect
    BY <2>1 DEF WgConnect, WgReachable, StartWorker
  <2>2. CASE WgPoll
    BY <2>2, HeadEvent DEF WgPoll
  <2>3. CASE WgDismiss
    BY <2>3 DEF WgDismiss
  <2>4. CASE WgSave
    BY <2>4 DEF WgSave, WgReachable, LetGo
  <2>5. QED
    BY <1>2, <2>1, <2>2, <2>3, <2>4 DEF WgWindow
<1>3. CASE TincWindow
  <2>1. CASE TincGenerate
    BY <2>1 DEF TincGenerate, LetGo
  <2>2. CASE TincSaveKeys
    BY <2>2 DEF TincSaveKeys, LetGo
  <2>3. CASE TincAuthenticate
    BY <2>3 DEF TincAuthenticate, TincStart, StartWorker
  <2>4. CASE TincPoll
    BY <2>4, HeadEvent DEF TincPoll
  <2>5. CASE TincSaveResult
    BY <2>5 DEF TincSaveResult
  <2>6. QED
    BY <1>3, <2>1, <2>2, <2>3, <2>4, <2>5 DEF TincWindow
<1>4. CASE CloseWindow
  BY <1>4 DEF CloseWindow, Doubt, LetGo
<1>5. CASE CliStart
  <2>1. /\ tried' \in Attempts /\ workers = {} /\ events = <<>> /\ program = "cli"
        /\ stage' \in {"keys", "password"}
    BY <1>5, OneEvent DEF CliStart, GoTo, Types
  <2>2. QED
    BY <1>5, <2>1 DEF CliStart
<1>6. CASE CliRuns
  <2>1. CASE CliSaveKeys
    BY <2>1 DEF CliSaveKeys, GoTo, Exit, LetGo
  <2>2. CASE CliPassword
    <3>1. events = <<>> /\ tried \in Attempts /\ ~ canSave /\ busy
      BY <2>2, OneEvent DEF CliPassword
    <3>2. QED
      BY <2>2, <3>1 DEF CliPassword, GoTo
  <2>3. CASE CliSucceeds
    BY <2>3 DEF CliSucceeds, GoTo
  <2>4. CASE CliFails
    BY <2>4 DEF CliFails, Exit, GoTo, Doubt
  <2>5. CASE CliOutput
    BY <2>5 DEF CliOutput, Exit, GoTo, Doubt
  <2>6. QED
    BY <1>6, <2>1, <2>2, <2>3, <2>4, <2>5 DEF CliRuns
<1>7. CASE CliKilled
  BY <1>7 DEF CliKilled, Exit, GoTo, Doubt
<1>8. CASE Serve \/ UNCHANGED vars
  <2>1. UNCHANGED clientVars
    BY <1>8 DEF Serve, vars
  <2>2. QED
    BY <2>1 DEF clientVars
<1>9. QED
  BY <1>1, <1>2, <1>3, <1>4, <1>5, <1>6, <1>7, <1>8 DEF Next

LEMMA ShapeStep == ASSUME Shape, [Next]_vars PROVE Shape'
BY TypesStep, FlowStep DEF Shape

-----------------------------------------------------------------------------
(* The server *)

Server ==
    /\ registered \subseteq asked /\ asked \subseteq sent /\ closed \subseteq asked
    /\ answer \in [Attempts -> {"none", "config", "rejected", "unknown"}]
    /\ settled \in [{TheUser} -> registered \cup {NoAttempt}]
    /\ \A r \in Attempts :
          /\ answer[r] # "none" => r \in closed
          /\ answer[r] = "config" => r \in registered
          /\ answer[r] = "rejected" => r \notin registered

(* The steps of Serve, the same for both kinds of server. *)
Asks(r) ==
    /\ r \in sent
    /\ asked' = asked \cup {r}
    /\ UNCHANGED <<closed, answer, settled, registered>>

Registers(r) ==
    /\ r \in asked /\ r \notin registered
    /\ answer[r] # "rejected"
    /\ settled' = [settled EXCEPT ![TheUser] = r]
    /\ registered' = registered \cup {r}
    /\ UNCHANGED <<asked, closed, answer>>

Closes(r, a) ==
    /\ r \in asked \ closed
    /\ a = "config" => r \in registered
    /\ a = "rejected" => r \notin registered
    /\ closed' = closed \cup {r}
    /\ answer' = [answer EXCEPT ![r] = a]
    /\ UNCHANGED <<asked, settled, registered>>

Loses ==
    /\ settled' = [settled EXCEPT ![TheUser] = NoAttempt]
    /\ UNCHANGED <<asked, closed, answer, registered>>

LEMMA ServeSteps ==
  ASSUME Serve
  PROVE  /\ UNCHANGED clientVars
         /\ \/ \E r \in sent : Asks(r)
            \/ \E r \in Attempts : Registers(r)
            \/ \E r \in Attempts, a \in {"config", "rejected", "unknown"} : Closes(r, a)
            \/ Loses
<1>1. ASSUME NEW r \in sent, Tinc!Ask(r) PROVE Asks(r)
  BY <1>1 DEF Tinc!Ask, Asks
<1>2. ASSUME NEW r \in Attempts, WG!Register(r) \/ Tinc!Register(r) PROVE Registers(r)
  BY <1>2 DEF Tinc!Register, WG!Register, Registers
<1>3. ASSUME NEW r \in Attempts, NEW a \in Tinc!Answers, Tinc!Close(r, a)
      PROVE  a \in {"config", "rejected", "unknown"} /\ Closes(r, a)
  BY <1>3 DEF Tinc!Answers, Tinc!Close, Closes
<1>4. ASSUME Tinc!Lose(TheUser) PROVE Loses
  BY <1>4 DEF Tinc!Lose, Loses
<1>5. UNCHANGED clientVars
  BY DEF Serve
<1>6. QED
  BY <1>1, <1>2, <1>3, <1>4, <1>5 DEF Serve

LEMMA ClientSteps ==
  ASSUME Shape, [Next]_vars, ~ Serve
  PROVE  UNCHANGED serverVars /\ sent \subseteq sent' /\ doubtful \subseteq doubtful'
<1> USE DEF postVars, vars, clientVars, Doubt
<1>1. ASSUME NEW r \in Attempts, Post(r) \/ WorkerEnds(r)
      PROVE  UNCHANGED serverVars /\ sent \subseteq sent' /\ doubtful \subseteq doubtful'
  BY <1>1 DEF WorkerEnds, Post, WorkerSucceeds, WorkerFails, WorkerDies
<1>2. CASE WgWindow
  BY <1>2 DEF WgWindow, WgConnect, StartWorker, WgPoll, WgDismiss, WgSave
<1>3. CASE TincWindow
  BY <1>3 DEF TincWindow, TincGenerate, TincSaveKeys, TincAuthenticate,
     TincStart,
     StartWorker, TincPoll, TincSaveResult
<1>4. CASE CloseWindow
  BY <1>4 DEF CloseWindow
<1>5. CASE CliStart \/ CliKilled
  BY <1>5 DEF CliStart, CliKilled
<1>6. CASE CliRuns
  BY <1>6 DEF CliRuns, CliSaveKeys, CliPassword, CliSucceeds, CliFails,
     CliOutput
<1>7. CASE UNCHANGED vars
  BY <1>7
<1>8. QED
  BY <1>1, <1>2, <1>3, <1>4, <1>5, <1>6, <1>7 DEF Next

LEMMA InitServer == Init => Server
BY Facts DEF Init, Tinc!Init, Server, TheUser

LEMMA ServerStep ==
  ASSUME Shape, Server, [Next]_vars
  PROVE  Server'
<1>1. CASE Serve
  <2> USE <1>1, ServeSteps DEF Server, clientVars, postVars
  <2>1. sent' = sent /\ sent \subseteq Attempts
    BY Facts DEF Shape, Types
  <2>2. ASSUME NEW r \in sent, Asks(r) PROVE Server'
    BY <2>1, <2>2 DEF Asks
  <2>3. ASSUME NEW r \in Attempts, Registers(r) PROVE Server'
    BY <2>1, <2>3 DEF Registers
  <2>4. ASSUME NEW r \in Attempts, NEW a \in {"config", "rejected", "unknown"}, Closes(r, a)
        PROVE  Server'
    BY <2>1, <2>4 DEF Closes
  <2>5. CASE Loses
    BY <2>1, <2>5 DEF Loses
  <2>6. QED
    BY <2>2, <2>3, <2>4, <2>5
<1>2. CASE ~ Serve
  BY <1>2, ClientSteps DEF serverVars, Server
<1>3. QED
  BY <1>1, <1>2

-----------------------------------------------------------------------------
(* What the client knows of the server *)

(* An attempt that was posted is under way, given up, or answered. *)
Outcome == \A r \in sent : r \in workers \cup doubtful \/ answer[r] \in {"config", "rejected"}

(* A configuration, in the queue, the program or the file, was answered. *)
Received ==
    /\ config \in Attempts => answer[config] = "config"
    /\ config \in Attempts /\ canSave => config = tried
    /\ program = "wg_gui" => config # ErrorText
    /\ configFile \in Attempts => answer[configFile] = "config"
    /\ events # <<>> /\ Head(events).ok => answer[tried] = "config"
    /\ stage = "output" => answer[tried] = "config"

LEMMA InitKnow == Init => Outcome /\ Received
BY Marks DEF Init, Outcome, Received

(* The attempts that are given up are doubtful from then on. *)
LEMMA DoubtStep ==
  ASSUME Shape, Outcome, NEW A, workers \subseteq A, Doubt(A),
         sent' = sent, answer' = answer
  PROVE  Outcome'
BY DEF Doubt, Outcome, Shape, Types

LEMMA OutcomeKept ==
  ASSUME Outcome, UNCHANGED <<sent, doubtful, answer>>, workers \subseteq workers'
  PROVE  Outcome'
BY DEF Outcome

LEMMA OutcomeClientStep ==
  ASSUME Shape, Outcome, UNCHANGED serverVars, [Next]_vars
  PROVE  Outcome'
<1> USE DEF serverVars
<1>1. ASSUME NEW r \in Attempts, Post(r) \/ WorkerEnds(r) PROVE Outcome'
  <2>1. CASE Post(r)
    BY <2>1 DEF Post, Outcome
  <2>2. CASE WorkerSucceeds(r)
    BY <2>2 DEF WorkerSucceeds, Outcome
  <2>3. CASE WorkerFails(r)
    BY <2>3, DoubtStep DEF WorkerFails, Shape, Flow
  <2>4. CASE WorkerDies(r)
    BY <2>4, DoubtStep DEF WorkerDies, Shape, Flow
  <2>5. QED
    BY <1>1, <2>1, <2>2, <2>3, <2>4 DEF WorkerEnds
<1>2. CASE WgWindow
  <2>1. CASE WgConnect
    BY <2>1, OutcomeKept DEF WgConnect, StartWorker, postVars
  <2>2. CASE WgPoll
    BY <2>2, OutcomeKept DEF WgPoll, postVars
  <2>3. CASE WgDismiss
    BY <2>3, OutcomeKept DEF WgDismiss, postVars
  <2>4. CASE WgSave
    BY <2>4, OutcomeKept DEF WgSave, postVars
  <2>5. QED
    BY <1>2, <2>1, <2>2, <2>3, <2>4 DEF WgWindow
<1>3. CASE TincWindow
  <2>1. CASE TincGenerate
    BY <2>1, OutcomeKept DEF TincGenerate, postVars
  <2>2. CASE TincSaveKeys
    BY <2>2, OutcomeKept DEF TincSaveKeys, postVars
  <2>3. CASE TincAuthenticate
    BY <2>3, OutcomeKept DEF TincAuthenticate, TincStart, StartWorker, postVars
  <2>4. CASE TincPoll
    BY <2>4, OutcomeKept DEF TincPoll, postVars
  <2>5. CASE TincSaveResult
    BY <2>5, OutcomeKept DEF TincSaveResult, postVars
  <2>6. QED
    BY <1>3, <2>1, <2>2, <2>3, <2>4, <2>5 DEF TincWindow
<1>4. CASE CloseWindow
  BY <1>4, DoubtStep DEF CloseWindow, InFlight
<1>5. CASE CliStart
  BY <1>5, OutcomeKept DEF CliStart, postVars
<1>6. CASE CliRuns
  <2>1. CASE CliSaveKeys
    BY <2>1, OutcomeKept DEF CliSaveKeys, Exit, Shape, Flow, postVars
  <2>2. CASE CliPassword
    BY <2>2, OutcomeKept DEF CliPassword, Shape, Flow, postVars
  <2>3. CASE CliSucceeds
    BY <2>3 DEF CliSucceeds, Outcome, Shape, Flow
  <2>4. CASE CliFails
    BY <2>4, DoubtStep DEF CliFails, Shape, Flow
  <2>5. CASE CliOutput
    <3>1. workers = {}
      BY <2>5 DEF CliOutput, Shape, Flow
    <3>2. CASE Doubt({tried})
      BY <2>5, <3>1, <3>2, DoubtStep DEF CliOutput
    <3>3. CASE UNCHANGED doubtful
      BY <2>5, <3>1, <3>3, OutcomeKept DEF CliOutput
    <3>4. QED
      BY <2>5, <3>2, <3>3 DEF CliOutput
  <2>6. QED
    BY <1>6, <2>1, <2>2, <2>3, <2>4, <2>5 DEF CliRuns
<1>7. CASE CliKilled
  BY <1>7, DoubtStep DEF CliKilled, Shape, Flow
<1>8. CASE Serve \/ UNCHANGED vars
  <2>1. UNCHANGED clientVars
    BY <1>8 DEF Serve, vars
  <2>2. QED
    BY <2>1, OutcomeKept DEF clientVars, postVars
<1>9. QED
  BY <1>1, <1>2, <1>3, <1>4, <1>5, <1>6, <1>7, <1>8 DEF Next

LEMMA ReceivedClientStep ==
  ASSUME Shape, Received, UNCHANGED serverVars, [Next]_vars
  PROVE  Received'
<1> USE Marks DEF Received, serverVars, windowVars, keyVars, postVars
<1>1. ASSUME NEW r \in Attempts, Post(r) \/ WorkerEnds(r) PROVE Received'
  <2>1. CASE Post(r)
    BY <2>1 DEF Post
  <2>2. CASE WorkerSucceeds(r)
    <3>1. r = tried /\ Head(events').ok = TRUE
      BY <2>2, OneEvent DEF WorkerSucceeds, Put, Shape, Flow
    <3>2. QED
      BY <2>2, <3>1 DEF WorkerSucceeds
  <2>3. CASE WorkerFails(r)
    <3>1. Head(events').ok = FALSE
      BY <2>3, OneEvent DEF WorkerFails, Put, Shape, Flow
    <3>2. QED
      BY <2>3, <3>1 DEF WorkerFails
  <2>4. CASE WorkerDies(r)
    BY <2>4 DEF WorkerDies, Doubt
  <2>5. QED
    BY <1>1, <2>1, <2>2, <2>3, <2>4 DEF WorkerEnds
<1>2. CASE WgWindow
  <2>1. CASE WgConnect
    BY <2>1 DEF WgConnect, StartWorker, Shape, Flow
  <2>2. CASE WgPoll
    <3>1. Head(events).of = tried /\ events' = <<>> /\ stage' = "window" /\ tried \in Attempts
      BY <2>2, HeadEvent DEF WgPoll, Shape, Flow
    <3>2. UNCHANGED <<program, stage, tried, configFile>>
      BY <2>2 DEF WgPoll
    <3>3. CASE Head(events).ok
      BY <2>2, <3>1, <3>2, <3>3 DEF WgPoll
    <3>4. CASE ~ Head(events).ok
      <4>1. UNCHANGED <<config, canSave>>
        BY <2>2, <3>4 DEF WgPoll
      <4>2. QED
        BY <3>1, <3>2, <4>1
    <3>5. QED
      BY <3>3, <3>4
  <2>3. CASE WgDismiss
    BY <2>3 DEF WgDismiss
  <2>4. CASE WgSave
    BY <2>4 DEF WgSave, WgReachable, LetGo
  <2>5. QED
    BY <1>2, <2>1, <2>2, <2>3, <2>4 DEF WgWindow
<1>3. CASE TincWindow
  <2>1. CASE TincGenerate
    BY <2>1 DEF TincGenerate, LetGo
  <2>2. CASE TincSaveKeys
    BY <2>2 DEF TincSaveKeys, LetGo
  <2>3. CASE TincAuthenticate
    BY <2>3 DEF TincAuthenticate, TincStart, StartWorker, Shape, Flow
  <2>4. CASE TincPoll
    <3>1. Head(events).of = tried /\ events' = <<>> /\ stage' = "window" /\ program # "wg_gui"
      BY <2>4, HeadEvent DEF TincPoll, Shape, Flow
    <3>2. UNCHANGED <<program, stage, tried, configFile>>
      BY <2>4 DEF TincPoll
    <3>3. CASE Head(events).ok
      BY <2>4, <3>1, <3>2, <3>3 DEF TincPoll
    <3>4. CASE ~ Head(events).ok
      <4>1. config' = ErrorText
        BY <2>4, <3>4 DEF TincPoll
      <4>2. QED
        BY <3>1, <3>2, <4>1
    <3>5. QED
      BY <3>3, <3>4
  <2>5. CASE TincSaveResult
    BY <2>5 DEF TincSaveResult
  <2>6. QED
    BY <1>3, <2>1, <2>2, <2>3, <2>4, <2>5 DEF TincWindow
<1>4. CASE CloseWindow
  BY <1>4 DEF CloseWindow, Shape, Flow
<1>5. CASE CliStart
  BY <1>5 DEF CliStart, GoTo, Shape, Flow
<1>6. CASE CliRuns
  <2>1. CASE CliSaveKeys
    BY <2>1 DEF CliSaveKeys, GoTo, Exit, LetGo
  <2>2. CASE CliPassword
    BY <2>2 DEF CliPassword, GoTo
  <2>3. CASE CliSucceeds
    BY <2>3 DEF CliSucceeds, GoTo, Shape, Flow
  <2>4. CASE CliFails
    BY <2>4 DEF CliFails, Exit, GoTo, Doubt
  <2>5. CASE CliOutput
    <3>1. answer[tried] = "config" /\ program = "cli" /\ events = <<>> /\ tried \in Attempts
      BY <2>5 DEF CliOutput, Shape, Flow
    <3>2. config' \in {config, tried} /\ configFile' \in {configFile, tried, Torn}
      BY <2>5 DEF CliOutput
    <3>3. config' = tried \/ UNCHANGED <<config, canSave>>
      BY <2>5 DEF CliOutput
    <3>4. UNCHANGED <<program, events, tried>> /\ stage' = "off"
      BY <2>5 DEF CliOutput, Exit, GoTo
    <3>5. Torn \notin Attempts
      OBVIOUS
    <3>6. QED
      BY <3>1, <3>2, <3>3, <3>4, <3>5
  <2>6. QED
    BY <1>6, <2>1, <2>2, <2>3, <2>4, <2>5 DEF CliRuns
<1>7. CASE CliKilled
  BY <1>7 DEF CliKilled, GoTo, Exit, Shape, Flow, Types
<1>8. CASE Serve \/ UNCHANGED vars
  <2>1. UNCHANGED clientVars
    BY <1>8 DEF Serve, vars
  <2>2. QED
    BY <2>1 DEF clientVars
<1>9. QED
  BY <1>1, <1>2, <1>3, <1>4, <1>5, <1>6, <1>7, <1>8 DEF Next

LEMMA KnowStep ==
  ASSUME Shape, Server, Outcome, Received, [Next]_vars
  PROVE  Outcome' /\ Received'
<1>1. CASE Serve
  <2>1. UNCHANGED clientVars
    BY <1>1, ServeSteps
  <2>2. \A r \in Attempts : answer[r] \in {"config", "rejected"} => answer'[r] = answer[r]
    <3> TAKE r \in Attempts
    <3>1. ASSUME NEW q \in Attempts, NEW a \in {"config", "rejected", "unknown"}, Closes(q, a)
          PROVE  answer[r] \in {"config", "rejected"} => answer'[r] = answer[r]
      <4>1. q # r \/ answer[r] = "none"
        BY <3>1 DEF Closes, Server
      <4>2. QED
        BY <3>1, <4>1 DEF Closes, Server
    <3>2. QED
      BY <1>1, <3>1, ServeSteps DEF Asks, Registers, Loses
  <2>3. sent \subseteq Attempts /\ (stage = "output" \/ events # <<>> => tried \in Attempts)
    BY Facts DEF Shape, Types, Flow
  <2>4. Outcome'
    BY <2>1, <2>2, <2>3 DEF clientVars, postVars, Outcome
  <2>5. Received'
    BY <2>1, <2>2, <2>3 DEF clientVars, postVars, windowVars, Received
  <2>6. QED
    BY <2>4, <2>5
<1>2. CASE ~ Serve
  BY <1>2, ClientSteps, OutcomeClientStep, ReceivedClientStep
<1>3. QED
  BY <1>1, <1>2

-----------------------------------------------------------------------------
(* Which configuration is in force *)

(* The key in force is that of the newest attempt with one, or doubtful. *)
Newest ==
    settled[TheUser] # NoAttempt =>
        settled[TheUser] \in doubtful \/ \A r \in registered : r <= settled[TheUser]

LEMMA SettledIs ==
  ASSUME Shape, Server, settled[TheUser] # NoAttempt
  PROVE  /\ settled[TheUser] \in registered /\ settled[TheUser] \in sent
         /\ settled[TheUser] \in Attempts
         /\ answer[settled[TheUser]] # "rejected"
BY Facts DEF Shape, Types, Server

LEMMA NewestStep ==
  ASSUME Shape, Server, Outcome, Newest, [Next]_vars
  PROVE  Newest'
<1>1. CASE Serve
  <2>1. UNCHANGED <<workers, sent, doubtful, tried>>
    BY <1>1, ServeSteps DEF clientVars, postVars
  <2>2. ASSUME NEW r \in Attempts, Registers(r) PROVE Newest'
    <3>1. r \in sent /\ answer[r] \notin {"config", "rejected"}
      BY <2>2 DEF Registers, Server
    <3>2. r \in doubtful \/ r = tried
      BY <3>1 DEF Outcome, Shape, Flow
    <3>3. settled'[TheUser] = r /\ registered' \subseteq sent
      BY <2>2, <3>1 DEF Registers, Server
    <3>4. \A q \in sent : q <= tried
      BY DEF Shape, Types
    <3>5. QED
      BY <2>1, <3>2, <3>3, <3>4 DEF Newest
  <2>3. CASE Loses
    BY <2>3 DEF Loses, Newest, Server
  <2>4. ASSUME UNCHANGED <<settled, registered>> PROVE Newest'
    BY <2>1, <2>4 DEF Newest
  <2>5. QED
    BY <1>1, <2>2, <2>3, <2>4, ServeSteps DEF Asks, Closes
<1>2. CASE ~ Serve
  BY <1>2, ClientSteps DEF serverVars, Newest
<1>3. QED
  BY <1>1, <1>2

LEMMA Shown ==
  ASSUME Shape, Server, Received, Newest
  PROVE  ConfigInForce
<1> DEFINE s == settled[TheUser]
<1>1. /\ s \in {NoAttempt} \cup Attempts
      /\ registered \subseteq Attempts /\ registered \subseteq 1..tried
  BY Facts DEF Server, Shape, Types
<1>2. ASSUME NEW r \in Attempts, answer[r] = "config", s \notin {NoAttempt} \cup doubtful
      PROVE  r <= s /\ s <= tried
  <2>1. s \in registered /\ s \in 1..tried
    BY <1>1, <1>2, SettledIs
  <2>2. r \in registered
    BY <1>2 DEF Server
  <2>3. \A q \in registered : q <= s
    BY <1>2 DEF Newest
  <2>4. QED
    BY <2>1, <2>2, <2>3
<1>3. ASSUME Offered \in Attempts
      PROVE  s \in {Offered, NoAttempt} \cup doubtful
  <2>1. Offered = config /\ config = tried /\ answer[config] = "config"
    BY <1>3, Marks DEF Offered, Received
  <2>2. QED
    BY <1>1, <1>2, <1>3, <2>1, Facts
<1>4. ASSUME configFile \in Attempts
      PROVE  s \in {configFile, NoAttempt} \cup doubtful \cup {r \in Attempts : r > configFile}
  <2>1. answer[configFile] = "config"
    BY <1>4 DEF Received
  <2>2. s \in {NoAttempt} \cup doubtful \/ s = configFile \/ s > configFile
    <3>1. s \in Attempts /\ configFile <= s => s = configFile \/ s > configFile
      BY <1>4 DEF Attempts
    <3>2. QED
      BY <1>1, <1>2, <1>4, <2>1, <3>1
  <2>3. QED
    BY <1>1, <2>2
<1>5. QED
  BY <1>3, <1>4 DEF ConfigInForce

-----------------------------------------------------------------------------
(* Where the private halves are *)

LEMMA LetGoKeeps ==
  ASSUME LetGo
  PROVE  HeldKeys \cup forgotten \subseteq HeldKeys' \cup forgotten'
BY DEF LetGo

(* Of the tinc programs: the keys whose private half is safe for good. *)
SafeKeys ==
    (({keyFile, OwnKey} \cup IF program = "cli" THEN {} ELSE {pubkey}) \ {NoKey})
        \cup forgotten

(* The command line saves the pair, or drops it, before it posts the key. *)
Kept ==
    program # "wg_gui" =>
        /\ \A r \in sent \cup workers : keyOf[r] \in SafeKeys
        /\ stage \in {"keys", "password"} => keyOf[tried] = pubkey /\ pubkey # NoKey
        /\ stage = "password" => pubkey \in SafeKeys

LEMMA SafeOfWindow ==
  ASSUME program \notin {"wg_gui", "cli"}, UNCHANGED program
  PROVE  /\ SafeKeys = HeldKeys \cup forgotten
         /\ SafeKeys' = HeldKeys' \cup forgotten'
         /\ SafeKeys = ({pubkey, keyFile, OwnKey} \ {NoKey}) \cup forgotten
         /\ SafeKeys' = ({pubkey', keyFile', OwnKey} \ {NoKey}) \cup forgotten'
BY DEF SafeKeys, HeldKeys

LEMMA SafeOfCli ==
  ASSUME program = "cli", UNCHANGED program
  PROVE  /\ SafeKeys = ({keyFile, OwnKey} \ {NoKey}) \cup forgotten
         /\ SafeKeys' = ({keyFile', OwnKey} \ {NoKey}) \cup forgotten'
BY DEF SafeKeys

LEMMA LetGoSafe ==
  ASSUME program \notin {"wg_gui", "cli"}, UNCHANGED program, LetGo
  PROVE  SafeKeys \subseteq SafeKeys'
BY SafeOfWindow, LetGoKeeps

LEMMA KeptOn ==
  ASSUME Kept, UNCHANGED <<program, sent, keyOf>>, SafeKeys \subseteq SafeKeys',
         workers' \subseteq workers, stage' \notin {"keys", "password"}
  PROVE  Kept'
BY DEF Kept

LEMMA StartWorkerKeys ==
  ASSUME Shape, NEW key, UNCHANGED postVars \/ StartWorker(key)
  PROVE  \A r \in sent' \cup workers' :
            (r \in sent \cup workers /\ keyOf'[r] = keyOf[r]) \/ keyOf'[r] = key
<1>1. CASE UNCHANGED postVars
  BY <1>1 DEF postVars
<1>2. CASE StartWorker(key)
  <2>1. sent' \cup workers' \subseteq sent \cup workers \cup {tried + 1}
    BY <1>2 DEF StartWorker
  <2>2. \A r \in Attempts : keyOf'[r] = IF r = tried + 1 THEN key ELSE keyOf[r]
    BY <1>2 DEF StartWorker, Shape, Types
  <2>3. sent \cup workers \cup {tried + 1} \subseteq Attempts
    <3>1. tried \in 0..MaxAttempts /\ tried < MaxAttempts /\ sent \subseteq 1..tried
      BY <1>2 DEF StartWorker, Shape, Types
    <3>2. tried + 1 \in Attempts /\ 1..tried \subseteq Attempts
      BY <3>1, Facts
    <3>3. QED
      BY <3>1, <3>2 DEF Shape, Types
  <2>4. QED
    BY <2>1, <2>2, <2>3
<1>3. QED
  BY <1>1, <1>2

LEMMA InitKept == Init => Kept
BY DEF Init, Kept

LEMMA KeptStep ==
  ASSUME Shape, Kept, [Next]_vars
  PROVE  Kept'
<1> USE DEF Kept, SafeKeys, windowVars, keyVars, postVars
<1>1. ASSUME NEW r \in Attempts, Post(r) \/ WorkerEnds(r) PROVE Kept'
  <2>1. CASE Post(r)
    BY <2>1 DEF Post
  <2>2. CASE WorkerSucceeds(r)
    BY <2>2 DEF WorkerSucceeds, Put
  <2>3. CASE WorkerFails(r)
    BY <2>3 DEF WorkerFails, Put, Doubt
  <2>4. CASE WorkerDies(r)
    BY <2>4 DEF WorkerDies, Doubt
  <2>5. QED
    BY <1>1, <2>1, <2>2, <2>3, <2>4 DEF WorkerEnds
<1>2. CASE WgWindow
  <2>1. CASE WgConnect
    BY <2>1 DEF WgConnect, WgReachable
  <2>2. CASE WgPoll
    BY <2>2 DEF WgPoll
  <2>3. CASE WgDismiss
    BY <2>3 DEF WgDismiss
  <2>4. CASE WgSave
    BY <2>4 DEF WgSave, WgReachable
  <2>5. QED
    BY <1>2, <2>1, <2>2, <2>3, <2>4 DEF WgWindow
<1>3. CASE TincWindow
  <2>1. CASE TincGenerate
    <3>1. program' = program /\ program = "tinc_gui" /\ LetGo
      BY <2>1 DEF TincGenerate
    <3>2. QED
      BY <2>1, <3>1, LetGoSafe, KeptOn DEF TincGenerate, Shape, Flow
  <2>2. CASE TincSaveKeys
    <3>1. program' = program /\ program = "tinc_gui" /\ LetGo
      BY <2>2 DEF TincSaveKeys
    <3>2. QED
      BY <2>2, <3>1, LetGoSafe, KeptOn DEF TincSaveKeys, Shape, Flow
  <2>3. CASE TincAuthenticate
    <3>1. program' = program /\ program = "tinc_gui" /\ stage' = "window"
      BY <2>3 DEF TincAuthenticate, Shape, Flow
    <3>2. /\ pubkey' # NoKey /\ (pubkey # NoKey => pubkey' = pubkey)
          /\ UNCHANGED <<keyFile, forgotten>>
      BY <2>3, Facts DEF TincAuthenticate, NoKey, Shape, Types
    <3>3. SafeKeys \subseteq SafeKeys' /\ pubkey' \in SafeKeys'
      BY <3>1, <3>2, SafeOfWindow
    <3>4. UNCHANGED postVars \/ StartWorker(pubkey')
      BY <2>3 DEF TincAuthenticate, TincStart
    <3>5. \A r \in sent' \cup workers' :
             (r \in sent \cup workers /\ keyOf'[r] = keyOf[r]) \/ keyOf'[r] = pubkey'
      BY <3>4, StartWorkerKeys
    <3>6. QED
      BY <3>1, <3>3, <3>5 DEF Kept
  <2>4. CASE TincPoll
    BY <2>4 DEF TincPoll
  <2>5. CASE TincSaveResult
    BY <2>5 DEF TincSaveResult
  <2>6. QED
    BY <1>3, <2>1, <2>2, <2>3, <2>4, <2>5 DEF TincWindow
<1>4. CASE CloseWindow
  <3>1. /\ program' = program /\ LetGo /\ UNCHANGED <<sent, keyOf>>
        /\ workers' = {} /\ stage' = "window"
    BY <1>4 DEF CloseWindow
  <3>2. program # "cli"
    BY <1>4 DEF CloseWindow, Shape, Flow
  <3>3. CASE program = "wg_gui"
    BY <3>1, <3>3 DEF Kept
  <3>4. CASE program # "wg_gui"
    BY <3>1, <3>2, <3>4, LetGoSafe, KeptOn
  <3>5. QED
    BY <3>3, <3>4
<1>5. CASE CliStart
  <3>1. /\ workers' = {} /\ UNCHANGED <<sent, program, keyFile>> /\ program = "cli"
        /\ forgotten \subseteq forgotten'
    BY <1>5 DEF CliStart, Shape, Flow
  <3>2. \A r \in sent : keyOf'[r] = keyOf[r]
    BY <1>5, Facts DEF CliStart, Shape, Types
  <3>3. keyOf'[tried'] = pubkey' /\ pubkey' # NoKey
    BY <1>5, Facts DEF CliStart, Shape, Types, OwnKey, NoKey
  <3>4. SafeKeys \subseteq SafeKeys' /\ OwnKey \in SafeKeys' /\ forgotten' \subseteq SafeKeys'
    BY <3>1, SafeOfCli, Facts
  <3>5. stage' = "password" => pubkey' \in {OwnKey} \cup forgotten'
    BY <1>5 DEF CliStart, GoTo
  <3>6. QED
    BY <3>1, <3>2, <3>3, <3>4, <3>5 DEF Kept
<1>6. CASE CliRuns
  <2>1. CASE CliSaveKeys
    <3>1. /\ UNCHANGED <<program, sent, keyOf, tried>> /\ program = "cli"
          /\ workers = {} /\ workers' = {}
          /\ keyOf[tried] = pubkey /\ pubkey # NoKey
      BY <2>1 DEF CliSaveKeys, Exit, Shape, Flow
    <3>2. CASE stage' = "password" /\ keyFile' = pubkey /\ LetGo /\ UNCHANGED pubkey
      <4>1. SafeKeys \subseteq SafeKeys' /\ pubkey' \in SafeKeys'
        <5>1. SafeKeys \subseteq HeldKeys \cup forgotten
          BY <3>1, SafeOfCli DEF HeldKeys
        <5>2. HeldKeys' \cup forgotten' \subseteq SafeKeys'
          BY <3>1, <3>2, SafeOfCli DEF HeldKeys
        <5>3. pubkey' \in HeldKeys'
          BY <3>1, <3>2 DEF HeldKeys
        <5>4. QED
          BY <3>2, <5>1, <5>2, <5>3, LetGoKeeps
      <4>2. QED
        BY <3>1, <3>2, <4>1 DEF Kept
    <3>3. CASE stage' = "off" /\ UNCHANGED <<keyFile, forgotten>>
      <4>1. SafeKeys \subseteq SafeKeys'
        BY <3>1, <3>3, SafeOfCli
      <4>2. QED
        BY <3>1, <3>3, <4>1, KeptOn
    <3>4. QED
      BY <2>1, <3>2, <3>3 DEF CliSaveKeys, Exit, GoTo
  <2>2. CASE CliPassword
    <3>1. UNCHANGED <<sent, keyOf, tried>> /\ workers' = {tried} /\ stage' = "authenticate"
      BY <2>2 DEF CliPassword, GoTo
    <3>2. program = "cli" /\ UNCHANGED <<program, keyFile, forgotten>>
      BY <2>2 DEF CliPassword, Shape, Flow
    <3>3. SafeKeys \subseteq SafeKeys' /\ keyOf[tried] \in SafeKeys
      BY <2>2, <3>2, SafeOfCli DEF CliPassword
    <3>4. QED
      BY <3>1, <3>2, <3>3 DEF Kept
  <2>3. CASE CliSucceeds
    <3>1. program = "cli" /\ UNCHANGED <<program, keyFile, forgotten, sent, keyOf>> /\ workers' = {}
      BY <2>3 DEF CliSucceeds, Shape, Flow
    <3>2. stage' \in {"off", "output"}
      BY <2>3 DEF CliSucceeds, GoTo
    <3>3. QED
      BY <3>1, <3>2, SafeOfCli, KeptOn
  <2>4. CASE CliFails
    <3>1. program = "cli" /\ UNCHANGED <<program, keyFile, forgotten, sent, keyOf>> /\ workers' = {}
      BY <2>4 DEF CliFails, Exit, Shape, Flow
    <3>2. stage' \in {"off", "output"}
      BY <2>4 DEF CliFails, Exit, GoTo
    <3>3. QED
      BY <3>1, <3>2, SafeOfCli, KeptOn
  <2>5. CASE CliOutput
    <3>1. program = "cli" /\ UNCHANGED <<program, keyFile, forgotten, sent, keyOf>> /\ workers' = {}
      BY <2>5 DEF CliOutput, Exit, Shape, Flow
    <3>2. stage' \in {"off", "output"}
      BY <2>5 DEF CliOutput, Exit, GoTo
    <3>3. QED
      BY <3>1, <3>2, SafeOfCli, KeptOn
  <2>6. QED
    BY <1>6, <2>1, <2>2, <2>3, <2>4, <2>5 DEF CliRuns
<1>7. CASE CliKilled
  <3>1. program = "cli" /\ UNCHANGED <<program, keyFile, forgotten, sent, keyOf>> /\ workers' = {}
    BY <1>7 DEF CliKilled, Exit, Shape, Flow
  <3>2. stage' \in {"off", "output"}
    BY <1>7 DEF CliKilled, Exit, GoTo
  <3>3. QED
    BY <3>1, <3>2, SafeOfCli, KeptOn
<1>8. CASE Serve \/ UNCHANGED vars
  <2>1. UNCHANGED clientVars
    BY <1>8 DEF Serve, vars
  <2>2. QED
    BY <2>1 DEF clientVars
<1>9. QED
  BY <1>1, <1>2, <1>3, <1>4, <1>5, <1>6, <1>7, <1>8 DEF Next

-----------------------------------------------------------------------------
(* The WireGuard window makes a pair for each attempt *)

LEMMA WgSteps ==
  ASSUME Shape, [Next]_vars, program' = "wg_gui"
  PROVE  /\ program = "wg_gui"
         /\ \/ \E r \in Attempts : Post(r) \/ WorkerEnds(r)
            \/ WgWindow \/ CloseWindow \/ Serve \/ UNCHANGED vars
<1>1. ASSUME NEW r \in Attempts, Post(r) \/ WorkerEnds(r)
      PROVE  program = program'
  BY <1>1 DEF Post, WorkerEnds, WorkerSucceeds, WorkerFails, WorkerDies
<1>2. CASE WgWindow \/ CloseWindow
  BY <1>2 DEF WgWindow, WgConnect, WgPoll, WgDismiss, WgSave, CloseWindow
<1>3. CASE Serve \/ UNCHANGED vars
  BY <1>3 DEF Serve, vars, clientVars
<1>4. ~ TincWindow
  BY DEF TincWindow, TincGenerate, TincSaveKeys, TincAuthenticate, TincPoll,
     TincSaveResult
<1>5. ~ CliStart /\ ~ CliRuns /\ ~ CliKilled
  BY DEF Shape, Flow, CliStart, CliRuns, CliSaveKeys, CliPassword, CliSucceeds,
     CliFails, CliOutput, CliKilled
<1>6. QED
  BY <1>1, <1>2, <1>3, <1>4, <1>5 DEF Next

(* The pairs of the attempts that were posted are different. *)
Pairs ==
    program = "wg_gui" =>
        /\ \A r \in Attempts \ sent : keyOf[r] = NoKey
        /\ \A r \in sent : keyOf[r] \in 1..made
        /\ \A r, q \in sent : keyOf[r] = keyOf[q] => r = q

LEMMA InitPairs == Init => Pairs
BY DEF Init, Pairs

LEMMA PairsStep ==
  ASSUME Shape, Pairs, [Next]_vars
  PROVE  Pairs'
<1> SUFFICES ASSUME program' = "wg_gui" PROVE Pairs'
  BY DEF Pairs
<1>1. program = "wg_gui"
  BY WgSteps
<1>2. sent \subseteq Attempts /\ made \in Nat
  BY Facts DEF Shape, Types
<1>3. ASSUME NEW r \in Attempts, Post(r) PROVE Pairs'
  <2>1. /\ r \notin sent /\ sent' = sent \cup {r} /\ made' = made + 1
        /\ keyOf' = [keyOf EXCEPT ![r] = made + 1]
    BY <1>1, <1>3 DEF Post
  <2>2. \A q \in Attempts : keyOf'[q] = IF q = r THEN made + 1 ELSE keyOf[q]
    BY <2>1 DEF Shape, Types
  <2>3. \A q \in sent : keyOf[q] \in 1..made
    BY <1>1 DEF Pairs
  <2>4. \A q \in sent' : keyOf'[q] \in 1..made'
    BY <1>2, <2>1, <2>2, <2>3
  <2>5. \A p, q \in sent' : keyOf'[p] = keyOf'[q] => p = q
    <3> SUFFICES ASSUME NEW p \in sent', NEW q \in sent', keyOf'[p] = keyOf'[q]
                 PROVE  p = q
      OBVIOUS
    <3>1. \A n \in 1..made : n # made + 1
      BY <1>2
    <3>2. QED
      BY <1>1, <1>2, <2>1, <2>2, <2>3, <3>1 DEF Pairs
  <2>6. \A q \in Attempts \ sent' : keyOf'[q] = NoKey
    BY <1>1, <2>1, <2>2 DEF Pairs
  <2>7. QED
    BY <2>4, <2>5, <2>6 DEF Pairs
<1>4. CASE WgConnect
  <2>1. UNCHANGED <<made, sent>> /\ keyOf' = [keyOf EXCEPT ![tried + 1] = NoKey]
    BY <1>4 DEF WgConnect, StartWorker, keyVars
  <2>2. tried + 1 \notin sent
    BY Facts DEF Shape, Types
  <2>3. \A q \in Attempts : keyOf'[q] = IF q = tried + 1 THEN NoKey ELSE keyOf[q]
    BY <2>1 DEF Shape, Types
  <2>4. \A q \in sent : keyOf'[q] = keyOf[q]
    BY <1>2, <2>2, <2>3
  <2>5. \A q \in Attempts \ sent : keyOf'[q] = NoKey
    BY <1>1, <2>3 DEF Pairs
  <2>6. QED
    BY <1>1, <2>1, <2>4, <2>5 DEF Pairs
<1>5. ASSUME UNCHANGED <<made, sent, keyOf>> PROVE Pairs'
  BY <1>1, <1>5 DEF Pairs
<1>6. ASSUME NEW r \in Attempts, WorkerEnds(r) PROVE Pairs'
  BY <1>5, <1>6 DEF WorkerEnds, WorkerSucceeds, WorkerFails, WorkerDies, keyVars
<1>7. CASE WgPoll \/ WgDismiss \/ WgSave
  BY <1>5, <1>7 DEF WgPoll, WgDismiss, WgSave, keyVars, postVars
<1>8. CASE CloseWindow
  BY <1>5, <1>8 DEF CloseWindow
<1>9. CASE Serve \/ UNCHANGED vars
  BY <1>5, <1>9 DEF Serve, vars, clientVars, keyVars, postVars
<1>10. QED
  BY <1>3, <1>4, <1>6, <1>7, <1>8, <1>9, WgSteps DEF WgWindow

(* An attempt that failed is doubtful, unless it was never posted or was   *)
(* rejected.                                                               *)
GivenUp ==
    program = "wg_gui" /\ events # <<>> /\ ~ Head(events).ok /\ tried \in sent =>
        tried \in doubtful \/ answer[tried] = "rejected"

LEMMA InitGivenUp == Init => GivenUp
BY DEF Init, GivenUp

LEMMA GivenUpStep ==
  ASSUME Shape, Server, GivenUp, [Next]_vars
  PROVE  GivenUp'
<1> SUFFICES ASSUME program' = "wg_gui", events' # <<>>, ~ Head(events').ok, tried' \in sent'
             PROVE  tried' \in doubtful' \/ answer'[tried'] = "rejected"
  BY DEF GivenUp
<1>1. program = "wg_gui"
  BY WgSteps
<1>2. CASE Serve
  <2>1. UNCHANGED clientVars
    BY <1>2, ServeSteps
  <2>2. tried \in doubtful \/ answer[tried] = "rejected"
    BY <1>1, <2>1 DEF GivenUp, clientVars, postVars, windowVars
  <2>3. tried \in Attempts
    BY <2>1, Facts DEF clientVars, postVars, Shape, Types
  <2>4. answer[tried] = "rejected" => answer'[tried] = "rejected"
    BY <1>2, <2>3, ServeSteps DEF Asks, Registers, Closes, Loses, Server
  <2>5. QED
    BY <2>1, <2>2, <2>4 DEF clientVars, postVars
<1>3. ASSUME UNCHANGED <<events, tried, sent, answer>>, doubtful \subseteq doubtful'
      PROVE  tried' \in doubtful' \/ answer'[tried'] = "rejected"
  BY <1>1, <1>3 DEF GivenUp
<1>4. ASSUME NEW r \in Attempts, Post(r) \/ WorkerDies(r) PROVE FALSE
  <2>1. workers # {} /\ UNCHANGED events
    BY <1>4 DEF Post, WorkerDies, windowVars
  <2>2. QED
    BY <2>1 DEF Shape, Flow
<1>5. ASSUME NEW r \in Attempts, WorkerSucceeds(r) PROVE FALSE
  <2>1. Head(events').ok = TRUE
    BY <1>5, OneEvent DEF WorkerSucceeds, Put, Shape, Flow
  <2>2. QED
    BY <2>1
<1>6. ASSUME NEW r \in Attempts, WorkerFails(r)
      PROVE  tried' \in doubtful' \/ answer'[tried'] = "rejected"
  <2>1. r = tried /\ UNCHANGED <<tried, sent, answer>> /\ Doubt({r})
    BY <1>6 DEF WorkerFails, Shape, Flow, serverVars
  <2>2. QED
    BY <2>1 DEF Doubt
<1>7. CASE WgConnect
  <2>1. events = <<>> /\ UNCHANGED events
    BY <1>7 DEF WgConnect, Shape, Flow
  <2>2. QED
    BY <2>1
<1>8. CASE WgDismiss \/ WgSave
  BY <1>3, <1>8 DEF WgDismiss, WgSave, windowVars, postVars, serverVars
<1>9. CASE WgPoll
  BY <1>9, HeadEvent DEF WgPoll, Shape
<1>10. CASE CloseWindow
  BY <1>10 DEF CloseWindow
<1>11. CASE UNCHANGED vars
  BY <1>3, <1>11 DEF vars, clientVars, windowVars, postVars, serverVars
<1>12. QED
  BY <1>2, <1>4, <1>5, <1>6, <1>7, <1>8, <1>9, <1>10, <1>11, WgSteps
     DEF WorkerEnds, WgWindow

(* Where the pair of the key in force is. *)
WgKept ==
    program = "wg_gui" /\ settled[TheUser] # NoAttempt =>
        \/ settled[TheUser] \in doubtful \cup workers \cup {config, configFile}
        \/ events # <<>> /\ settled[TheUser] = tried
        \/ keyOf[settled[TheUser]] \in forgotten

LEMMA InitWgKept == Init => WgKept
BY DEF Init, WgKept, Tinc!Init

LEMMA HeldOf ==
  ASSUME Shape, Pairs, program = "wg_gui", NEW r \in sent \cap {config, configFile}
  PROVE  keyOf[r] \in HeldKeys /\ keyOf[r] # NoKey
<1>1. r \in Attempts /\ keyOf[r] # NoKey
  BY Facts DEF Shape, Types, Pairs, NoKey
<1>2. QED
  BY <1>1 DEF HeldKeys

(* The dialogs let the pair of the file or of the result go. *)
LEMMA WgLetGo ==
  ASSUME Shape, Pairs, program = "wg_gui", LetGo, UNCHANGED <<program, keyOf>>,
         NEW s \in sent \cap {config, configFile},
         InFlight' \subseteq InFlight, config' \in Attempts => config' \in sent,
         configFile' \in Attempts => configFile' \in sent
  PROVE  s \in {config', configFile'} \cup workers' \/ (events' # <<>> /\ s = tried)
            \/ keyOf[s] \in forgotten'
<1>1. keyOf[s] \in HeldKeys /\ keyOf[s] # NoKey
  BY HeldOf
<1>2. CASE keyOf[s] \in forgotten'
  BY <1>2
<1>3. CASE keyOf[s] \in HeldKeys'
  <2>1. PICK r \in ({config', configFile'} \cap Attempts) \cup InFlight' : keyOf[r] = keyOf[s]
    BY <1>3 DEF HeldKeys
  <2>2. r \in Attempts
    BY <2>1, InFlightIs, HeadEvent DEF Shape, Types
  <2>3. r = s
    BY <1>1, <2>1, <2>2 DEF Pairs
  <2>4. CASE r \in InFlight'
    <3>1. r \in workers' \/ events' # <<>>
      BY <2>4 DEF InFlight
    <3>2. events' # <<>> => r = tried
      BY <2>4, InFlightIs DEF Shape, Flow
    <3>3. QED
      BY <2>3, <3>1, <3>2
  <2>5. QED
    BY <2>1, <2>3, <2>4
<1>4. QED
  BY <1>1, <1>2, <1>3, LetGoKeeps

LEMMA WgKeptStep ==
  ASSUME Shape, Server, Outcome, Received, Newest, Pairs, GivenUp, WgKept, [Next]_vars
  PROVE  WgKept'
<1> SUFFICES ASSUME program' = "wg_gui", settled'[TheUser] # NoAttempt PROVE WgKept'
  BY DEF WgKept
<1> DEFINE s == settled[TheUser]
<1>1. program = "wg_gui"
  BY WgSteps
<1>2. CASE Serve
  <2>1. UNCHANGED <<keyOf, workers, sent, doubtful, tried, config, configFile, events,
                    forgotten, program>>
    BY <1>2, ServeSteps DEF clientVars, postVars, windowVars
  <2>2. ASSUME NEW r \in Attempts, Registers(r) PROVE WgKept'
    <3>1. r \in sent /\ answer[r] \notin {"config", "rejected"}
      BY <2>2 DEF Registers, Server
    <3>2. settled'[TheUser] = r
      BY <2>2 DEF Registers, Server
    <3>3. QED
      BY <2>1, <3>1, <3>2 DEF Outcome, WgKept
  <2>3. CASE Loses
    BY <2>3 DEF Loses, Server
  <2>4. ASSUME UNCHANGED settled PROVE WgKept'
    BY <2>1, <2>4 DEF WgKept
  <2>5. QED
    BY <1>2, <2>2, <2>3, <2>4, ServeSteps DEF Asks, Closes
<1>3. CASE ~ Serve
  <2>1. UNCHANGED <<settled, answer>> /\ doubtful \subseteq doubtful'
    BY <1>3, ClientSteps DEF serverVars
  <2>2. /\ s \in Attempts /\ s \in sent /\ s \in registered /\ s \in 1..tried
        /\ answer[s] # "rejected"
    BY <2>1, SettledIs DEF Shape, Types
  <2>3. SUFFICES ASSUME s \notin doubtful'
                 PROVE  \/ s \in workers' \cup {config', configFile'}
                        \/ events' # <<>> /\ s = tried'
                        \/ keyOf'[s] \in forgotten'
    BY <2>1 DEF WgKept
  <2>4. s \in workers \cup {config, configFile} \/ (events # <<>> /\ s = tried)
           \/ keyOf[s] \in forgotten
    BY <1>1, <2>1, <2>2, <2>3 DEF WgKept
  <2>5. keyOf' \in [Attempts -> Keys \cup {NoKey}] /\ \A n : n = tried + 1 => s # n
    BY <2>2, ShapeStep, Facts DEF Shape, Types
  <2>6. \A r \in Attempts : answer[r] = "config" => r \in sent
    BY DEF Server
  <2>7. ASSUME NEW r \in Attempts, Post(r)
        PROVE  \/ s \in workers' \cup {config', configFile'}
               \/ events' # <<>> /\ s = tried'
               \/ keyOf'[s] \in forgotten'
    <3>1. keyOf'[s] = keyOf[s]
      BY <1>1, <2>2, <2>7 DEF Post, Shape, Types
    <3>2. QED
      BY <2>4, <2>7, <3>1 DEF Post, windowVars
  <2>8. ASSUME NEW r \in Attempts, WorkerSucceeds(r) \/ WorkerFails(r)
        PROVE  \/ s \in workers' \cup {config', configFile'}
               \/ events' # <<>> /\ s = tried'
               \/ keyOf'[s] \in forgotten'
    <3>1. workers = {tried} /\ events = <<>>
      BY <2>8 DEF Shape, Flow, WorkerSucceeds, WorkerFails
    <3>2. events' # <<>> /\ UNCHANGED <<tried, config, configFile, keyOf, forgotten>>
      BY <2>8, <3>1, OneEvent DEF WorkerSucceeds, WorkerFails, Put
    <3>3. QED
      BY <2>4, <3>1, <3>2
  <2>9. ASSUME NEW r \in Attempts, WorkerDies(r)
        PROVE  \/ s \in workers' \cup {config', configFile'}
               \/ events' # <<>> /\ s = tried'
               \/ keyOf'[s] \in forgotten'
    <3>1. s # r
      BY <2>2, <2>3, <2>9 DEF WorkerDies, Doubt
    <3>2. QED
      BY <2>4, <2>9, <3>1 DEF WorkerDies
  <2>10. CASE WgConnect
    <3>1. workers = {} /\ events = <<>> /\ UNCHANGED <<config, configFile, forgotten>>
      BY <2>10 DEF WgConnect, Shape, Flow
    <3>2. keyOf'[s] = keyOf[s]
      BY <2>2, <2>5, <2>10 DEF WgConnect, StartWorker, Shape, Types
    <3>3. QED
      BY <2>4, <3>1, <3>2
  <2>11. CASE WgPoll
    <3>1. /\ Head(events).of = tried /\ workers = {}
          /\ UNCHANGED <<tried, configFile, keyOf, forgotten, doubtful>>
      BY <2>11, HeadEvent DEF WgPoll, postVars, Shape, Flow
    <3>2. CASE Head(events).ok
      <4>1. config' = tried /\ tried \in registered
        BY <2>11, <3>1, <3>2, HeadEvent DEF WgPoll, Received, Server, Shape
      <4>2. s >= tried /\ s <= tried
        BY <2>2, <2>1, <2>3, <4>1, Marks DEF Newest
      <4>3. s = tried
        BY <2>2, <4>2, Facts DEF Shape, Types
      <4>4. QED
        BY <4>1, <4>3
    <3>3. CASE ~ Head(events).ok
      <4>1. s # tried
        BY <1>1, <2>2, <2>3, <2>11, <3>1, <3>3 DEF GivenUp, WgPoll
      <4>2. UNCHANGED config
        BY <2>11, <3>3 DEF WgPoll
      <4>3. QED
        BY <2>4, <3>1, <4>1, <4>2
    <3>4. QED
      BY <3>2, <3>3
  <2>12. CASE WgDismiss
    BY <2>4, <2>12 DEF WgDismiss, postVars
  <2>13. CASE WgSave
    <3>1. /\ configFile' = config /\ LetGo
          /\ UNCHANGED <<program, config, events, workers, tried, keyOf>>
      BY <2>13 DEF WgSave, windowVars, postVars
    <3>2. InFlight' = InFlight
      BY <3>1 DEF InFlight
    <3>3. config \in Attempts => config \in sent
      BY <2>6 DEF Received
    <3>4. CASE s \in {config, configFile}
      BY <1>1, <2>2, <3>1, <3>2, <3>3, <3>4, WgLetGo
    <3>5. forgotten \subseteq forgotten'
      BY <3>1 DEF LetGo
    <3>6. QED
      BY <2>4, <3>1, <3>4, <3>5
  <2>14. CASE CloseWindow
    <3>1. /\ UNCHANGED <<program, configFile, keyOf, tried>> /\ LetGo /\ Doubt(InFlight)
          /\ workers' = {} /\ events' = <<>> /\ config' = NoAttempt
      BY <2>14 DEF CloseWindow
    <3>2. InFlight' = {}
      BY <3>1 DEF InFlight
    <3>3. s \notin InFlight
      BY <2>2, <2>3, <3>1 DEF Doubt
    <3>4. s \notin workers /\ ~ (events # <<>> /\ s = tried)
      BY <3>3, InFlightIs DEF Shape, Flow
    <3>5. forgotten \subseteq forgotten'
      BY <3>1 DEF LetGo
    <3>6. CASE s \in {config, configFile}
      <4>1. configFile \in Attempts => configFile \in sent
        BY <2>6 DEF Received
      <4>2. config' \notin Attempts
        BY <3>1, Marks
      <4>3. QED
        BY <1>1, <2>2, <3>1, <3>2, <3>6, <4>1, <4>2, WgLetGo
    <3>7. QED
      BY <2>4, <3>1, <3>4, <3>5, <3>6
  <2>15. CASE UNCHANGED vars
    BY <2>4, <2>15 DEF vars, clientVars, windowVars, postVars
  <2>16. QED
    BY <1>3, <2>7, <2>8, <2>9, <2>10, <2>11, <2>12, <2>13, <2>14, <2>15, WgSteps
       DEF WorkerEnds, WgWindow
<1>4. QED
  BY <1>2, <1>3

LEMMA KeyOfSettled ==
  ASSUME Shape, Server, Kept, Pairs, WgKept
  PROVE  PrivateHalfHeld
<1> DEFINE s == settled[TheUser]
<1> SUFFICES ASSUME s # NoAttempt
             PROVE  \/ keyOf[s] \in HeldKeys \cup forgotten
                    \/ program = "wg_gui" /\ s \in doubtful
  BY DEF PrivateHalfHeld
<1>1. s \in sent /\ s \in Attempts
  BY SettledIs
<1>2. CASE program = "wg_gui"
  <2>1. keyOf[s] # NoKey
    BY <1>1, <1>2, Facts DEF Pairs, NoKey, Shape, Types
  <2>2. CASE s \in {config, configFile}
    BY <1>1, <1>2, <2>2, HeldOf
  <2>3. CASE s \in workers \/ (events # <<>> /\ s = tried)
    <3>1. s \in InFlight
      BY <2>3, InFlightIs DEF Shape, Flow
    <3>2. QED
      BY <1>2, <2>1, <3>1 DEF HeldKeys
  <2>4. QED
    BY <1>2, <2>2, <2>3 DEF WgKept
<1>3. CASE program # "wg_gui"
  BY <1>1, <1>3 DEF Kept, SafeKeys, HeldKeys
<1>4. QED
  BY <1>2, <1>3

-----------------------------------------------------------------------------
(* The theorems *)

Inv ==
    /\ Shape /\ Server
    /\ Outcome /\ Received /\ Newest
    /\ Kept
    /\ Pairs /\ GivenUp /\ WgKept

LEMMA InitInv == Init => Inv
<1> SUFFICES ASSUME Init PROVE Inv
  OBVIOUS
<1>1. Newest
  BY DEF Init, Tinc!Init, Newest
<1>2. QED
  BY <1>1, InitShape, InitServer, InitKnow, InitKept, InitPairs, InitGivenUp,
     InitWgKept DEF Inv

LEMMA NextInv == Inv /\ [Next]_vars => Inv'
<1> SUFFICES ASSUME Inv, [Next]_vars PROVE Inv'
  OBVIOUS
<1> USE DEF Inv
<1>1. Shape' /\ Server'
  BY ShapeStep, ServerStep
<1>2. Outcome' /\ Received' /\ Newest'
  BY KnowStep, NewestStep
<1>3. Kept' /\ Pairs' /\ GivenUp' /\ WgKept'
  BY KeptStep, PairsStep, GivenUpStep, WgKeptStep
<1>4. QED
  BY <1>1, <1>2, <1>3

LEMMA SpecInv == Spec => []Inv
BY InitInv, NextInv, PTL DEF Spec

(* The clients keep their state well typed, with one worker at most and one  *)
(* event.                                                                    *)
THEOREM TypeCorrect == Spec => []TypeOK
<1>1. Inv => TypeOK
  BY ShapeTypes DEF Inv
<1>2. QED
  BY <1>1, SpecInv, PTL

(***************************************************************************)
(* A configuration that a client shows, or has saved, is in force, but for *)
(* attempts it had to give up, later attempts, and what the server lost.   *)
(***************************************************************************)
THEOREM ConfigInForceAlways == Spec => []ConfigInForce
<1>1. Inv => ConfigInForce
  BY Shown DEF Inv
<1>2. QED
  BY <1>1, SpecInv, PTL

(***************************************************************************)
(* The private half of the key in force is held, or the user let it go; of *)
(* an attempt given up it may be lost, with the WireGuard window.          *)
(***************************************************************************)
THEOREM PrivateHalfHeldAlways == Spec => []PrivateHalfHeld
<1>1. Inv => PrivateHalfHeld
  BY KeyOfSettled DEF Inv
<1>2. QED
  BY <1>1, SpecInv, PTL
=============================================================================
