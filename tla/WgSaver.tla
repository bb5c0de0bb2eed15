------------------------------- MODULE WgSaver -------------------------------
(***************************************************************************)
(* How the WireGuard server (src/esa/updateconf.go) gets the peers it has  *)
(* set into the configuration file: updatewg schedules a save, a goroutine *)
(* gathers the scheduled saves for wgSaveDebounce, a second goroutine runs *)
(* wg-quick save, and stopWGSaver stops both at shutdown.                  *)
(*                                                                         *)
(* There is one interface and one path, so all wgSaveRequests are equal: a *)
(* channel is its length, and the map pending is whether it has an entry.  *)
(*                                                                         *)
(* No name here is one of WgServer, the other half of the process, so that *)
(* a module can extend both.                                               *)
(***************************************************************************)
EXTENDS Naturals, FiniteSets

CONSTANTS Updates,  \* the calls of updatewg, each with a peer of its own
          SaveCap   \* capacity of wgSaveCh and wgSaveQueueCh (64 in the code)

ASSUME SaverConstantsOK == IsFiniteSet(Updates) /\ SaveCap \in Nat \ {0}

VARIABLES
    upc,      \* where updatewg is for each of them
    peers,    \* peers of the interface, in the kernel
    file,     \* peers in the configuration file
    started,  \* has startWGSaver made the channels and the goroutines?
    stopped,  \* is wgSaveStopCh closed?
    saveCh,   \* length of wgSaveCh
    queueCh,  \* length of wgSaveQueueCh
    pending,  \* does the map pending have an entry?
    timer,    \* the debounce timer
    gpc,      \* where the gathering goroutine is
    spc,      \* where the saving goroutine is
    snapshot, \* the peers wg-quick save has read
    excused   \* history: peers a failed save should have written

updateVars == <<upc, peers>>
chanVars   == <<saveCh, queueCh>>
gatherVars == <<pending, timer, gpc>>
saverVars  == <<file, spc, snapshot, excused>>
wgSaverVars == <<updateVars, started, stopped, chanVars, gatherVars, saverVars>>

SaverTypeOK ==
    /\ upc \in [Updates -> {"set", "schedule", "full", "again", "ok", "error"}]
    /\ peers \subseteq Updates
    /\ file \subseteq Updates
    /\ started \in BOOLEAN
    /\ stopped \in BOOLEAN
    /\ saveCh \in 0..SaveCap
    /\ queueCh \in 0..SaveCap
    /\ pending \in BOOLEAN
    /\ timer \in {"none", "running", "fired"}
    /\ gpc \in {"absent", "select", "forward", "clear", "exited"}
    /\ spc \in {"absent", "select", "reading", "writing", "exited"}
    /\ snapshot \subseteq Updates
    /\ excused \subseteq Updates

SaverInit ==
    /\ upc = [r \in Updates |-> "set"]
    /\ peers = {}
    /\ file = {}
    /\ started = FALSE
    /\ stopped = FALSE
    /\ saveCh = 0
    /\ queueCh = 0
    /\ pending = FALSE
    /\ timer = "none"
    /\ gpc = "absent"
    /\ spc = "absent"
    /\ snapshot = {}
    /\ excused = {}

UpdateGoTo(r, place) == upc' = [upc EXCEPT ![r] = place]

-----------------------------------------------------------------------------
(* The workers *)

(***************************************************************************)
(* updatewg runs wg set.  The command may be killed with the job's context *)
(* or fail, and then the kernel has the peer or not.                       *)
(***************************************************************************)
SetPeer(r) ==
    /\ upc[r] = "set"
    /\ \/ peers' = peers \cup {r} /\ UpdateGoTo(r, "schedule")
       \/ peers' \in {peers, peers \cup {r}} /\ UpdateGoTo(r, "error")
    /\ UNCHANGED <<started, stopped, chanVars, gatherVars, saverVars>>

(***************************************************************************)
(* scheduleWGPersist: start the goroutines the first time, and send, if    *)
(* there is room.                                                          *)
(***************************************************************************)
Schedule(r) ==
    /\ upc[r] = "schedule"
    /\ started' = TRUE
    /\ gpc' = IF started THEN gpc ELSE "select"
    /\ spc' = IF started THEN spc ELSE "select"
    /\ \/ /\ saveCh < SaveCap
          /\ saveCh' = saveCh + 1
          /\ UpdateGoTo(r, "ok")
       \/ /\ saveCh = SaveCap
          /\ UpdateGoTo(r, "full")
          /\ UNCHANGED saveCh
    /\ UNCHANGED <<peers, stopped, queueCh, pending, timer, file, snapshot,
                   excused>>

(* Mutant of DropOldest: there is no second attempt to send. *)
DropAndLeave(r) ==
    /\ upc[r] = "full"
    /\ saveCh' = IF saveCh > 0 THEN saveCh - 1 ELSE saveCh
    /\ UpdateGoTo(r, "ok")
    /\ UNCHANGED <<peers, started, stopped, queueCh, gatherVars, saverVars>>

(* The channel was full: take one request out, if there still is one. *)
DropOldest(r) ==
    /\ upc[r] = "full"
    /\ saveCh' = IF saveCh > 0 THEN saveCh - 1 ELSE saveCh
    /\ UpdateGoTo(r, "again")
    /\ UNCHANGED <<peers, started, stopped, queueCh, gatherVars, saverVars>>

(* Send again; if the channel is full again, log it. *)
SendAgain(r) ==
    /\ upc[r] = "again"
    /\ saveCh' = IF saveCh < SaveCap THEN saveCh + 1 ELSE saveCh
    /\ UpdateGoTo(r, "ok")
    /\ UNCHANGED <<peers, started, stopped, queueCh, gatherVars, saverVars>>

-----------------------------------------------------------------------------
(* The gathering goroutine *)

(* Mutant of Gather: the timer is stopped, but not reset. *)
GatherStopsTimer ==
    /\ gpc = "select"
    /\ saveCh > 0
    /\ saveCh' = saveCh - 1
    /\ pending' = TRUE
    /\ timer' = IF timer = "none" THEN "running" ELSE "none"
    /\ UNCHANGED <<updateVars, started, stopped, queueCh, gpc, saverVars>>

(* It receives a request: an entry in pending, and a new second to wait. *)
Gather ==
    /\ gpc = "select"
    /\ saveCh > 0
    /\ saveCh' = saveCh - 1
    /\ pending' = TRUE
    /\ timer' = "running"
    /\ UNCHANGED <<updateVars, started, stopped, queueCh, gpc, saverVars>>

(* Time passes. *)
TimerFires ==
    /\ timer = "running"
    /\ timer' = "fired"
    /\ UNCHANGED <<updateVars, started, stopped, chanVars, pending, gpc,
                   saverVars>>

ReceiveTimer ==
    /\ gpc = "select"
    /\ timer = "fired"
    /\ gpc' = "forward"
    /\ UNCHANGED <<updateVars, started, stopped, chanVars, pending, timer,
                   saverVars>>

(* It sends what is pending on, waiting for room in the queue. *)
Forward ==
    /\ gpc = "forward"
    /\ queueCh < SaveCap
    /\ queueCh' = IF pending THEN queueCh + 1 ELSE queueCh
    /\ gpc' = "clear"
    /\ UNCHANGED <<updateVars, started, stopped, saveCh, pending, timer,
                   saverVars>>

Clear ==
    /\ gpc = "clear"
    /\ pending' = FALSE
    /\ timer' = "none"
    /\ gpc' = "select"
    /\ UNCHANGED <<updateVars, started, stopped, chanVars, saverVars>>

(* wgSaveStopCh is closed, and select chooses it. *)
GatherExit ==
    /\ gpc \in {"select", "forward"}
    /\ stopped
    /\ gpc' = "exited"
    /\ timer' = "none"
    /\ pending' = FALSE
    /\ UNCHANGED <<updateVars, started, stopped, chanVars, saverVars>>

-----------------------------------------------------------------------------
(* The saving goroutine *)

TakeRequest ==
    /\ spc = "select"
    /\ queueCh > 0
    /\ queueCh' = queueCh - 1
    /\ spc' = "reading"
    /\ UNCHANGED <<updateVars, started, stopped, saveCh, gatherVars, file,
                   snapshot, excused>>

(* wg-quick save, external: it asks the kernel for the peers ... *)
ReadPeers ==
    /\ spc = "reading"
    /\ snapshot' = peers
    /\ spc' = "writing"
    /\ UNCHANGED <<updateVars, started, stopped, chanVars, gatherVars, file,
                   excused>>

(* ... and replaces the configuration file. *)
WriteFile ==
    /\ spc = "writing"
    /\ file' = snapshot
    /\ snapshot' = {}
    /\ spc' = "select"
    /\ excused' = excused \ snapshot
    /\ UNCHANGED <<updateVars, started, stopped, chanVars, gatherVars>>

(***************************************************************************)
(* It fails, or is killed after wgSaveTimeout.  The error is logged, and   *)
(* the request is not tried again.                                         *)
(***************************************************************************)
SaveFails ==
    /\ spc \in {"reading", "writing"}
    /\ excused' = excused \cup
          ((IF spc = "reading" THEN peers ELSE snapshot) \ file)
    /\ snapshot' = {}
    /\ spc' = "select"
    /\ UNCHANGED <<updateVars, started, stopped, chanVars, gatherVars, file>>

(* Mutant of SaverExit: it waits for the other goroutine, which may be gone. *)
SaverExitsWhenIdle ==
    /\ spc = "select"
    /\ stopped
    /\ gpc = "select"
    /\ spc' = "exited"
    /\ UNCHANGED <<updateVars, started, stopped, chanVars, gatherVars, file,
                   snapshot, excused>>

SaverExit ==
    /\ spc = "select"
    /\ stopped
    /\ spc' = "exited"
    /\ UNCHANGED <<updateVars, started, stopped, chanVars, gatherVars, file,
                   snapshot, excused>>

-----------------------------------------------------------------------------
(***************************************************************************)
(* main calls stopWGSaver last; a worker that it did not wait for any      *)
(* longer may still be at work.  Before startWGSaver it does nothing.      *)
(***************************************************************************)
StopWGSaver ==
    /\ started
    /\ ~ stopped
    /\ stopped' = TRUE
    /\ UNCHANGED <<updateVars, started, chanVars, gatherVars, saverVars>>

Update(r) == SetPeer(r) \/ Schedule(r) \/ DropOldest(r) \/ SendAgain(r)
Gatherer  == Gather \/ ReceiveTimer \/ Forward \/ Clear \/ GatherExit
Saver     == TakeRequest \/ ReadPeers \/ WriteFile \/ SaveFails \/ SaverExit

SaverNext ==
    \/ \E r \in Updates : Update(r)
    \/ Gatherer \/ TimerFires \/ Saver
    \/ StopWGSaver

SaverSpec == SaverInit /\ [][SaverNext]_wgSaverVars

(***************************************************************************)
(* Goroutines that can run are run, timers fire, and wg-quick save ends,   *)
(* because it has a timeout.  Nobody has to stop the server.               *)
(***************************************************************************)
SaverFairSpec ==
    /\ SaverSpec
    /\ \A r \in Updates :
          WF_wgSaverVars(Schedule(r) \/ DropOldest(r) \/ SendAgain(r))
    /\ WF_wgSaverVars(Gatherer)
    /\ WF_wgSaverVars(TimerFires)
    /\ WF_wgSaverVars(Saver)

-----------------------------------------------------------------------------
(* Properties *)

Scheduled == {r \in Updates : upc[r] = "ok"}

(* A save that will read the peers as they are now, or later, is on its way. *)
SaveDue ==
    \/ saveCh > 0
    \/ pending /\ gpc # "clear"
    \/ queueCh > 0
    \/ spc = "reading"
    \/ \E r \in Updates : upc[r] = "again"

(***************************************************************************)
(* No peer that was set and scheduled is forgotten, although requests are  *)
(* dropped when the channel is full, merged while the timer runs and not   *)
(* retried: it is in the file or in what is being written, a save that     *)
(* will include it is due, a save that should have failed, or the saver    *)
(* has been stopped.                                                       *)
(***************************************************************************)
NoSaveForgotten ==
    \/ stopped
    \/ \A r \in Scheduled \ (file \cup excused) :
          SaveDue \/ (spc = "writing" /\ r \in snapshot)

(***************************************************************************)
(* A scheduled peer gets into the file, unless a save fails or the server  *)
(* is stopped: the debounce timer is not put off for ever by a finite      *)
(* number of requests, and neither goroutine waits for the other for ever. *)
(***************************************************************************)
PeersSaved ==
    \A r \in Updates : r \in Scheduled ~> r \in file \cup excused \/ stopped

(* Once stopped, both goroutines end, even one that waits for the other. *)
StopEnds == stopped ~> gpc = "exited" /\ spc = "exited"
=============================================================================
