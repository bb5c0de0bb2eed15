---------------------------- MODULE Registration ----------------------------
(***************************************************************************)
(* What the registration servers promise their clients, with no handlers,  *)
(* queue, workers, tokens or shutdown in sight: a client asks for its      *)
(* public key to be registered under its user name, at most one key per    *)
(* user is settled at a time, and the client is given at most one answer.  *)
(*                                                                         *)
(* A request stands for its public key: settled[u] = r says that the host  *)
(* file of user u (tinc) or the peer with the address of user u            *)
(* (WireGuard) has the key request r carried.  The tinc server registers   *)
(* keys in an order its clients can understand, the WireGuard server may   *)
(* not: see Register.                                                      *)
(***************************************************************************)
CONSTANTS Requests,   \* the requests clients send
          Users,      \* the user names
          UserOf,     \* UserOf[r] is the user request r authenticates as
          InOrder,    \* does no key replace that of a newer request?
          NoRequest   \* no key of any request

VARIABLES asked,      \* requests the server has begun to serve
          closed,     \* requests the server has finished with
          answer,     \* what the client of a request was told
          before,     \* before[r]: the requests closed when r was asked
          settled,    \* settled[u]: whose key is in force for user u
          registered  \* requests whose key has been in force

vars == <<asked, closed, answer, before, settled, registered>>

Answers == {"config", "rejected", "unknown"}

(***************************************************************************)
(* r is outdated once a request of its user that was asked after r had     *)
(* been closed is registered.                                              *)
(***************************************************************************)
Outdated(r) == \E q \in registered : UserOf[q] = UserOf[r] /\ r \in before[q]

Init ==
    /\ asked = {}
    /\ closed = {}
    /\ answer = [r \in Requests |-> "none"]
    /\ before = [r \in Requests |-> {}]
    /\ settled = [u \in Users |-> NoRequest]
    /\ registered = {}

(* A request arrives. *)
Ask(r) ==
    /\ r \notin asked
    /\ asked' = asked \cup {r}
    /\ before' = [before EXCEPT ![r] = closed]
    /\ UNCHANGED <<closed, answer, settled, registered>>

(***************************************************************************)
(* The key of r comes into force.  This may still happen after the client  *)
(* was told "unknown", never after it was rejected, and, if keys are       *)
(* registered in order, never over the key of a request that was made      *)
(* after r was closed.                                                     *)
(***************************************************************************)
Register(r) ==
    /\ r \in asked
    /\ r \notin registered
    /\ answer[r] # "rejected"
    /\ InOrder => ~ Outdated(r)
    /\ settled' = [settled EXCEPT ![UserOf[r]] = r]
    /\ registered' = registered \cup {r}
    /\ UNCHANGED <<asked, closed, answer, before>>

(* A file system fault during an update leaves user u without a key. *)
Lose(u) ==
    /\ settled' = [settled EXCEPT ![u] = NoRequest]
    /\ UNCHANGED <<asked, closed, answer, before, registered>>

(***************************************************************************)
(* The client is answered and the request closed: "config" only for a      *)
(* registered key, "rejected" only for one that is not.                    *)
(***************************************************************************)
Close(r, a) ==
    /\ r \in asked \ closed
    /\ a = "config" => r \in registered
    /\ a = "rejected" => r \notin registered
    /\ closed' = closed \cup {r}
    /\ answer' = [answer EXCEPT ![r] = a]
    /\ UNCHANGED <<asked, before, settled, registered>>

Next ==
    \/ \E r \in Requests : Ask(r) \/ Register(r)
    \/ \E r \in Requests, a \in Answers : Close(r, a)
    \/ \E u \in Users : Lose(u)

Spec == Init /\ [][Next]_vars
=============================================================================
