------------------------------ MODULE HostStore ------------------------------
(***************************************************************************)
(* What one update of a host file looks like from outside updateTinc: the  *)
(* file changes in one step, a transaction stays open while tinc reloads,  *)
(* and it ends with the new content or with the old one.  Errors of the    *)
(* file system may leave another of these contents or no file, and a crash *)
(* may bring an earlier content back, but the file is never anything else. *)
(* These are the steps WriteHost, WriteFails, Commit and ReloadFails of    *)
(* AuthServer, for one user.                                               *)
(***************************************************************************)
CONSTANTS Keys,    \* contents of the file
          Absent   \* there is no file

VARIABLES open,    \* is a transaction open?
          file,    \* content of the file
          saved,   \* content before the open transaction
          held     \* every content the file has had

vars == <<open, file, saved, held>>

Init ==
    /\ open = FALSE
    /\ file \in Keys \cup {Absent}
    /\ saved = Absent
    /\ held = {file}

Write(k) ==
    /\ ~ open
    /\ open' = TRUE
    /\ saved' = file
    /\ file' = k
    /\ held' = held \cup {k}

WriteFails ==
    /\ ~ open
    /\ file' \in {file, Absent}
    /\ UNCHANGED <<open, saved, held>>

Commit ==
    /\ open
    /\ open' = FALSE
    /\ saved' = Absent
    /\ UNCHANGED <<file, held>>

Rollback ==
    /\ open
    /\ open' = FALSE
    /\ saved' = Absent
    /\ file' \in {saved, file, Absent}
    /\ UNCHANGED held

Crash ==
    /\ open' = FALSE
    /\ saved' = Absent
    /\ file' \in held \cup {Absent}
    /\ UNCHANGED held

Next == (\E k \in Keys : Write(k)) \/ WriteFails \/ Commit \/ Rollback \/ Crash

Spec == Init /\ [][Next]_vars
=============================================================================
