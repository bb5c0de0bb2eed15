---------------------------- MODULE MCAuthServer ----------------------------
(* Instances of AuthServer for TLC. *)
EXTENDS AuthServer, TLC

CONSTANTS alice, bob,  \* users; bob is not in the user configuration file
          BobsRequests \* every other request is alice's

MCUserOf == [r \in Requests |-> IF r \in BobsRequests THEN bob ELSE alice]

(* Workers are interchangeable, and so are the requests of one user. *)
MCSymmetry == Permutations(Workers) \cup Permutations(Requests \ BobsRequests)
=============================================================================
