------------------------------ MODULE MCWgServer ------------------------------
(* Instances of WgServer for TLC. *)
EXTENDS WgServer, TLC

CONSTANTS alice, bob,  \* users; bob has no address in the configuration
          BobsRequests \* every other request is alice's

MCUserOf == [r \in Requests |-> IF r \in BobsRequests THEN bob ELSE alice]

(* Workers are interchangeable, and so are the requests of one user. *)
MCSymmetry == Permutations(Workers) \cup Permutations(Requests \ BobsRequests)
===============================================================================
