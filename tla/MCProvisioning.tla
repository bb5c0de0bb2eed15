--------------------------- MODULE MCProvisioning ---------------------------
(* A small instance of Provisioning. *)
EXTENDS Provisioning, TLC

CONSTANTS a, b, x, y

MCNames  == {a, b}
MCHashes == {x, y}

(***************************************************************************)
(* IPv4: /31, /30 with room for one and /29.  IPv6: /127 without room and  *)
(* /126.                                                                   *)
(***************************************************************************)
MCSubnets == [v4 : BOOLEAN, size : {2, 4}] \cup {[v4 |-> TRUE, size |-> 8]}

MCSymmetry == Permutations(MCNames) \cup Permutations(MCHashes)
=============================================================================
