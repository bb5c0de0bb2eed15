---------------------------- MODULE MCNonceStore ----------------------------
(* Instances of NonceStore for TLC. *)
EXTENDS NonceStore, TLC

CONSTANTS h1, h2, h3,  \* three deliveries,
          m1, m2,      \* the first two of the message m1
          k1, k2       \* the keys of the two messages

MCMessageOf == [h \in Handlers |-> IF h = h3 THEN m2 ELSE m1]
MCKeyOf == m1 :> k1 @@ m2 :> k2

(* m1 is signed at tick 1, m2 at tick 2. *)
MCTimestampOf == m1 :> 1 @@ m2 :> 2

(* The two deliveries of m1 are interchangeable. *)
MCSymmetry == Permutations({h1, h2})
=============================================================================
