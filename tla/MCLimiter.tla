------------------------------ MODULE MCLimiter ------------------------------
(* Instances of Limiter for TLC. *)
EXTENDS Limiter, TLC

CONSTANTS a, b, c,  \* addresses of clients
          p, q      \* addresses of proxies

MCNets == {{q}}

(* Up to two fields of the client's, up to two proxies before the last. *)
MCLines == UNION {[1..n -> {a, b, c, p, q, Junk}] : n \in 0..2}
MCChains == UNION {[1..n -> {p, q}] : n \in 0..2}

(* Any request may come from any client, directly or not. *)
MCSymmetry == Permutations(Handlers) \cup Permutations({a, b, c})
=============================================================================
