------------------------------ MODULE ClientIP ------------------------------
(***************************************************************************)
(* Whose request is it?  clientIP and isTrustedProxy of the two servers    *)
(* (tincver/http_.go, and the same code in src/esa/http_.go) look past the *)
(* proxies the operator trusts, at what these put into the headers.        *)
(*                                                                         *)
(* An address stands for its text; a header field that is no address is    *)
(* Junk, an empty header Junk or <<>>.                                     *)
(***************************************************************************)
EXTENDS Sequences, FiniteSetsExt

CONSTANTS IPs,              \* texts that net.ParseIP takes
          Junk,             \* a text it does not take
          TrustedProxyIPs,  \* trustedProxyIPs: addresses trusted by themselves
          TrustedProxyNets, \* trustedProxyNets: sets of addresses
          Lines,            \* bound: header lines that clients write
          Chains            \* bound: trusted proxies before the last one

Texts == IPs \cup {Junk}

IsTrustedProxy(ip) ==
    ip \in TrustedProxyIPs \/ \E n \in TrustedProxyNets : ip \in n

TrustedProxies == {ip \in IPs : IsTrustedProxy(ip)}

ASSUME TrustOK ==
    /\ Junk \notin IPs
    /\ TrustedProxyIPs \subseteq IPs
    /\ \A n \in TrustedProxyNets : n \subseteq IPs
    /\ \A line \in Lines : line \in Seq(Texts)
    /\ \A chain \in Chains : chain \in Seq(TrustedProxies)

(* A candidate of a header that clientIP settles for. *)
Outside(text) == text \in IPs /\ ~ IsTrustedProxy(text)

(***************************************************************************)
(* A request as the server gets it: the address the connection comes from, *)
(* the lines of X-Forwarded-For, each with its fields, and X-Real-IP.      *)
(* Header.Get returns the first of several lines, and "" if there is none. *)
(***************************************************************************)
Get(lines) == IF lines = <<>> THEN <<>> ELSE lines[1]

Forwarded(req) == Get(req.forwarded)

Hops(req) == {i \in DOMAIN Forwarded(req) : Outside(Forwarded(req)[i])}

(* Mutant of ClientIP: the fields are read in their order. *)
ClientIPFromTheLeft(req) ==
    IF ~ IsTrustedProxy(req.peer) THEN req.peer
    ELSE IF Hops(req) # {} THEN Forwarded(req)[Min(Hops(req))]
    ELSE IF Outside(req.realIP) THEN req.realIP
    ELSE req.peer

(***************************************************************************)
(* The last address in X-Forwarded-For that is no proxy, or else           *)
(* X-Real-IP, but only when the peer is a proxy.                           *)
(***************************************************************************)
ClientIP(req) ==
    IF ~ IsTrustedProxy(req.peer) THEN req.peer
    ELSE IF Hops(req) # {} THEN Forwarded(req)[Max(Hops(req))]
    ELSE IF Outside(req.realIP) THEN req.realIP
    ELSE req.peer

-----------------------------------------------------------------------------
(***************************************************************************)
(* External: what the server gets of a client's request where the proxies  *)
(* are set up for a server that reads the headers so.  The client may have *)
(* written headers of its own.  Either every proxy appends the address of  *)
(* its peer to X-Forwarded-For, in one line; or the first one drops that   *)
(* header and sets X-Real-IP, and those behind it append.                  *)
(*                                                                         *)
(* Not received: a proxy that sets X-Real-IP and passes on the client's    *)
(* X-Forwarded-For, or one that adds a line of its own below the client's. *)
(* There ClientIP returns what the first line says, and the operator has   *)
(* to configure the proxy.                                                 *)
(***************************************************************************)
Headers == {<<>>} \cup {<<l>> : l \in Lines} \cup {<<l, m>> : l, m \in Lines}

Direct(client) ==
    {[peer |-> client, forwarded |-> h, realIP |-> x] : h \in Headers, x \in Texts}

Appended(client) ==
    {[peer |-> p, forwarded |-> <<line \o <<client>> \o chain>>, realIP |-> x] :
        p \in TrustedProxies, line \in Lines, chain \in Chains, x \in Texts}

Replaced(client) ==
    {[peer |-> p, forwarded |-> h, realIP |-> client] :
        p \in TrustedProxies, h \in {<<>>} \cup {<<chain>> : chain \in Chains}}

Received(client) == Direct(client) \cup Appended(client) \cup Replaced(client)
=============================================================================
