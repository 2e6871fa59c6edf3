---------------------------- MODULE MCHandshake ----------------------------
(* Instances of Handshake for TLC: one or two connections.                 *)
EXTENDS Handshake, TLC

CONSTANTS c1, c2, a, b, s

Topology(i1, r1, i2, r2) ==
    <<c1, "I">> :> i1 @@ <<c1, "R">> :> r1 @@ <<c2, "I">> :> i2 @@ <<c2, "R">> :> r2

Owned(t) == [presents |-> t, holds |-> t]

\* One client at two servers; two clients at one server; two peers that dial
\* each other; one client that dials one server twice; and a server, then a
\* client, that presents an identity it does not own.
MCTopologies ==
    {Owned(Topology(a, s, a, b)), Owned(Topology(a, s, b, s)),
     Owned(Topology(a, b, b, a)), Owned(Topology(a, s, a, s)),
     [presents |-> Topology(a, s, a, s), holds |-> Topology(a, s, a, b)],
     [presents |-> Topology(a, s, a, s), holds |-> Topology(a, s, b, s)]}

\* Every endpoint with and without a timeout, and none with one.
MCAllTimeouts == [Endpoints -> BOOLEAN]

MCNoTimeout == {[e \in Endpoints |-> FALSE]}

\* A single connection.
OneConn(i, r) == <<c1, "I">> :> i @@ <<c1, "R">> :> r

MCOneConnTopologies ==
    {Owned(OneConn(a, s)), Owned(OneConn(a, a)),
     [presents |-> OneConn(a, s), holds |-> OneConn(a, b)]}
=============================================================================
