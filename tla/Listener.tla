------------------------------ MODULE Listener ------------------------------
(***************************************************************************)
(* Dial and Accept (dial.go, listen.go): goroutines of a server that call  *)
(* Listener.Accept in a loop, which runs each handshake inline; clients    *)
(* that reach it through Dial; and peers that connect but send a frame     *)
(* that fails the handshake, or nothing at all.  What a handshake exchanges*)
(* is module Handshake's subject: here it is an init that is good or bad   *)
(* and a response.  The kernel's accept queue is external.                 *)
(***************************************************************************)
EXTENDS Integers, Sequences, FiniteSets

CONSTANTS
    Clients,    \* raw connections to the listener, named by who makes them
    Acceptors,  \* goroutines calling Accept
    None,       \* an acceptor between connections
    Stopped,    \* an acceptor whose Accept failed: the listener is closed
    Backlog,    \* length of the kernel's accept queue
    Timeouts    \* the HandshakeTimeouts tried: [client, server : BOOLEAN],
                \* TRUE for a positive one

ASSUME ListenerAssumption ==
    /\ {None, Stopped} \cap Clients = {}
    /\ None # Stopped
    /\ Backlog \in Nat \ {0}
    /\ Timeouts \subseteq [client : BOOLEAN, server : BOOLEAN]

VARIABLES
    timeout,    \* whether Config.HandshakeTimeout > 0 at either end
    kind,       \* "dial" (our Dial), "bad" or "silent"
    cst,        \* the client's side: "idle", "dialing", "connected",
                \* "wait", "done" or "failed"
    sst,        \* the server's side: "none", "queued", "wait", "done", "failed"
    init,       \* the init frame in transit: "none", "good" or "bad"
    resp,       \* the response is in transit
    cRaw, sRaw, \* clients whose raw connection is open at either end
    cArmed, sArmed,   \* clients whose raw connection has a deadline armed
    queue,      \* the kernel's accept queue
    acc,        \* the connection each acceptor is handshaking
    listening   \* the raw listener is open

cvars == <<cst, init, cRaw, cArmed>>
svars == <<sst, resp, sRaw, sArmed, acc>>
vars  == <<timeout, kind, cvars, svars, queue, listening>>

Init ==
    /\ timeout \in Timeouts
    /\ kind \in [Clients -> {"dial", "bad", "silent"}]
    /\ cst = [c \in Clients |-> "idle"]
    /\ sst = [c \in Clients |-> "none"]
    /\ init = [c \in Clients |-> "none"]
    /\ resp = {}
    /\ cRaw = {}
    /\ sRaw = {}
    /\ cArmed = {}
    /\ sArmed = {}
    /\ queue = <<>>
    /\ acc = [g \in Acceptors |-> None]
    /\ listening = TRUE

(***************************************************************************)
(* The client.                                                             *)
(***************************************************************************)
Dial(c) ==
    /\ cst[c] = "idle"
    /\ cst' = [cst EXCEPT ![c] = "dialing"]
    /\ UNCHANGED <<timeout, kind, init, cRaw, cArmed, svars, queue, listening>>

\* The deadline of a handshake is armed when a timeout is configured.
ArmNever(armed, on, c) == armed    \* mutant: no deadline

Arm(armed, on, c) == IF on THEN armed \cup {c} ELSE armed

\* DialContext succeeds: the kernel queues the connection, and clientHandshake
\* arms the deadline.
Connect(c) ==
    /\ cst[c] = "dialing"
    /\ listening
    /\ Len(queue) < Backlog
    /\ queue' = Append(queue, c)
    /\ cst' = [cst EXCEPT ![c] = "connected"]
    /\ sst' = [sst EXCEPT ![c] = "queued"]
    /\ cRaw' = cRaw \cup {c}
    /\ sRaw' = sRaw \cup {c}
    /\ cArmed' = Arm(cArmed, timeout.client, c)
    /\ UNCHANGED <<timeout, kind, init, resp, sArmed, acc, listening>>

\* DialContext fails: refused, the context is done, or the kernel gives up.
DialFails(c) ==
    /\ cst[c] = "dialing"
    /\ cst' = [cst EXCEPT ![c] = "failed"]
    /\ UNCHANGED <<timeout, kind, init, cRaw, cArmed, svars, queue, listening>>

SendInit(c) ==
    /\ cst[c] = "connected"
    /\ kind[c] # "silent"
    /\ init' = [init EXCEPT ![c] = IF kind[c] = "bad" THEN "bad" ELSE "good"]
    /\ cst' = [cst EXCEPT ![c] = "wait"]
    /\ UNCHANGED <<timeout, kind, cRaw, cArmed, svars, queue, listening>>

DisarmNever(armed, c) == armed    \* mutant: the deadline is not cleared

\* The deferred SetDeadline(time.Time{}).
Disarm(armed, c) == armed \ {c}

\* The response arrives, and clientHandshake returns the channel.
ClientDone(c) ==
    /\ cst[c] = "wait"
    /\ c \in resp
    /\ cst' = [cst EXCEPT ![c] = "done"]
    /\ resp' = resp \ {c}
    /\ cArmed' = Disarm(cArmed, c)
    /\ UNCHANGED <<timeout, kind, init, cRaw, sst, sRaw, sArmed, acc, queue,
                   listening>>

CloseRawNever(raw, c) == raw    \* mutant: the raw connection is left open

CloseRaw(raw, c) == raw \ {c}

\* clientHandshake returns an error and closes the raw connection.
ClientReturnsError(c) ==
    /\ cst' = [cst EXCEPT ![c] = "failed"]
    /\ cRaw' = CloseRaw(cRaw, c)
    /\ cArmed' = Disarm(cArmed, c)
    /\ UNCHANGED <<timeout, kind, init, svars, queue, listening>>

\* The server closed the connection without a response.
ClientEOF(c) ==
    /\ cst[c] \in {"connected", "wait"}
    /\ c \notin sRaw \cup resp
    /\ ClientReturnsError(c)

\* A deadline expires wherever it is armed, under an established channel too.
ClientExpires(c) ==
    /\ c \in cArmed
    /\ ClientReturnsError(c)

\* A peer that is not ours may leave at any time.
PeerLeaves(c) ==
    /\ cst[c] \in {"connected", "wait"}
    /\ kind[c] # "dial"
    /\ ClientReturnsError(c)

(***************************************************************************)
(* The server.                                                             *)
(***************************************************************************)
\* Accept takes the next connection, and serverHandshake arms its deadline.
Accept(g) ==
    /\ acc[g] = None
    /\ queue # <<>>
    /\ acc' = [acc EXCEPT ![g] = Head(queue)]
    /\ queue' = Tail(queue)
    /\ sst' = [sst EXCEPT ![Head(queue)] = "wait"]
    /\ sArmed' = Arm(sArmed, timeout.server, Head(queue))
    /\ UNCHANGED <<timeout, kind, cvars, resp, sRaw, listening>>

\* The listener is closed: raw.Accept fails and the caller's loop ends.
AcceptFails(g) ==
    /\ acc[g] = None
    /\ ~listening
    /\ acc' = [acc EXCEPT ![g] = Stopped]
    /\ UNCHANGED <<timeout, kind, cvars, sst, resp, sRaw, sArmed, queue,
                   listening>>

\* Accept returns, with the channel or with an error; the caller, as its
\* comment asks, calls it again.
AcceptReturns(c, outcome) ==
    /\ acc' = [g \in Acceptors |-> IF acc[g] = c THEN None ELSE acc[g]]
    /\ sst' = [sst EXCEPT ![c] = outcome]
    /\ sArmed' = Disarm(sArmed, c)
    /\ UNCHANGED <<timeout, kind, cvars, queue, listening>>

\* The response is written: to a peer that has gone, too, as far as TCP knows.
Respond(c) ==
    /\ sst[c] = "wait"
    /\ init[c] = "good"
    /\ resp' = resp \cup {c}
    /\ AcceptReturns(c, "done")
    /\ UNCHANGED sRaw

AcceptReturnsError(c) ==
    /\ sRaw' = CloseRaw(sRaw, c)
    /\ AcceptReturns(c, "failed")
    /\ UNCHANGED resp

\* The init fails a check, or the peer has closed.
HandshakeFails(c) ==
    /\ sst[c] = "wait"
    /\ init[c] = "bad" \/ c \notin cRaw
    /\ AcceptReturnsError(c)

ServerExpires(c) ==
    /\ c \in sArmed
    /\ AcceptReturnsError(c)

\* Listener.Close.  The kernel resets what is still in its queue; handshakes in
\* progress go on.
Close ==
    /\ listening
    /\ listening' = FALSE
    /\ queue' = <<>>
    /\ sRaw' = {c \in sRaw : sst[c] # "queued"}
    /\ sst' = [c \in Clients |-> IF sst[c] = "queued" THEN "failed" ELSE sst[c]]
    /\ UNCHANGED <<timeout, kind, cvars, resp, sArmed, acc>>

-----------------------------------------------------------------------------
DialStep(c) == Connect(c) \/ SendInit(c) \/ ClientDone(c) \/ ClientEOF(c)

HandshakeStep(c) == Respond(c) \/ HandshakeFails(c)

AcceptStep(g) == Accept(g) \/ AcceptFails(g)

Next ==
    \/ \E c \in Clients : \/ Dial(c)
                          \/ DialStep(c)
                          \/ DialFails(c)
                          \/ ClientExpires(c)
                          \/ PeerLeaves(c)
                          \/ HandshakeStep(c)
                          \/ ServerExpires(c)
    \/ \E g \in Acceptors : AcceptStep(g)
    \/ Close

Spec == Init /\ [][Next]_vars

\* Goroutines run, armed deadlines expire, and the kernel gives up connecting.
\* No peer is obliged to send anything or to leave, and nobody has to close the
\* listener.
FairSpec ==
    /\ Spec
    /\ \A c \in Clients : /\ WF_vars(DialStep(c))
                          /\ WF_vars(DialFails(c))
                          /\ WF_vars(ClientExpires(c))
                          /\ WF_vars(HandshakeStep(c))
                          /\ WF_vars(ServerExpires(c))
    /\ \A g \in Acceptors : WF_vars(AcceptStep(g))

-----------------------------------------------------------------------------
\* A channel that Dial or Accept returned is never taken down by the deadline
\* of its handshake, whichever end configured one and however late it expires.
EstablishedStays ==
    [][\A c \in Clients : /\ cst[c] = "done" => cst'[c] = "done"
                          /\ sst[c] = "done" => sst'[c] = "done"]_vars

\* No raw connection outlives its handshake unless somebody got a channel on
\* it: whichever side fails, for whatever reason, closes its end, and a peer
\* that connected is in the queue, with an acceptor, or closed.
NoLeak ==
    /\ \A c \in sRaw : \/ sst[c] = "done"
                       \/ \E i \in 1..Len(queue) : queue[i] = c
                       \/ \E g \in Acceptors : acc[g] = c
    /\ \A c \in cRaw : cst[c] \in {"connected", "wait", "done"}

SilentHeld == \E g \in Acceptors : acc[g] \in Clients /\ kind[acc[g]] = "silent"

\* Every Dial returns.  Accept handshakes one connection at a time, so a silent
\* peer holds up everyone behind it, but a HandshakeTimeout at either end is
\* enough to release them; with none, only a silent peer can hold a Dial up.
EveryDialReturns ==
    \A c \in Clients :
        cst[c] = "dialing" /\ kind[c] = "dial" ~>
            \/ cst[c] \in {"done", "failed"}
            \/ SilentHeld /\ ~timeout.client /\ ~timeout.server
=============================================================================
