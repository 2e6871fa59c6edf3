----------------------------- MODULE Handshake -----------------------------
(***************************************************************************)
(* The 1-RTT mutual-authentication handshake (handshake.go) over several   *)
(* connections at once, with the identity signatures (identity.go), the    *)
(* X-Wing KEM (kem.go), the identity payload sealed with aeadSeal, and the *)
(* channel keys newConn takes from the result (channel.go).  An endpoint   *)
(* is a connection and a role, "I" (initiator) or "R" (responder).         *)
(*                                                                         *)
(* Cryptography is symbolic and ideal: a signature verifies only over what *)
(* its signer signed, a sealed payload opens only under its own key and    *)
(* associated data, and secrets are equal only when their inputs are.      *)
(*                                                                         *)
(* The network delivers frames in order on each connection, may deliver a  *)
(* frame again or on another connection, may damage a part of one, its     *)
(* length included, and may lose bytes.                                    *)
(***************************************************************************)
EXTENDS Integers, Sequences, FiniteSets

CONSTANTS
    Conns,          \* raw connections, each with an initiator and a responder
    Ids,            \* identities: key pairs for Ed25519, ML-DSA and X-Wing
    None,           \* no pin, no peer, no secret yet
    Topologies,     \* what each endpoint presents and holds (see Init)
    Timeouts,       \* which endpoints set Config.HandshakeTimeout (see Init)
    MaxFaults,      \* bound: frames repeated, misdelivered, damaged or lost
    MaxFailures     \* bound: I/O errors and encapsulations that fail

Roles     == {"I", "R"}
Endpoints == Conns \X Roles
Peer(e)   == <<e[1], IF e[2] = "I" THEN "R" ELSE "I">>

ASSUME HandshakeAssumption ==
    /\ None \notin Ids
    /\ Topologies \subseteq [presents : [Endpoints -> Ids],
                             holds : [Endpoints -> Ids]]
    /\ Timeouts \subseteq [Endpoints -> BOOLEAN]
    /\ MaxFaults \in Nat
    /\ MaxFailures \in Nat

VARIABLES
    local,      \* the identity each endpoint presents as its own
    holds,      \* the identity whose private keys it has: local, unless the
                \* endpoint is a peer that does not own what it presents
    pin,        \* Config.ExpectedRemote of each endpoint, or None
    timeout,    \* whether Config.HandshakeTimeout of each endpoint is positive
    st,         \* "start", "wait", "done" or "failed"
    remote,     \* handshakeResult.remote
    shared,     \* handshakeResult.shared
    took,       \* the handshake frame each endpoint completed on (history)
    inbox,      \* frames on their way to each endpoint
    sent,       \* every frame written to any connection (history)
    wrote,      \* endpoints that have written their first record
    opened,     \* records opened: at which endpoint, from which (history)
    short,      \* endpoints that were to read more bytes than came (history)
    faults, failures

config == <<local, holds, pin, timeout>>
vars   == <<config, st, remote, shared, took, inbox, sent, wrote, opened,
            short, faults, failures>>

(***************************************************************************)
(* identity.go: a signature has an Ed25519 and an ML-DSA half.             *)
(***************************************************************************)
Sign(id, ctx, message) ==
    [by |-> id, ctx |-> ctx, message |-> message, ed |-> TRUE, dsa |-> TRUE]

VerifyAnySigner(id, ctx, message, sig) ==    \* mutant: key not compared
    sig.ctx = ctx /\ sig.message = message /\ sig.ed /\ sig.dsa

VerifyOneHalf(id, ctx, message, sig) ==    \* mutant: ML-DSA half not checked
    sig.by = id /\ sig.ctx = ctx /\ sig.message = message /\ sig.ed

Verify(id, ctx, message, sig) ==
    /\ sig.by = id
    /\ sig.ctx = ctx
    /\ sig.message = message
    /\ sig.ed
    /\ sig.dsa

(***************************************************************************)
(* kem.go: an ML-KEM ciphertext for one key next to an X25519 ephemeral    *)
(* key.  Each encapsulation draws fresh randomness, named here by the      *)
(* connection it is for; None is a value no encapsulation made.            *)
(***************************************************************************)
combineXWing(ssM, ssX, ctX, pkX) ==
    [m |-> ssM, x |-> ssX, ct |-> ctX, pk |-> pkX]

XWingEncapsulateFixed(id, eph) ==    \* mutant: the randomness is not fresh
    [ct |-> [m |-> <<id, None>>, x |-> None],
     shared |-> combineXWing(<<id, <<id, None>>>>, <<id, None>>, None, id)]

XWingEncapsulate(id, eph) ==
    [ct |-> [m |-> <<id, eph>>, x |-> eph],
     shared |-> combineXWing(<<id, <<id, eph>>>>, <<id, eph>>, eph, id)]

ASSUME NoneIsNoSecret ==
    \A id \in Ids, c \in Conns : XWingEncapsulate(id, c).shared # None

\* ML-KEM rejects implicitly: for a ciphertext made for another key, or a
\* damaged one, the secret depends on the decapsulating key and the ciphertext
\* and is nobody else's.  <<key, ciphertext>> stands for both kinds of secret.
XWingDecapsulate(id, ct) ==
    combineXWing(<<id, ct.m>>, <<id, ct.x>>, ct.x, id)

(***************************************************************************)
(* handshake.go: keys, transcript and messages.                            *)
(***************************************************************************)
derive(secret, label) == [secret |-> secret, label |-> label]

transcriptHash(id, ct) == [init |-> id, ct |-> ct]

HandshakeInit(id, key) ==
    [type |-> "init", id |-> id, sig |-> Sign(key, "handshake-init", id)]

aeadSeal(key, aad, id, sig) ==
    [key |-> key, aad |-> aad, id |-> id, sig |-> sig, intact |-> TRUE]

aeadOpens(enc, key, aad) == enc.intact /\ enc.key = key /\ enc.aad = aad

HandshakeResponse(id, key, initId, ct, secret) ==
    [type |-> "resp", ct |-> ct,
     enc |-> aeadSeal(derive(secret, "resp-id"), ct, id,
                 Sign(key, "handshake-response", transcriptHash(initId, ct)))]

\* channel.go: newConn picks the sending and the receiving key by role.
txKey(e) == derive(shared[e], IF e[2] = "I" THEN "i2r" ELSE "r2i")

rxKeySame(e) == txKey(e)    \* mutant: one key for both directions

rxKey(e) == derive(shared[e], IF e[2] = "I" THEN "r2i" ELSE "i2r")

Record(e) == [type |-> "data", key |-> txKey(e), from |-> e, intact |-> TRUE]

PinHoldsStrict(e, id) == pin[e] = id    \* mutant: no pin matches nobody

PinHolds(e, id) == pin[e] = None \/ pin[e] = id

-----------------------------------------------------------------------------
Init ==
    /\ \E t \in Topologies : local = t.presents /\ holds = t.holds
    /\ pin \in {p \in [Endpoints -> {None} \cup {local[e] : e \in Endpoints}] :
                  \A e \in Endpoints : \/ p[e] = None
                                       \/ \E c \in Conns :
                                            p[e] = local[<<c, Peer(e)[2]>>]}
    /\ timeout \in Timeouts
    /\ st = [e \in Endpoints |-> IF e[2] = "I" THEN "start" ELSE "wait"]
    /\ remote = [e \in Endpoints |-> None]
    /\ shared = [e \in Endpoints |-> None]
    /\ took = [e \in Endpoints |-> None]
    /\ inbox = [e \in Endpoints |-> <<>>]
    /\ sent = {}
    /\ wrote = {}
    /\ opened = {}
    /\ short = {}
    /\ faults = 0
    /\ failures = 0

\* e writes frame m to its connection, having consumed its first n frames.
Write(e, m, n) ==
    /\ sent' = sent \cup {m}
    /\ inbox' = [inbox EXCEPT ![e] = SubSeq(@, n + 1, Len(@)),
                              ![Peer(e)] = Append(@, m)]

\* runInitiator, up to the response.
SendInit(c) ==
    LET e == <<c, "I">>
    IN  /\ st[e] = "start"
        /\ Write(e, HandshakeInit(local[e], holds[e]), 0)
        /\ st' = [st EXCEPT ![e] = "wait"]
        /\ UNCHANGED <<config, remote, shared, took, wrote, opened, short,
                       faults, failures>>

(***************************************************************************)
(* wire.go: readFrame takes a length and then that many bytes.  A frame    *)
(* whose length was damaged, or whose bytes are not its own, is Garbled:   *)
(* readFrame refuses its length, or returns a payload that neither parses  *)
(* nor opens.  A frame that is Short has fewer bytes than its length says, *)
(* bytes having been lost or the length raised: io.ReadFull waits for      *)
(* more.                                                                   *)
(***************************************************************************)
Garbled == [type |-> "garbled"]
Short   == [type |-> "short"]

\* readFrame has what it needs to return.
FrameArrived(e) == inbox[e] # <<>> /\ Head(inbox[e]) # Short

\* io.ReadFull goes on with the bytes of the frame behind a short one, and has
\* enough or still too few.  What is left of that frame opens nowhere.
Swallow(e) ==
    /\ st[e] \in {"wait", "done"}
    /\ Len(inbox[e]) > 1
    /\ Head(inbox[e]) = Short
    /\ \E m \in {Garbled, Short} :
          inbox' = [inbox EXCEPT ![e] = <<m>> \o SubSeq(@, 3, Len(@))]
    /\ UNCHANGED <<config, st, remote, shared, took, sent, wrote, opened, short,
                   faults, failures>>

\* The checks runResponder makes on the first frame it reads.
InitValid(e, m) ==
    /\ m.type = "init"
    /\ Verify(m.id, "handshake-init", m.id, m.sig)
    /\ PinHolds(e, m.id)

\* runResponder on a frame it accepts.
AcceptInit(c) ==
    LET e == <<c, "R">>
        m == Head(inbox[e])
        k == XWingEncapsulate(m.id, c)
    IN  /\ st[e] = "wait"
        /\ inbox[e] # <<>>
        /\ InitValid(e, m)
        /\ Write(e, HandshakeResponse(local[e], holds[e], m.id, k.ct, k.shared),
                 1)
        /\ st' = [st EXCEPT ![e] = "done"]
        /\ remote' = [remote EXCEPT ![e] = m.id]
        /\ shared' = [shared EXCEPT ![e] = k.shared]
        /\ took' = [took EXCEPT ![e] = m]
        /\ UNCHANGED <<config, wrote, opened, short, faults, failures>>

\* The checks runInitiator makes on the response.
ResponseValid(e, m) ==
    /\ m.type = "resp"
    /\ aeadOpens(m.enc, derive(XWingDecapsulate(holds[e], m.ct), "resp-id"),
                 m.ct)
    /\ Verify(m.enc.id, "handshake-response",
              transcriptHash(local[e], m.ct), m.enc.sig)
    /\ PinHolds(e, m.enc.id)

\* runInitiator on a response it accepts.
AcceptResponse(c) ==
    LET e == <<c, "I">>
        m == Head(inbox[e])
    IN  /\ st[e] = "wait"
        /\ inbox[e] # <<>>
        /\ ResponseValid(e, m)
        /\ st' = [st EXCEPT ![e] = "done"]
        /\ remote' = [remote EXCEPT ![e] = m.enc.id]
        /\ shared' = [shared EXCEPT ![e] = XWingDecapsulate(holds[e], m.ct)]
        /\ took' = [took EXCEPT ![e] = m]
        /\ inbox' = [inbox EXCEPT ![e] = Tail(@)]
        /\ UNCHANGED <<config, sent, wrote, opened, short, faults, failures>>

\* An endpoint that returns an error closes its raw connection.
ClosedNever(e) == FALSE    \* mutant: the raw connection is left open

Closed(e) == st[e] = "failed"

Fail(e) ==
    /\ st' = [st EXCEPT ![e] = "failed"]
    /\ inbox' = [inbox EXCEPT ![e] = <<>>]
    /\ UNCHANGED <<config, remote, shared, took, sent, wrote, opened, short,
                   faults>>

\* The frame has a length readFrame refuses, or fails one of the checks.
Reject(e) ==
    /\ st[e] = "wait"
    /\ FrameArrived(e)
    /\ ~IF e[2] = "I" THEN ResponseValid(e, Head(inbox[e]))
                      ELSE InitValid(e, Head(inbox[e]))
    /\ Fail(e)
    /\ UNCHANGED failures

\* The peer closed the connection: readFrame finds the end of the stream,
\* before a frame or inside one.
PeerClosed(e) ==
    /\ st[e] = "wait"
    /\ inbox[e] \in {<<>>, <<Short>>}
    /\ Closed(Peer(e))
    /\ Fail(e)
    /\ UNCHANGED failures

\* mutant: the deadline is not cleared when the handshake ends
InHandshakeOrAfter(e) == st[e] # "failed"

InHandshake(e) == st[e] \in {"start", "wait"}

\* The deadline of clientHandshake or serverHandshake passes: the read or the
\* write it is in, or the next one, returns an error.
Expire(e) ==
    /\ InHandshake(e)
    /\ timeout[e]
    /\ failures' = failures + 1
    /\ Fail(e)

\* An I/O error, or an encapsulation that fails.
Abort(e) ==
    /\ InHandshake(e)
    /\ failures < MaxFailures
    /\ failures' = failures + 1
    /\ Fail(e)

\* The first record on the new channel, in either direction.
WriteRecord(e) ==
    /\ st[e] = "done"
    /\ e \notin wrote
    /\ wrote' = wrote \cup {e}
    /\ Write(e, Record(e), 0)
    /\ UNCHANGED <<config, st, remote, shared, took, opened, short, faults,
                   failures>>

RecordOpens(e, m) ==
    /\ m.type = "data"
    /\ m.intact
    /\ m.key = rxKey(e)
    /\ \A o \in opened : o.at # e    \* readSeq is still 0

ReadRecord(e) ==
    /\ st[e] = "done"
    /\ FrameArrived(e)
    /\ LET m == Head(inbox[e])
       IN  opened' = IF RecordOpens(e, m)
                     THEN opened \cup {[at |-> e, from |-> m.from]}
                     ELSE opened
    /\ inbox' = [inbox EXCEPT ![e] = Tail(@)]
    /\ UNCHANGED <<config, st, remote, shared, took, sent,
                   wrote, short, faults, failures>>

(***************************************************************************)
(* The network.                                                            *)
(***************************************************************************)
NetworkFault(e, frames, lacking) ==
    /\ faults < MaxFaults
    /\ st[e] # "failed"
    /\ faults' = faults + 1
    /\ inbox' = [inbox EXCEPT ![e] = frames]
    /\ short' = short \cup lacking
    /\ UNCHANGED <<config, st, remote, shared, took, sent,
                   wrote, opened, failures>>

\* A frame some endpoint wrote arrives here too, ahead of the others.
Misdeliver(e) == \E m \in sent : NetworkFault(e, <<m>> \o inbox[e], {})

\* The frames that differ from m in one damaged part, the length included.
DamagedForms(m) ==
    {Garbled} \cup
    CASE m.type = "init" -> {[m EXCEPT !.id = None], [m EXCEPT !.sig.ed = FALSE],
                             [m EXCEPT !.sig.dsa = FALSE]}
      [] m.type = "resp" -> {[m EXCEPT !.ct.m = <<None, None>>],
                             [m EXCEPT !.ct.x = None],
                             [m EXCEPT !.enc.intact = FALSE]}
      [] m.type = "data" -> {[m EXCEPT !.intact = FALSE]}
      [] m.type \in {"garbled", "short"} -> {}

Damage(e) ==
    /\ inbox[e] # <<>>
    /\ \E m \in DamagedForms(Head(inbox[e])) :
          NetworkFault(e, <<m>> \o Tail(inbox[e]), {})

\* The first frame is lost, or some of its bytes are, or its length is raised.
Lose(e) ==
    /\ inbox[e] # <<>>
    /\ \E frames \in {<<>>, <<Short>>} :
          NetworkFault(e, frames \o Tail(inbox[e]), {e})

-----------------------------------------------------------------------------
ConnStep(c) == SendInit(c) \/ AcceptInit(c) \/ AcceptResponse(c)

EndpointStep(e) == Reject(e) \/ PeerClosed(e) \/ Swallow(e) \/ ReadRecord(e)

Next ==
    \/ \E c \in Conns : ConnStep(c)
    \/ \E e \in Endpoints : \/ EndpointStep(e)
                            \/ WriteRecord(e)
                            \/ Expire(e)
                            \/ Abort(e)
                            \/ Misdeliver(e)
                            \/ Damage(e)
                            \/ Lose(e)

Spec == Init /\ [][Next]_vars

\* Each side's goroutine runs its handshake to the end and a deadline that is
\* set passes; nobody is obliged to write, and the network owes nothing.
FairSpec ==
    /\ Spec
    /\ \A c \in Conns : WF_vars(ConnStep(c))
    /\ \A e \in Endpoints : WF_vars(EndpointStep(e)) /\ WF_vars(Expire(e))

-----------------------------------------------------------------------------
Owners == Ids \cup {None}

\* The type of every variable (frames are the messages the endpoints build).
TypeOK ==
    /\ local \in [Endpoints -> Ids]
    /\ holds \in [Endpoints -> Ids]
    /\ pin \in [Endpoints -> Owners]
    /\ timeout \in [Endpoints -> BOOLEAN]
    /\ st \in [Endpoints -> {"start", "wait", "done", "failed"}]
    /\ remote \in [Endpoints -> Owners]
    /\ \A e \in Endpoints : st[e] = "done" <=> shared[e] # None
    /\ DOMAIN inbox = Endpoints
    /\ wrote \subseteq Endpoints
    /\ opened \subseteq [at : Endpoints, from : Endpoints]
    /\ short \subseteq Endpoints
    /\ faults \in Nat
    /\ failures \in Nat

Done(e) == st[e] = "done"

\* An initiator that completes agrees with a responder that completed and owns
\* the identity it presented: each names the other's identity and both hold the
\* same secret, whatever frames were repeated, misdelivered or damaged.
InitiatorAgreement ==
    \A e \in Endpoints : Done(e) /\ e[2] = "I" =>
        \E d \in Endpoints : /\ Done(d) /\ d[2] = "R"
                             /\ local[d] = remote[e] /\ holds[d] = remote[e]
                             /\ remote[d] = local[e]
                             /\ shared[d] = shared[e]

\* Equal secrets mean the same session parties: two endpoints with one secret
\* agree on who initiated and who responded, and two responders never derive
\* the same secret.
Parties(e) == IF e[2] = "I" THEN <<local[e], remote[e]>>
                            ELSE <<remote[e], local[e]>>

NoKeyConfusion ==
    \A d, e \in Endpoints : Done(d) /\ Done(e) /\ shared[d] = shared[e] =>
        /\ Parties(d) = Parties(e)
        /\ d[2] = "R" /\ e[2] = "R" => d = e

\* A record opens only if an endpoint of the other role, that completed with
\* an endpoint of this one's identity as its peer, wrote it: a reflected record
\* never opens, and neither does one from a session with anybody else.  Which of
\* its sessions the peer wrote it on is not said: the response of one may have
\* been replayed onto another (NotReplayable).
RecordOrigin ==
    \A o \in opened : /\ o.from[2] # o.at[2]
                      /\ Done(o.from)
                      /\ remote[o.from] = local[o.at]
                      /\ local[o.from] = remote[o.at]

\* An endpoint completes only on a frame that was written as it stands: damage
\* to any part of an init or a response, either half of a signature and either
\* half of the X-Wing ciphertext included, is noticed.
TookWhatWasSent == \A e \in Endpoints : Done(e) => took[e] \in sent

\* The responder's signature covers the initiator's identity and the X-Wing
\* ciphertext "so the signature can't be replayed onto another session": no two
\* initiator sessions complete on one response, so none share a secret.
NotReplayable ==
    \A d, e \in Endpoints :
        Done(d) /\ Done(e) /\ d[2] = "I" /\ e[2] = "I" /\ shared[d] = shared[e]
            => d = e

\* When readFrame cannot wait for ever: the endpoint has a timeout, or no bytes
\* are missing from its stream; an initiator also needs a responder that answers
\* or closes, which one without a timeout does not if bytes are missing from its
\* own stream.
MustEnd(e) ==
    \/ timeout[e]
    \/ /\ e \notin short
       /\ e[2] = "R" \/ timeout[Peer(e)] \/ Peer(e) \notin short

\* A handshake ends, also without a timeout: an endpoint that fails closes its
\* connection, and its peer finds out.  Only lost bytes, or a length raised on
\* the way, leave a side in io.ReadFull, and then its timeout ends it and lets
\* the initiator that waits for it go.
EveryHandshakeEnds ==
    \A e \in Endpoints : <>(st[e] \in {"done", "failed"} \/ ~MustEnd(e))

\* On an undisturbed connection between peers that own their identities and pin
\* each other or nobody, both sides complete.
HonestSuccess ==
    \A c \in Conns :
        <>(\/ Done(<<c, "I">>) /\ Done(<<c, "R">>)
           \/ faults > 0 \/ failures > 0
           \/ \E e \in {<<c, "I">>, <<c, "R">>} :
                 \/ pin[e] \notin {None, local[Peer(e)]}
                 \/ holds[e] # local[e])
=============================================================================
