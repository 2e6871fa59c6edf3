--------------------------- MODULE ListenerProofs ---------------------------
(***************************************************************************)
(* Theorems about Listener, for any number of clients and acceptors, any   *)
(* backlog and any timeouts.                                               *)
(***************************************************************************)
EXTENDS Listener, SequenceTheorems, TLAPS

ClientStates == {"idle", "dialing", "connected", "wait", "done", "failed"}
ServerStates == {"none", "queued", "wait", "done", "failed"}

Types ==
    /\ timeout \in [client : BOOLEAN, server : BOOLEAN]
    /\ cst \in [Clients -> ClientStates]
    /\ sst \in [Clients -> ServerStates]
    /\ cRaw \subseteq Clients
    /\ sRaw \subseteq Clients
    /\ cArmed \subseteq Clients
    /\ sArmed \subseteq Clients
    /\ queue \in Seq(Clients)
    /\ acc \in [Acceptors -> Clients \cup {None, Stopped}]

\* The kernel's queue holds exactly the connections that nobody has accepted,
\* each once, and no client that has yet to connect is anywhere at the server.
QueueOK ==
    /\ \A i \in 1..Len(queue) : sst[queue[i]] = "queued"
    /\ \A i, j \in 1..Len(queue) : queue[i] = queue[j] => i = j
    /\ \A c \in Clients : cst[c] \in {"idle", "dialing"} => sst[c] = "none"

\* The server's end of a raw connection is open only while it is queued, in a
\* handshake that some acceptor runs, or established.
ServerOK ==
    /\ \A c \in sRaw : sst[c] \in {"queued", "wait", "done"}
    /\ \A c \in Clients : sst[c] = "queued" =>
            \E i \in 1..Len(queue) : queue[i] = c
    /\ \A c \in Clients : sst[c] = "wait" => \E g \in Acceptors : acc[g] = c

\* The client's end is open only from connecting to failing.
ClientOK == \A c \in cRaw : cst[c] \in {"connected", "wait", "done"}

\* A deadline is armed only inside a handshake.
ArmedOK ==
    /\ \A c \in cArmed : cst[c] \in {"connected", "wait"}
    /\ \A c \in sArmed : sst[c] = "wait"

IInv == Types /\ QueueOK /\ ServerOK /\ ClientOK /\ ArmedOK

-----------------------------------------------------------------------------
\* The invariant holds before anybody dials.
LEMMA InitInv == Init => IInv
<1> SUFFICES ASSUME Init PROVE IInv
    OBVIOUS
<1>1. Types
    BY ListenerAssumption DEF Init, Types, ClientStates, ServerStates
<1>2. QueueOK /\ ServerOK /\ ClientOK /\ ArmedOK
    BY DEF Init, QueueOK, ServerOK, ClientOK, ArmedOK
<1> QED
    BY <1>1, <1>2 DEF IInv

\* The steps of the client that do not touch the queue keep it.
LEMMA ClientSteps ==
    ASSUME IInv, NEW c \in Clients,
           \/ Dial(c) \/ DialFails(c) \/ SendInit(c) \/ ClientDone(c)
           \/ ClientEOF(c) \/ ClientExpires(c) \/ PeerLeaves(c)
    PROVE  IInv'
<1> USE DEF cvars, svars
<1>1. CASE Dial(c)
    BY <1>1 DEF Dial, IInv, Types, QueueOK, ServerOK, ClientOK, ArmedOK,
                ClientStates
<1>2. CASE DialFails(c)
    BY <1>2 DEF DialFails, IInv, Types, QueueOK, ServerOK, ClientOK, ArmedOK,
                ClientStates
<1>3. CASE SendInit(c)
    BY <1>3 DEF SendInit, IInv, Types, QueueOK, ServerOK, ClientOK, ArmedOK,
                ClientStates
<1>4. CASE ClientDone(c)
    BY <1>4 DEF ClientDone, Disarm, IInv, Types, QueueOK, ServerOK, ClientOK,
                ArmedOK, ClientStates
<1>5. CASE ClientEOF(c) \/ ClientExpires(c) \/ PeerLeaves(c)
  <2>1. ClientReturnsError(c) /\ cst[c] \in {"connected", "wait"}
      BY <1>5 DEF ClientEOF, ClientExpires, PeerLeaves, IInv, ArmedOK
  <2> QED
      BY <2>1 DEF ClientReturnsError, CloseRaw, Disarm, IInv, Types, QueueOK,
                  ServerOK, ClientOK, ArmedOK, ClientStates
<1> QED
    BY <1>1, <1>2, <1>3, <1>4, <1>5

\* A connection that the kernel queues was nowhere before.
LEMMA ConnectStep ==
    ASSUME IInv, NEW c \in Clients, Connect(c)
    PROVE  IInv'
<1> USE DEF cvars, svars
<1>1. /\ queue' \in Seq(Clients)
      /\ Len(queue') = Len(queue) + 1
      /\ \A i \in 1..Len(queue) : queue'[i] = queue[i]
      /\ queue'[Len(queue) + 1] = c
    BY AppendProperties DEF Connect, IInv, Types
<1>2. /\ Len(queue) \in Nat
      /\ \A i \in 1..Len(queue) : queue[i] \in Clients
    BY LenProperties, ElementOfSeq DEF IInv, Types
<1>3. sst[c] = "none"
    BY DEF Connect, IInv, QueueOK
<1>4. Types'
    BY <1>1 DEF Connect, Arm, IInv, Types, ClientStates, ServerStates
<1>5. \A i \in 1..Len(queue) : queue[i] # c
    BY <1>3 DEF IInv, QueueOK
<1>6. QueueOK'
  <2>1. \A i \in 1..Len(queue') : i \in 1..Len(queue) \/ i = Len(queue) + 1
      BY <1>1, <1>2
  <2>2. \A i \in 1..Len(queue') : sst'[queue'[i]] = "queued"
      BY <1>1, <1>2, <2>1 DEF Connect, IInv, QueueOK, Types
  <2>3. \A i, j \in 1..Len(queue') : queue'[i] = queue'[j] => i = j
      BY <1>1, <1>5, <2>1 DEF IInv, QueueOK
  <2>4. \A d \in Clients : cst'[d] \in {"idle", "dialing"} => sst'[d] = "none"
      BY DEF Connect, IInv, QueueOK, Types
  <2> QED
      BY <2>2, <2>3, <2>4 DEF QueueOK
<1>7. ServerOK'
  <2>1. \A d \in sRaw' : sst'[d] \in {"queued", "wait", "done"}
      BY DEF Connect, IInv, ServerOK, Types
  <2>2. \A d \in Clients : sst'[d] = "queued" =>
            \E i \in 1..Len(queue') : queue'[i] = d
    <3> SUFFICES ASSUME NEW d \in Clients, sst'[d] = "queued"
                 PROVE  \E i \in 1..Len(queue') : queue'[i] = d
        OBVIOUS
    <3>1. CASE d = c
        BY <3>1, <1>1, <1>2
    <3>2. CASE d # c
      <4>1. sst[d] = "queued"
          BY <3>2 DEF Connect, IInv, Types
      <4>2. PICK i \in 1..Len(queue) : queue[i] = d
          BY <4>1 DEF IInv, ServerOK
      <4> QED
          BY <4>2, <1>1, <1>2
    <3> QED
        BY <3>1, <3>2
  <2>3. \A d \in Clients : sst'[d] = "wait" => \E g \in Acceptors : acc'[g] = d
      BY DEF Connect, IInv, ServerOK, Types
  <2> QED
      BY <2>1, <2>2, <2>3 DEF ServerOK
<1>8. ClientOK' /\ ArmedOK'
    BY <1>3 DEF Connect, Arm, IInv, ClientOK, ArmedOK, Types
<1> QED
    BY <1>4, <1>6, <1>7, <1>8 DEF IInv

\* A connection that Accept takes leaves the queue for good.
LEMMA AcceptKeeps ==
    ASSUME IInv, NEW g \in Acceptors, Accept(g)
    PROVE  IInv' /\ sst[Head(queue)] = "queued" /\ Head(queue) \in Clients
<1> USE DEF cvars, svars
<1> DEFINE h == Head(queue)
<1>1. /\ queue' \in Seq(Clients)
      /\ Len(queue') = Len(queue) - 1
      /\ \A i \in 1..Len(queue') : queue'[i] = queue[i + 1]
      /\ h = queue[1]
      /\ h \in Clients
    BY HeadTailProperties DEF Accept, IInv, Types
<1>2. Len(queue) \in Nat /\ Len(queue) > 0
    BY EmptySeq, LenProperties DEF Accept, IInv, Types
<1>3. sst[h] = "queued"
    BY <1>1, <1>2 DEF IInv, QueueOK
<1>4. \A i \in 1..Len(queue') : queue'[i] # h /\ queue'[i] \in Clients
  <2> TAKE i \in 1..Len(queue')
  <2>1. i + 1 \in 1..Len(queue) /\ i + 1 # 1
      BY <1>1, <1>2
  <2> QED
      BY <2>1, <1>1, <1>2, ElementOfSeq DEF IInv, QueueOK, Types
<1>5. Types'
    BY <1>1 DEF Accept, Arm, IInv, Types, ServerStates
<1>6. QueueOK'
  <2>1. \A i \in 1..Len(queue') : sst'[queue'[i]] = "queued"
      BY <1>1, <1>2, <1>4 DEF Accept, IInv, QueueOK, Types
  <2>2. \A i, j \in 1..Len(queue') : queue'[i] = queue'[j] => i = j
    <3> TAKE i, j \in 1..Len(queue')
    <3>1. i + 1 \in 1..Len(queue) /\ j + 1 \in 1..Len(queue)
        BY <1>1, <1>2
    <3>2. queue'[i] = queue'[j] => i + 1 = j + 1
        BY <3>1, <1>1 DEF IInv, QueueOK
    <3> QED
        BY <3>2
  <2>3. \A d \in Clients : cst'[d] \in {"idle", "dialing"} => sst'[d] = "none"
      BY <1>1, <1>3 DEF Accept, IInv, QueueOK, Types
  <2> QED
      BY <2>1, <2>2, <2>3 DEF QueueOK
<1>7. ServerOK'
  <2>1. \A d \in sRaw' : sst'[d] \in {"queued", "wait", "done"}
      BY <1>1 DEF Accept, IInv, ServerOK, Types
  <2>2. \A d \in Clients : sst'[d] = "queued" =>
            \E i \in 1..Len(queue') : queue'[i] = d
    <3> SUFFICES ASSUME NEW d \in Clients, sst'[d] = "queued"
                 PROVE  \E i \in 1..Len(queue') : queue'[i] = d
        OBVIOUS
    <3>1. d # h /\ sst[d] = "queued"
        BY <1>1 DEF Accept, IInv, Types
    <3>2. PICK i \in 1..Len(queue) : queue[i] = d
        BY <3>1 DEF IInv, ServerOK
    <3>3. i - 1 \in 1..Len(queue') /\ (i - 1) + 1 = i
        BY <3>1, <3>2, <1>1, <1>2
    <3> QED
        BY <3>2, <3>3, <1>1
  <2>3. \A d \in Clients : sst'[d] = "wait" => \E a \in Acceptors : acc'[a] = d
    <3> SUFFICES ASSUME NEW d \in Clients, sst'[d] = "wait"
                 PROVE  \E a \in Acceptors : acc'[a] = d
        OBVIOUS
    <3>1. CASE d = h
        BY <3>1 DEF Accept, IInv, Types
    <3>2. CASE d # h
      <4>1. sst[d] = "wait"
          BY <3>2 DEF Accept, IInv, Types
      <4>2. PICK a \in Acceptors : acc[a] = d
          BY <4>1 DEF IInv, ServerOK
      <4>3. a # g
          BY <4>2, ListenerAssumption DEF Accept
      <4> QED
          BY <4>2, <4>3 DEF Accept, IInv, Types
    <3> QED
        BY <3>1, <3>2
  <2> QED
      BY <2>1, <2>2, <2>3 DEF ServerOK
<1>8. ClientOK' /\ ArmedOK'
    BY <1>1, <1>3 DEF Accept, Arm, IInv, ClientOK, ArmedOK, Types
<1> QED
    BY <1>1, <1>3, <1>5, <1>6, <1>7, <1>8 DEF IInv

\* Only an acceptor in the handshake of c returns from it.
LEMMA ServerReturns ==
    ASSUME IInv, NEW c \in Clients,
           Respond(c) \/ HandshakeFails(c) \/ ServerExpires(c)
    PROVE  IInv' /\ sst[c] = "wait"
<1> USE DEF cvars, svars
<1>1. sst[c] = "wait"
    BY DEF Respond, HandshakeFails, ServerExpires, IInv, ArmedOK
<1>2. PICK outcome \in {"done", "failed"} :
          /\ AcceptReturns(c, outcome)
          /\ sRaw' = IF outcome = "done" THEN sRaw ELSE sRaw \ {c}
    BY DEF Respond, HandshakeFails, ServerExpires, AcceptReturnsError, CloseRaw
<1>3. Types' /\ QueueOK'
    BY <1>1, <1>2 DEF AcceptReturns, Disarm, IInv, Types, QueueOK, ServerStates
<1>4. ServerOK'
  <2>1. \A d \in sRaw' : sst'[d] \in {"queued", "wait", "done"}
      BY <1>2 DEF AcceptReturns, IInv, Types, ServerOK
  <2>2. \A d \in Clients : sst'[d] = "queued" =>
            \E i \in 1..Len(queue') : queue'[i] = d
      BY <1>2 DEF AcceptReturns, IInv, Types, ServerOK
  <2>3. \A d \in Clients : sst'[d] = "wait" => \E g \in Acceptors : acc'[g] = d
      BY <1>2 DEF AcceptReturns, IInv, Types, ServerOK
  <2> QED
      BY <2>1, <2>2, <2>3 DEF ServerOK
<1>5. ClientOK' /\ ArmedOK'
    BY <1>2 DEF AcceptReturns, Disarm, IInv, Types, ClientOK, ArmedOK
<1> QED
    BY <1>1, <1>3, <1>4, <1>5 DEF IInv

\* An Accept that fails, and Listener.Close, leave every handshake in progress
\* to its acceptor.
LEMMA CloseSteps ==
    ASSUME IInv, Close \/ \E g \in Acceptors : AcceptFails(g)
    PROVE  IInv'
<1> USE DEF cvars, svars
<1>1. CASE Close
  <2>1. queue' = <<>>
      BY <1>1 DEF Close
  <2>2. Types'
      BY <1>1 DEF Close, IInv, Types, ServerStates
  <2>3. QueueOK'
      BY <1>1, <2>1 DEF Close, IInv, Types, QueueOK
  <2>4. ServerOK'
      BY <1>1 DEF Close, IInv, Types, ServerOK
  <2>5. ClientOK' /\ ArmedOK'
      BY <1>1 DEF Close, IInv, Types, ClientOK, ArmedOK
  <2> QED
      BY <2>2, <2>3, <2>4, <2>5 DEF IInv
<1>2. ASSUME NEW g \in Acceptors, AcceptFails(g)
      PROVE  IInv'
  <2>1. Types' /\ QueueOK' /\ ClientOK' /\ ArmedOK'
      BY <1>2 DEF AcceptFails, IInv, Types, QueueOK, ClientOK, ArmedOK
  <2>2. \A d \in Clients : sst[d] = "wait" => \E a \in Acceptors : acc'[a] = d
    <3> SUFFICES ASSUME NEW d \in Clients, sst[d] = "wait"
                 PROVE  \E a \in Acceptors : acc'[a] = d
        OBVIOUS
    <3>1. PICK a \in Acceptors : acc[a] = d
        BY DEF IInv, ServerOK
    <3>2. a # g
        BY <3>1, <1>2, ListenerAssumption DEF AcceptFails
    <3> QED
        BY <3>1, <3>2, <1>2 DEF AcceptFails, IInv, Types
  <2>3. ServerOK'
      BY <1>2, <2>2 DEF AcceptFails, IInv, ServerOK
  <2> QED
      BY <2>1, <2>3 DEF IInv
<1> QED
    BY <1>1, <1>2

\* Every step keeps the invariant.
LEMMA StepInv == IInv /\ [Next]_vars => IInv'
<1> SUFFICES ASSUME IInv, [Next]_vars PROVE IInv'
    OBVIOUS
<1>1. CASE UNCHANGED vars
    BY <1>1 DEF vars, cvars, svars, IInv, Types, QueueOK, ServerOK, ClientOK,
                ArmedOK
<1>2. ASSUME NEW c \in Clients,
             \/ Dial(c) \/ DialStep(c) \/ DialFails(c) \/ ClientExpires(c)
             \/ PeerLeaves(c) \/ HandshakeStep(c) \/ ServerExpires(c)
      PROVE  IInv'
    BY <1>2, ClientSteps, ConnectStep, ServerReturns DEF DialStep, HandshakeStep
<1>3. ASSUME NEW g \in Acceptors, AcceptStep(g)
      PROVE  IInv'
    BY <1>3, AcceptKeeps, CloseSteps DEF AcceptStep
<1>4. CASE Close
    BY <1>4, CloseSteps
<1> QED
    BY <1>1, <1>2, <1>3, <1>4 DEF Next

\* IInv is an invariant of the listener and its clients.
LEMMA Invariance == Spec => []IInv
<1> QED
    BY InitInv, StepInv, PTL DEF Spec

-----------------------------------------------------------------------------
\* dial.go and listen.go: whichever side of a handshake fails closes its raw
\* connection, and every other raw connection is queued, with an acceptor, or
\* somebody's channel.
THEOREM ListenerNoLeak == Spec => []NoLeak
<1>1. IInv => NoLeak
    BY DEF IInv, Types, ServerOK, ClientOK, NoLeak
<1> QED
    BY <1>1, Invariance, PTL

\* The deadline of a handshake is cleared when it ends, so no step, an expiring
\* deadline included, takes down a channel that Dial or Accept returned.
THEOREM ListenerEstablishedStays == Spec => EstablishedStays
<1> DEFINE Stays == \A c \in Clients : /\ cst[c] = "done" => cst'[c] = "done"
                                       /\ sst[c] = "done" => sst'[c] = "done"
<1> USE DEF cvars, svars
<1>1. IInv /\ [Next]_vars => [Stays]_vars
  <2> SUFFICES ASSUME IInv, Next PROVE Stays
      OBVIOUS
  <2> USE DEF IInv, Types
  <2>1. ASSUME NEW c \in Clients, Dial(c) \/ DialFails(c) \/ SendInit(c)
                                     \/ ClientDone(c) \/ PeerLeaves(c)
        PROVE  Stays
      BY <2>1 DEF Dial, DialFails, SendInit, ClientDone, PeerLeaves,
                  ClientReturnsError
  <2>2. ASSUME NEW c \in Clients, ClientEOF(c) \/ ClientExpires(c)
        PROVE  Stays
      BY <2>2 DEF ClientEOF, ClientExpires, ClientReturnsError, ArmedOK
  <2>3. ASSUME NEW c \in Clients, Connect(c)
        PROVE  Stays
      BY <2>3 DEF Connect, QueueOK
  <2>4. ASSUME NEW c \in Clients, Respond(c) \/ HandshakeFails(c)
                                     \/ ServerExpires(c)
        PROVE  Stays
    <3>1. sst[c] = "wait"
        BY <2>4, ServerReturns
    <3> QED
        BY <2>4, <3>1 DEF Respond, HandshakeFails, ServerExpires,
                          AcceptReturnsError, AcceptReturns
  <2>5. ASSUME NEW g \in Acceptors, Accept(g)
        PROVE  Stays
    <3>1. sst[Head(queue)] = "queued" /\ Head(queue) \in Clients
        BY <2>5, AcceptKeeps
    <3> QED
        BY <2>5, <3>1 DEF Accept
  <2>6. ASSUME NEW g \in Acceptors, AcceptFails(g)
        PROVE  Stays
      BY <2>6 DEF AcceptFails
  <2>7. CASE Close
      BY <2>7 DEF Close
  <2> QED
      BY <2>1, <2>2, <2>3, <2>4, <2>5, <2>6, <2>7
         DEF Next, DialStep, HandshakeStep, AcceptStep
<1> QED
    BY <1>1, Invariance, PTL DEF Spec, EstablishedStays
=============================================================================
