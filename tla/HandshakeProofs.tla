-------------------------- MODULE HandshakeProofs --------------------------
(***************************************************************************)
(* Theorems about Handshake, for any number of connections, any identities *)
(* presented and held, any pins and timeouts, and any number of frames     *)
(* repeated, misdelivered, damaged or lost, the same frame several times   *)
(* over included.                                                          *)
(***************************************************************************)
EXTENDS Handshake, SequenceTheorems, TLAPS

I(c) == <<c, "I">>
R(c) == <<c, "R">>

States == {"start", "wait", "done", "failed"}

Types ==
    /\ local \in [Endpoints -> Ids]
    /\ holds \in [Endpoints -> Ids]
    /\ pin \in [Endpoints -> Owners]
    /\ timeout \in [Endpoints -> BOOLEAN]
    /\ st \in [Endpoints -> States]
    /\ remote \in [Endpoints -> Owners]
    /\ DOMAIN shared = Endpoints
    /\ DOMAIN took = Endpoints
    /\ wrote \subseteq Endpoints
    /\ opened \subseteq [at : Endpoints, from : Endpoints]
    /\ short \subseteq Endpoints
    /\ faults \in Nat
    /\ failures \in Nat

\* The frames endpoints write: an initiator's first frame, the response of a
\* responder that completed, and the record of an endpoint on its channel.
WrittenInit(m) ==
    \E c \in Conns : m = HandshakeInit(local[I(c)], holds[I(c)])

ResponseOf(c) ==
    LET k == XWingEncapsulate(remote[R(c)], c)
    IN  HandshakeResponse(local[R(c)], holds[R(c)], remote[R(c)], k.ct, k.shared)

WrittenResponse(m) == \E c \in Conns : Done(R(c)) /\ m = ResponseOf(c)

WrittenRecord(m) == \E e \in wrote : m = Record(e)

SentOK ==
    \A m \in sent : WrittenInit(m) \/ WrittenResponse(m) \/ WrittenRecord(m)

\* What any amount of damage can make of a frame: the parts it cannot reach
\* stay those of the frame that was written.
InitForms(m) ==
    {[type |-> "init", id |-> x,
      sig |-> [by |-> m.sig.by, ctx |-> m.sig.ctx, message |-> m.sig.message,
               ed |-> y, dsa |-> z]] :
        x \in {m.id, None}, y \in BOOLEAN, z \in BOOLEAN}

ResponseForms(m) ==
    {[type |-> "resp", ct |-> [m |-> x, x |-> y],
      enc |-> [key |-> m.enc.key, aad |-> m.enc.aad, id |-> m.enc.id,
               sig |-> m.enc.sig, intact |-> z]] :
        x \in {m.ct.m, <<None, None>>}, y \in {m.ct.x, None}, z \in BOOLEAN}

RecordForms(m) ==
    {[type |-> "data", key |-> m.key, from |-> m.from, intact |-> z] :
        z \in BOOLEAN}

Forms(m) == IF m.type = "init" THEN InitForms(m)
            ELSE IF m.type = "resp" THEN ResponseForms(m)
            ELSE RecordForms(m)

\* Every frame in transit was written, and then perhaps damaged, or its length
\* no longer fits its bytes.
Arrivals == {Garbled, Short} \cup UNION {Forms(m) : m \in sent}

InboxOK == inbox \in [Endpoints -> Seq(Arrivals)]

\* A responder that completed took an init frame as it was written and made the
\* secret for the identity in it.
ResponderOK(c) ==
    LET r == R(c)
    IN  Done(r) => /\ remote[r] \in Ids
                   /\ shared[r] = XWingEncapsulate(remote[r], c).shared
                   /\ took[r] \in sent

\* The responder an initiator has completed with.
Partner(e, r) ==
    /\ Done(r)
    /\ local[r] = remote[e] /\ holds[r] = remote[e]
    /\ remote[r] = local[e]
    /\ shared[r] = shared[e]

InitiatorOK(c) ==
    Done(I(c)) => /\ took[I(c)] \in sent
                  /\ \E d \in Conns : Partner(I(c), R(d))

SecretOK == \A e \in Endpoints : st[e] = "done" <=> shared[e] # None

WroteOK == \A e \in wrote : Done(e)

OpenedOK == RecordOrigin /\ \A o \in opened : Done(o.at)

IInv ==
    /\ Types /\ SentOK /\ InboxOK /\ SecretOK /\ WroteOK /\ OpenedOK
    /\ \A c \in Conns : ResponderOK(c) /\ InitiatorOK(c)

-----------------------------------------------------------------------------
(***************************************************************************)
(* Facts about endpoints and frames.                                       *)
(***************************************************************************)

\* An endpoint is a connection and a role.
LEMMA EndpointFact ==
    /\ \A c \in Conns : /\ I(c) \in Endpoints /\ I(c)[1] = c /\ I(c)[2] = "I"
                        /\ R(c) \in Endpoints /\ R(c)[1] = c /\ R(c)[2] = "R"
                        /\ I(c) # R(c)
    /\ \A e \in Endpoints : /\ e[1] \in Conns
                            /\ e[2] \in {"I", "R"}
                            /\ e = I(e[1]) \/ e = R(e[1])
                            /\ e[2] = "I" => e = I(e[1])
                            /\ e[2] = "R" => e = R(e[1])
                            /\ Peer(e) \in Endpoints
                            /\ Peer(e) # e
BY DEF Endpoints, Roles, I, R, Peer

\* An undamaged init frame is one of its own forms.
LEMMA OwnInitForm ==
    ASSUME NEW id, NEW key
    PROVE  HandshakeInit(id, key) \in Forms(HandshakeInit(id, key))
<1> DEFINE m == HandshakeInit(id, key)
<1>1. /\ m.type = "init" /\ m.id = id /\ m.sig.by = key
      /\ m.sig.ctx = "handshake-init" /\ m.sig.message = id
    BY DEF HandshakeInit, Sign
<1>2. m = [type |-> "init", id |-> id,
           sig |-> [by |-> key, ctx |-> "handshake-init", message |-> id,
                    ed |-> TRUE, dsa |-> TRUE]]
    BY DEF HandshakeInit, Sign
<1> HIDE DEF m
<1> DEFINE F(x, y, z) ==
              [type |-> "init", id |-> x,
               sig |-> [by |-> m.sig.by, ctx |-> m.sig.ctx,
                        message |-> m.sig.message, ed |-> y, dsa |-> z]]
<1>3. \A x \in {m.id, None}, y, z \in BOOLEAN : F(x, y, z) \in InitForms(m)
    BY DEF InitForms
<1>4. m = F(m.id, TRUE, TRUE)
    BY <1>1, <1>2
<1> HIDE DEF F
<1>5. m \in Forms(m)
    BY <1>1, <1>3, <1>4 DEF Forms
<1> QED
    BY <1>5 DEF m

\* So is an undamaged response.
LEMMA OwnResponseForm ==
    ASSUME NEW id, NEW key, NEW init, NEW k, NEW eph
    PROVE  LET e == XWingEncapsulate(k, eph)
               m == HandshakeResponse(id, key, init, e.ct, e.shared)
           IN  m \in Forms(m)
<1> DEFINE ct == [m |-> <<k, eph>>, x |-> eph]
           e  == XWingEncapsulate(k, eph)
           m  == HandshakeResponse(id, key, init, e.ct, e.shared)
           enc == aeadSeal(derive(e.shared, "resp-id"), ct, id,
                     Sign(key, "handshake-response", transcriptHash(init, ct)))
<1>1. e.ct = ct /\ ct.m = <<k, eph>> /\ ct.x = eph
    BY DEF XWingEncapsulate
<1>2. m = [type |-> "resp", ct |-> ct, enc |-> enc]
    BY <1>1 DEF HandshakeResponse
<1>3. enc = [key |-> enc.key, aad |-> enc.aad, id |-> enc.id, sig |-> enc.sig,
             intact |-> TRUE]
    BY DEF aeadSeal
<1> HIDE DEF e, enc, m
<1>4. m.type = "resp" /\ m.ct = ct /\ m.enc = enc
    BY <1>2
<1> DEFINE F(x, y, z) ==
              [type |-> "resp", ct |-> [m |-> x, x |-> y],
               enc |-> [key |-> m.enc.key, aad |-> m.enc.aad, id |-> m.enc.id,
                        sig |-> m.enc.sig, intact |-> z]]
<1>5. \A x \in {m.ct.m, <<None, None>>}, y \in {m.ct.x, None}, z \in BOOLEAN :
          F(x, y, z) \in ResponseForms(m)
    BY DEF ResponseForms
<1>6. m = F(m.ct.m, m.ct.x, TRUE)
    BY <1>1, <1>2, <1>3, <1>4
<1> HIDE DEF F
<1>7. m \in Forms(m)
    BY <1>4, <1>5, <1>6 DEF Forms
<1> QED
    BY <1>7 DEF m, e

\* And so is an undamaged record.
LEMMA OwnRecordForm ==
    ASSUME NEW e
    PROVE  Record(e) \in Forms(Record(e))
<1> DEFINE m == Record(e)
<1>1. m.type = "data" /\ m.key = txKey(e) /\ m.from = e
    BY DEF Record
<1>2. m = [type |-> "data", key |-> txKey(e), from |-> e, intact |-> TRUE]
    BY DEF Record
<1> HIDE DEF m
<1>3. [type |-> "data", key |-> txKey(e), from |-> e, intact |-> TRUE]
          \in RecordForms(m)
    BY <1>1 DEF RecordForms
<1>4. m \in Forms(m)
    BY <1>1, <1>2, <1>3 DEF Forms
<1> QED
    BY <1>4 DEF m

\* A frame of a type the endpoints write is a form of a frame they wrote.
LEMMA WrittenForm ==
    ASSUME NEW f \in Arrivals, f.type \in {"init", "resp", "data"}
    PROVE  \E m \in sent : f \in Forms(m)
BY DEF Arrivals, Garbled, Short

\* Damaging a form of a frame again makes another form of it, or garbles it.
LEMMA DamagedAgain ==
    ASSUME NEW m, NEW f \in Forms(m), NEW d \in DamagedForms(f)
    PROVE  d \in Forms(m) \cup {Garbled}
<1>1. CASE m.type = "init"
  <2> DEFINE F(x, y, z) ==
                [type |-> "init", id |-> x,
                 sig |-> [by |-> m.sig.by, ctx |-> m.sig.ctx,
                          message |-> m.sig.message, ed |-> y, dsa |-> z]]
  <2>1. PICK x \in {m.id, None}, y \in BOOLEAN, z \in BOOLEAN : f = F(x, y, z)
      BY <1>1 DEF Forms, InitForms
  <2>2. d \in {Garbled, [f EXCEPT !.id = None], [f EXCEPT !.sig.ed = FALSE],
               [f EXCEPT !.sig.dsa = FALSE]}
      BY <2>1 DEF DamagedForms
  <2>3. d \in {Garbled, F(None, y, z), F(x, FALSE, z), F(x, y, FALSE)}
      BY <2>1, <2>2
  <2>4. \A i \in {m.id, None}, j, k \in BOOLEAN : F(i, j, k) \in InitForms(m)
      BY DEF InitForms
  <2> HIDE DEF F
  <2> QED
      BY <1>1, <2>3, <2>4 DEF Forms
<1>2. CASE m.type = "resp"
  <2> DEFINE F(x, y, z) ==
                [type |-> "resp", ct |-> [m |-> x, x |-> y],
                 enc |-> [key |-> m.enc.key, aad |-> m.enc.aad, id |-> m.enc.id,
                          sig |-> m.enc.sig, intact |-> z]]
  <2>1. PICK x \in {m.ct.m, <<None, None>>}, y \in {m.ct.x, None}, z \in BOOLEAN :
            f = F(x, y, z)
      BY <1>2 DEF Forms, ResponseForms
  <2>2. d \in {Garbled, [f EXCEPT !.ct.m = <<None, None>>], [f EXCEPT !.ct.x = None],
               [f EXCEPT !.enc.intact = FALSE]}
      BY <2>1 DEF DamagedForms
  <2>3. d \in {Garbled, F(<<None, None>>, y, z), F(x, None, z), F(x, y, FALSE)}
      BY <2>1, <2>2
  <2>4. \A i \in {m.ct.m, <<None, None>>}, j \in {m.ct.x, None}, k \in BOOLEAN :
            F(i, j, k) \in ResponseForms(m)
      BY SMTT(30) DEF ResponseForms
  <2> HIDE DEF F
  <2> QED
      BY <1>2, <2>3, <2>4 DEF Forms
<1>3. CASE m.type \notin {"init", "resp"}
  <2> DEFINE F(z) ==
                [type |-> "data", key |-> m.key, from |-> m.from, intact |-> z]
  <2>1. PICK z \in BOOLEAN : f = F(z)
      BY <1>3 DEF Forms, RecordForms
  <2>2. d \in {Garbled, F(FALSE)}
      BY <2>1 DEF DamagedForms
  <2>3. F(FALSE) \in RecordForms(m)
      BY DEF RecordForms
  <2> QED
      BY <1>3, <2>2, <2>3 DEF Forms
<1> QED
    BY <1>1, <1>2, <1>3

\* Verify, both halves of it, notices any damage to an init frame.
LEMMA ValidInit ==
    ASSUME IInv, NEW e \in Endpoints, NEW f \in Arrivals, InitValid(e, f)
    PROVE  f \in sent /\ f.id \in Ids
<1>1. f.type = "init"
    BY DEF InitValid
<1>2. PICK m \in sent : f \in Forms(m)
    BY <1>1, WrittenForm
<1>3. WrittenInit(m)
    BY <1>2, <1>1 DEF IInv, SentOK, WrittenResponse, WrittenRecord, ResponseOf,
                      HandshakeResponse, Record, Forms, ResponseForms, RecordForms
<1>4. PICK c \in Conns : m = HandshakeInit(local[I(c)], holds[I(c)])
    BY <1>3 DEF WrittenInit
<1>5. local[I(c)] \in Ids /\ holds[I(c)] \in Ids
    BY EndpointFact DEF IInv, Types
<1>6. PICK x \in {m.id, None}, y \in BOOLEAN, z \in BOOLEAN :
            f = [type |-> "init", id |-> x,
                 sig |-> [by |-> m.sig.by, ctx |-> m.sig.ctx,
                          message |-> m.sig.message, ed |-> y, dsa |-> z]]
    BY <1>2, <1>4 DEF HandshakeInit, Forms, InitForms
<1>7. /\ f.id = x /\ f.sig.by = holds[I(c)] /\ f.sig.message = local[I(c)]
      /\ f.sig.ed = y /\ f.sig.dsa = z /\ f.sig.ctx = "handshake-init"
    BY <1>4, <1>6 DEF HandshakeInit, Sign
<1>8. f.sig.by = f.id /\ f.sig.message = f.id /\ f.sig.ed /\ f.sig.dsa
    BY DEF InitValid, Verify
<1>9. x = local[I(c)] /\ y = TRUE /\ z = TRUE
    BY <1>7, <1>8
<1>10. f = m
    BY <1>4, <1>6, <1>9 DEF HandshakeInit, Sign
<1> QED
    BY <1>5, <1>7, <1>9, <1>10

\* The identity payload opens only under its own key and ciphertext, so damage
\* to any part of a response is noticed, and the signature in it names the
\* initiator that the responder answered.
LEMMA ValidResponse ==
    ASSUME IInv, NEW e \in Endpoints, NEW f \in Arrivals, ResponseValid(e, f)
    PROVE  /\ f \in sent
           /\ \E d \in Conns :
                /\ Done(R(d))
                /\ local[R(d)] = f.enc.id /\ holds[R(d)] = f.enc.id
                /\ remote[R(d)] = local[e]
                /\ shared[R(d)] = XWingDecapsulate(holds[e], f.ct)
<1>1. f.type = "resp"
    BY DEF ResponseValid
<1>2. PICK m \in sent : f \in Forms(m)
    BY <1>1, WrittenForm
<1>3. WrittenResponse(m)
    BY <1>2, <1>1 DEF IInv, SentOK, WrittenInit, WrittenRecord, HandshakeInit,
                      Record, Forms, InitForms, RecordForms
<1>4. PICK d \in Conns : Done(R(d)) /\ m = ResponseOf(d)
    BY <1>3 DEF WrittenResponse
<1> DEFINE k   == XWingEncapsulate(remote[R(d)], d)
           sig == Sign(holds[R(d)], "handshake-response",
                       transcriptHash(remote[R(d)], k.ct))
           key == derive(k.shared, "resp-id")
<1>5. /\ m.type = "resp" /\ m.ct = k.ct
      /\ m = [type |-> "resp", ct |-> k.ct,
              enc |-> [key |-> key, aad |-> k.ct, id |-> local[R(d)],
                       sig |-> sig, intact |-> TRUE]]
      /\ m.enc.key = key /\ m.enc.aad = k.ct /\ m.enc.id = local[R(d)]
      /\ m.enc.sig = sig
    BY <1>4 DEF ResponseOf, HandshakeResponse, aeadSeal
<1> HIDE DEF k, sig, key
<1>6. PICK x \in {m.ct.m, <<None, None>>}, y \in {m.ct.x, None}, z \in BOOLEAN :
          f = [type |-> "resp", ct |-> [m |-> x, x |-> y],
               enc |-> [key |-> m.enc.key, aad |-> m.enc.aad, id |-> m.enc.id,
                        sig |-> m.enc.sig, intact |-> z]]
    BY <1>2, <1>5 DEF Forms, ResponseForms
<1>7. f.enc = [key |-> key, aad |-> k.ct, id |-> local[R(d)], sig |-> sig,
               intact |-> z]
    BY <1>5, <1>6
<1>8. /\ z = TRUE
      /\ key = derive(XWingDecapsulate(holds[e], f.ct), "resp-id")
      /\ k.ct = f.ct
    BY <1>7 DEF ResponseValid, aeadOpens
<1>9. f = m
    BY <1>5, <1>6, <1>8
<1>10. k.shared = XWingDecapsulate(holds[e], f.ct)
    BY <1>8 DEF key, derive
<1>11. shared[R(d)] = k.shared
    BY <1>4 DEF IInv, ResponderOK, k
<1>12. /\ sig.by = f.enc.id
       /\ sig.message = transcriptHash(local[e], f.ct)
       /\ f.enc.id = local[R(d)]
    BY <1>7 DEF ResponseValid, Verify
<1>13. /\ holds[R(d)] = f.enc.id
       /\ transcriptHash(remote[R(d)], k.ct) = transcriptHash(local[e], f.ct)
    BY <1>12 DEF sig, Sign
<1>14. remote[R(d)] = local[e]
    BY <1>13 DEF transcriptHash
<1> QED
    BY <1>4, <1>9, <1>10, <1>11, <1>12, <1>13, <1>14

\* Secrets made for two connections differ: the ephemeral key is part of them.
LEMMA FreshSecrets ==
    ASSUME NEW i, NEW j, NEW c, NEW d,
           XWingEncapsulate(i, c).shared = XWingEncapsulate(j, d).shared
    PROVE  c = d
BY DEF XWingEncapsulate, combineXWing

\* Behind every secret is one responder, on whose parties its holders agree.
LEMMA OneResponder ==
    ASSUME IInv, NEW e \in Endpoints, Done(e)
    PROVE  \E c \in Conns : /\ Done(R(c))
                            /\ shared[e] = shared[R(c)]
                            /\ Parties(e) = <<remote[R(c)], local[R(c)]>>
                            /\ e[2] = "R" => e = R(c)
<1>1. CASE e[2] = "R"
    BY <1>1, EndpointFact DEF Parties
<1>2. CASE e[2] = "I"
  <2>1. e = I(e[1]) /\ e[1] \in Conns
      BY <1>2, EndpointFact
  <2>2. PICK d \in Conns : Partner(e, R(d))
      BY <2>1 DEF IInv, InitiatorOK
  <2>3. Parties(e) = <<local[e], remote[e]>>
      BY <1>2 DEF Parties
  <2> QED
      BY <1>2, <2>2, <2>3 DEF Partner
<1> QED
    BY <1>1, <1>2, EndpointFact

\* Hence no key is shared by different sessions.
LEMMA KeysApart == IInv => NoKeyConfusion
<1> SUFFICES ASSUME IInv, NEW d \in Endpoints, NEW e \in Endpoints,
                    Done(d), Done(e), shared[d] = shared[e]
             PROVE  /\ Parties(d) = Parties(e)
                    /\ d[2] = "R" /\ e[2] = "R" => d = e
    BY DEF NoKeyConfusion
<1>1. PICK a \in Conns : /\ Done(R(a)) /\ shared[d] = shared[R(a)]
                         /\ Parties(d) = <<remote[R(a)], local[R(a)]>>
                         /\ d[2] = "R" => d = R(a)
    BY OneResponder
<1>2. PICK b \in Conns : /\ Done(R(b)) /\ shared[e] = shared[R(b)]
                         /\ Parties(e) = <<remote[R(b)], local[R(b)]>>
                         /\ e[2] = "R" => e = R(b)
    BY OneResponder
<1>3. XWingEncapsulate(remote[R(a)], a).shared
          = XWingEncapsulate(remote[R(b)], b).shared
    BY <1>1, <1>2 DEF IInv, ResponderOK
<1>4. a = b
    BY <1>3, FreshSecrets
<1> QED
    BY <1>1, <1>2, <1>4

\* A record that opens is as it was written, by an endpoint of the other role
\* and of the same session.
LEMMA ValidRecord ==
    ASSUME IInv, NEW e \in Endpoints, Done(e), NEW f \in Arrivals,
           RecordOpens(e, f)
    PROVE  /\ f.from \in Endpoints /\ Done(f.from) /\ f.from[2] # e[2]
           /\ remote[f.from] = local[e] /\ local[f.from] = remote[e]
<1>1. f.type = "data"
    BY DEF RecordOpens
<1>2. PICK m \in sent : f \in Forms(m)
    BY <1>1, WrittenForm
<1>3. WrittenRecord(m)
    BY <1>2, <1>1 DEF IInv, SentOK, WrittenInit, WrittenResponse, HandshakeInit,
                      ResponseOf, HandshakeResponse, Forms, InitForms,
                      ResponseForms
<1>4. PICK w \in wrote : m = Record(w)
    BY <1>3 DEF WrittenRecord
<1>5. m.type = "data" /\ m.key = txKey(w) /\ m.from = w
    BY <1>4 DEF Record
<1>6. f.key = txKey(w) /\ f.from = w
    BY <1>2, <1>5 DEF Forms, RecordForms
<1>7. w \in Endpoints /\ Done(w)
    BY DEF IInv, Types, WroteOK
<1>8. txKey(w) = rxKey(e)
    BY <1>6 DEF RecordOpens
<1>9. shared[w] = shared[e] /\ w[2] # e[2]
    BY <1>8 DEF txKey, rxKey, derive
<1>10. Parties(w) = Parties(e)
    BY <1>7, <1>9, KeysApart DEF NoKeyConfusion
<1>11. remote[w] = local[e] /\ local[w] = remote[e]
  <2>1. w[2] \in {"I", "R"} /\ e[2] \in {"I", "R"}
      BY <1>7, EndpointFact
  <2> QED
      BY <1>9, <1>10, <2>1 DEF Parties
<1> QED
    BY <1>6, <1>7, <1>9, <1>11

-----------------------------------------------------------------------------
(***************************************************************************)
(* Steps.  Nothing that an endpoint completed with is ever taken back.     *)
(***************************************************************************)
Grows ==
    /\ UNCHANGED config
    /\ sent \subseteq sent'
    /\ wrote \subseteq wrote'
    /\ \A e \in Endpoints : Done(e) => /\ st'[e] = "done"
                                       /\ remote'[e] = remote[e]
                                       /\ shared'[e] = shared[e]
                                       /\ took'[e] = took[e]

\* What held of the frames written and the endpoints that had completed still
\* holds.
LEMMA GrowsKeeps ==
    ASSUME IInv, Grows
    PROVE  /\ \A m \in sent : WrittenInit(m)' \/ WrittenResponse(m)'
                                 \/ WrittenRecord(m)'
           /\ Arrivals \subseteq Arrivals'
           /\ \A c \in Conns : /\ Done(R(c)) => ResponderOK(c)'
                               /\ Done(I(c)) => InitiatorOK(c)'
           /\ \A o \in opened : /\ Done(o.at)'
                                /\ o.from[2] # o.at[2]
                                /\ Done(o.from)'
                                /\ remote'[o.from] = local'[o.at]
                                /\ local'[o.from] = remote'[o.at]
<1> USE EndpointFact
<1>1. ASSUME NEW m \in sent, WrittenInit(m)
      PROVE  WrittenInit(m)'
    BY <1>1 DEF WrittenInit, Grows, config
<1>2. ASSUME NEW m \in sent, WrittenResponse(m)
      PROVE  WrittenResponse(m)'
  <2>1. PICK c \in Conns : Done(R(c)) /\ m = ResponseOf(c)
      BY <1>2 DEF WrittenResponse
  <2>2. Done(R(c))' /\ ResponseOf(c)' = ResponseOf(c)
      BY <2>1 DEF Grows, config, ResponseOf, Done
  <2> QED
      BY <2>1, <2>2 DEF WrittenResponse
<1>3. ASSUME NEW m \in sent, WrittenRecord(m)
      PROVE  WrittenRecord(m)'
  <2>1. PICK e \in wrote : m = Record(e)
      BY <1>3 DEF WrittenRecord
  <2>2. e \in Endpoints /\ Done(e)
      BY DEF IInv, Types, WroteOK
  <2>3. e \in wrote' /\ Record(e)' = Record(e)
      BY <2>2 DEF Grows, Record, txKey
  <2> QED
      BY <2>1, <2>3 DEF WrittenRecord
<1>4. \A m \in sent : WrittenInit(m)' \/ WrittenResponse(m)' \/ WrittenRecord(m)'
    BY <1>1, <1>2, <1>3 DEF IInv, SentOK
<1>5. Arrivals \subseteq Arrivals'
    BY DEF Arrivals, Grows, Forms, InitForms, ResponseForms, RecordForms
<1>6. ASSUME NEW c \in Conns, Done(R(c))
      PROVE  ResponderOK(c)'
    BY <1>6 DEF IInv, ResponderOK, Grows
<1>7. ASSUME NEW c \in Conns, Done(I(c))
      PROVE  InitiatorOK(c)'
  <2>1. PICK d \in Conns : Partner(I(c), R(d))
      BY <1>7 DEF IInv, InitiatorOK
  <2>2. Partner(I(c), R(d))'
      BY <1>7, <2>1 DEF Partner, Grows, Done, config
  <2>3. took'[I(c)] \in sent'
      BY <1>7 DEF IInv, InitiatorOK, Grows
  <2> QED
      BY <2>2, <2>3 DEF InitiatorOK
<1>8. ASSUME NEW o \in opened
      PROVE  /\ Done(o.at)' /\ o.from[2] # o.at[2] /\ Done(o.from)'
             /\ remote'[o.from] = local'[o.at]
             /\ local'[o.from] = remote'[o.at]
  <2>1. o.at \in Endpoints /\ o.from \in Endpoints
      BY DEF IInv, Types
  <2>2. /\ o.from[2] # o.at[2] /\ Done(o.at) /\ Done(o.from)
        /\ remote[o.from] = local[o.at] /\ local[o.from] = remote[o.at]
      BY DEF IInv, OpenedOK, RecordOrigin
  <2> QED
      BY <2>1, <2>2 DEF Grows, Done, config
<1> QED
    BY <1>4, <1>5, <1>6, <1>7, <1>8

\* So do both sides of every connection, when nobody completes in the step.
LEMMA NobodyCompletes ==
    ASSUME IInv, Grows, \A e \in Endpoints : st'[e] = "done" <=> st[e] = "done"
    PROVE  \A c \in Conns : ResponderOK(c)' /\ InitiatorOK(c)'
<1> USE EndpointFact
<1> TAKE c \in Conns
<1>1. (Done(R(c))' <=> Done(R(c))) /\ (Done(I(c))' <=> Done(I(c)))
    BY DEF Done
<1>2. ~Done(R(c)) => ResponderOK(c)'
    BY <1>1 DEF ResponderOK
<1>3. ~Done(I(c)) => InitiatorOK(c)'
    BY <1>1 DEF InitiatorOK
<1> QED
    BY <1>2, <1>3, GrowsKeeps

\* What the records opened so far show stays true as well.
LEMMA OpenedKeeps ==
    ASSUME IInv, Grows, opened' = opened
    PROVE  OpenedOK'
BY GrowsKeeps DEF OpenedOK, RecordOrigin

\* A step that leaves the endpoints that have not completed so, and opens and
\* writes nothing, has only the inbox to show for.
LEMMA QuietStep ==
    ASSUME IInv, Types', InboxOK',
           UNCHANGED <<config, remote, shared, took, sent, wrote, opened>>,
           \A e \in Endpoints : st'[e] = "done" <=> st[e] = "done"
    PROVE  IInv'
<1> USE EndpointFact
<1>1. Grows
    BY DEF Grows, Done
<1>2. SentOK'
    BY <1>1, GrowsKeeps DEF SentOK
<1>3. SecretOK' /\ WroteOK'
    BY DEF IInv, SecretOK, WroteOK, Done, Types
<1> QED
    BY <1>1, <1>2, <1>3, OpenedKeeps, NobodyCompletes DEF IInv

\* The invariant holds before the first frame.
LEMMA InitInv == Init => IInv
<1> SUFFICES ASSUME Init PROVE IInv
    OBVIOUS
<1>1. Types
  <2>1. local \in [Endpoints -> Ids] /\ holds \in [Endpoints -> Ids]
      BY HandshakeAssumption DEF Init
  <2>2. pin \in [Endpoints -> Owners]
      BY <2>1 DEF Init, Owners
  <2>3. timeout \in [Endpoints -> BOOLEAN]
      BY HandshakeAssumption DEF Init
  <2> QED
      BY <2>1, <2>2, <2>3 DEF Init, Types, States, Owners
<1>2. InboxOK
    BY EmptySeq DEF Init, InboxOK
<1>3. SentOK /\ SecretOK /\ WroteOK /\ OpenedOK
    BY DEF Init, SentOK, SecretOK, WroteOK, OpenedOK, RecordOrigin
<1>4. \A c \in Conns : ResponderOK(c) /\ InitiatorOK(c)
    BY EndpointFact DEF Init, ResponderOK, InitiatorOK, Done
<1> QED
    BY <1>1, <1>2, <1>3, <1>4 DEF IInv

\* Write puts a frame at the end of the peer's inbox and drops the frames that
\* were consumed.
LEMMA WriteKeeps ==
    ASSUME IInv, Grows, NEW e \in Endpoints, NEW m, NEW n \in {0, 1},
           Write(e, m, n), m \in Forms(m)
    PROVE  InboxOK'
<1>1. m \in Arrivals'
  <2>1. m \in sent'
      BY DEF Write
  <2>2. Forms(m)' = Forms(m)
      BY DEF Forms, InitForms, ResponseForms, RecordForms
  <2> QED
      BY <2>1, <2>2 DEF Arrivals
<1>2. inbox \in [Endpoints -> Seq(Arrivals')]
  <2>1. Seq(Arrivals) \subseteq Seq(Arrivals')
      BY GrowsKeeps, SeqMonotonic
  <2> QED
      BY <2>1 DEF IInv, InboxOK
<1> DEFINE A == Arrivals'
<1> HIDE DEF A
<1>3. \A s \in Seq(A) : SubSeq(s, n + 1, Len(s)) \in Seq(A)
  <2> TAKE s \in Seq(A)
  <2>1. n + 1 \in Int /\ Len(s) \in Int
      BY LenProperties
  <2>2. \A i \in (n + 1)..Len(s) : s[i] \in A
      BY <2>1, ElementOfSeq
  <2> QED
      BY <2>1, <2>2, SubSeqProperties
<1>4. \A s \in Seq(A) : Append(s, m) \in Seq(A)
    BY <1>1, AppendProperties DEF A
<1>5. inbox' \in [Endpoints -> Seq(A)]
    BY <1>2, <1>3, <1>4, EndpointFact DEF Write, A
<1> QED
    BY <1>5 DEF InboxOK, A

\* An initiator's first frame completes nobody.
LEMMA SendInitKeeps ==
    ASSUME IInv, NEW c \in Conns, SendInit(c)
    PROVE  IInv'
<1> USE EndpointFact
<1>1. PICK m : m = HandshakeInit(local[I(c)], holds[I(c)])
    OBVIOUS
<1>2. /\ st[I(c)] = "start" /\ st' = [st EXCEPT ![I(c)] = "wait"]
      /\ Write(I(c), m, 0)
      /\ UNCHANGED <<config, remote, shared, took, wrote, opened, short,
                     faults, failures>>
    BY <1>1 DEF SendInit, I
<1>3. Types'
    BY <1>2 DEF IInv, Types, States, config
<1>4. \A e \in Endpoints : st'[e] = "done" <=> st[e] = "done"
    BY <1>2 DEF IInv, Types
<1>5. Grows
    BY <1>2, <1>4 DEF Grows, Write, Done
<1>6. InboxOK'
    BY <1>1, <1>2, <1>5, WriteKeeps, OwnInitForm
<1>7. WrittenInit(m)' /\ sent' = sent \cup {m}
    BY <1>1, <1>2 DEF WrittenInit, config, Write
<1>8. SentOK'
    BY <1>5, <1>7, GrowsKeeps DEF SentOK
<1>9. SecretOK' /\ WroteOK'
    BY <1>2, <1>4 DEF IInv, SecretOK, WroteOK, Done, Types
<1> QED
    BY <1>2, <1>3, <1>4, <1>5, <1>6, <1>8, <1>9, OpenedKeeps, NobodyCompletes
       DEF IInv

\* A responder completes on an init frame as it was written, with a fresh
\* secret for the identity in it.
LEMMA AcceptInitKeeps ==
    ASSUME IInv, NEW c \in Conns, AcceptInit(c)
    PROVE  IInv'
<1> USE EndpointFact
<1>1. PICK f : f = Head(inbox[R(c)])
    OBVIOUS
<1>2. PICK k : k = XWingEncapsulate(f.id, c)
    OBVIOUS
<1>3. PICK m : m = HandshakeResponse(local[R(c)], holds[R(c)], f.id, k.ct,
                                     k.shared)
    OBVIOUS
<1>4. /\ st[R(c)] = "wait" /\ inbox[R(c)] # <<>> /\ InitValid(R(c), f)
      /\ Write(R(c), m, 1)
      /\ st' = [st EXCEPT ![R(c)] = "done"]
      /\ remote' = [remote EXCEPT ![R(c)] = f.id]
      /\ shared' = [shared EXCEPT ![R(c)] = k.shared]
      /\ took' = [took EXCEPT ![R(c)] = f]
      /\ UNCHANGED <<config, wrote, opened, short, faults, failures>>
    BY <1>1, <1>2, <1>3 DEF AcceptInit, R
<1>5. f \in sent /\ f.id \in Ids
  <2>1. f \in Arrivals
      BY <1>1, <1>4, HeadTailProperties DEF IInv, InboxOK
  <2> QED
      BY <1>4, <2>1, ValidInit
<1>6. /\ st'[R(c)] = "done" /\ remote'[R(c)] = f.id
      /\ shared'[R(c)] = k.shared /\ took'[R(c)] = f
      /\ \A e \in Endpoints \ {R(c)} :
            /\ st'[e] = st[e] /\ remote'[e] = remote[e]
            /\ shared'[e] = shared[e] /\ took'[e] = took[e]
    BY <1>4 DEF IInv, Types
<1>7. Types'
    BY <1>4, <1>5 DEF IInv, Types, States, Owners, config
<1>8. Grows
    BY <1>4, <1>6 DEF Grows, Write, Done
<1>9. InboxOK'
    BY <1>2, <1>3, <1>4, <1>8, WriteKeeps, OwnResponseForm
<1>10. WrittenResponse(m)' /\ sent' = sent \cup {m}
  <2>1. ResponseOf(c)' = m
      BY <1>2, <1>3, <1>4, <1>6 DEF ResponseOf, config
  <2>2. Done(R(c))'
      BY <1>6 DEF Done
  <2> QED
      BY <1>4, <2>1, <2>2 DEF WrittenResponse, Write
<1>11. SentOK'
    BY <1>8, <1>10, GrowsKeeps DEF SentOK
<1>12. SecretOK'
  <2>1. k.shared # None
      BY <1>2, <1>5, NoneIsNoSecret
  <2> QED
      BY <1>6, <2>1 DEF IInv, SecretOK
<1>13. WroteOK'
    BY <1>4, <1>8 DEF IInv, Types, WroteOK, Grows, Done
<1>14. ASSUME NEW d \in Conns
       PROVE  ResponderOK(d)' /\ InitiatorOK(d)'
  <2>1. I(d) # R(c)
      BY DEF I, R
  <2>2. InitiatorOK(d)'
    <3>1. ~Done(I(d)) => ~Done(I(d))'
        BY <1>6, <2>1 DEF Done
    <3> QED
        BY <1>8, <3>1, GrowsKeeps DEF InitiatorOK
  <2>3. ResponderOK(d)'
    <3>1. CASE d = c
        BY <3>1, <1>2, <1>4, <1>5, <1>6 DEF ResponderOK, Write
    <3>2. CASE d # c
      <4>1. R(d) # R(c)
          BY <3>2 DEF R
      <4>2. ~Done(R(d)) => ~Done(R(d))'
          BY <1>6, <4>1 DEF Done
      <4> QED
          BY <1>8, <4>2, GrowsKeeps DEF ResponderOK
    <3> QED
        BY <3>1, <3>2
  <2> QED
      BY <2>2, <2>3
<1> QED
    BY <1>4, <1>7, <1>8, <1>9, <1>11, <1>12, <1>13, <1>14, OpenedKeeps DEF IInv

\* An initiator completes on a response as it was written, and agrees with the
\* responder that wrote it.
LEMMA AcceptResponseKeeps ==
    ASSUME IInv, NEW c \in Conns, AcceptResponse(c)
    PROVE  IInv'
<1> USE EndpointFact
<1>1. PICK f : f = Head(inbox[I(c)])
    OBVIOUS
<1>2. /\ st[I(c)] = "wait" /\ inbox[I(c)] # <<>> /\ ResponseValid(I(c), f)
      /\ st' = [st EXCEPT ![I(c)] = "done"]
      /\ remote' = [remote EXCEPT ![I(c)] = f.enc.id]
      /\ shared' = [shared EXCEPT ![I(c)] = XWingDecapsulate(holds[I(c)], f.ct)]
      /\ took' = [took EXCEPT ![I(c)] = f]
      /\ inbox' = [inbox EXCEPT ![I(c)] = Tail(@)]
      /\ UNCHANGED <<config, sent, wrote, opened, short, faults, failures>>
    BY <1>1 DEF AcceptResponse, I
<1>3. /\ Head(inbox[I(c)]) \in Arrivals
      /\ Tail(inbox[I(c)]) \in Seq(Arrivals)
    BY <1>2, HeadTailProperties DEF IInv, InboxOK
<1>4. f \in sent
    BY <1>1, <1>2, <1>3, ValidResponse
<1>5. PICK d \in Conns :
          /\ Done(R(d))
          /\ local[R(d)] = f.enc.id /\ holds[R(d)] = f.enc.id
          /\ remote[R(d)] = local[I(c)]
          /\ shared[R(d)] = XWingDecapsulate(holds[I(c)], f.ct)
    BY <1>1, <1>2, <1>3, ValidResponse, SMTT(30)
<1>6. /\ st'[I(c)] = "done" /\ remote'[I(c)] = f.enc.id
      /\ shared'[I(c)] = shared[R(d)] /\ took'[I(c)] = f
      /\ \A e \in Endpoints \ {I(c)} :
            /\ st'[e] = st[e] /\ remote'[e] = remote[e]
            /\ shared'[e] = shared[e] /\ took'[e] = took[e]
    BY <1>2, <1>5 DEF IInv, Types
<1>7. f.enc.id \in Ids
    BY <1>5 DEF IInv, Types
<1>8. Types'
    BY <1>2, <1>7 DEF IInv, Types, States, Owners, config
<1>9. Grows
    BY <1>2, <1>6 DEF Grows, Done
<1>10. InboxOK'
  <2>1. Arrivals' = Arrivals
      BY <1>2 DEF Arrivals, Forms, InitForms, ResponseForms, RecordForms
  <2> QED
      BY <1>2, <1>3, <2>1 DEF IInv, InboxOK
<1>11. SentOK'
    BY <1>2, <1>9, GrowsKeeps DEF SentOK
<1>12. SecretOK'
  <2>1. shared[R(d)] # None
      BY <1>5 DEF IInv, SecretOK, Done
  <2> QED
      BY <1>6, <2>1 DEF IInv, SecretOK
<1>13. WroteOK'
    BY <1>2, <1>9 DEF IInv, Types, WroteOK, Grows, Done
<1>14. ASSUME NEW b \in Conns
       PROVE  ResponderOK(b)' /\ InitiatorOK(b)'
  <2>1. R(b) # I(c) /\ R(d) # I(c)
      BY DEF I, R
  <2>2. ResponderOK(b)'
    <3>1. ~Done(R(b)) => ~Done(R(b))'
        BY <1>6, <2>1 DEF Done
    <3> QED
        BY <1>9, <3>1, GrowsKeeps DEF ResponderOK
  <2>3. InitiatorOK(b)'
    <3>1. CASE b = c
      <4>1. Partner(I(c), R(d))'
          BY <1>2, <1>5, <1>6, <2>1 DEF Partner, Done, config
      <4> QED
          BY <3>1, <4>1, <1>2, <1>4, <1>6 DEF InitiatorOK
    <3>2. CASE b # c
      <4>1. I(b) # I(c)
          BY <3>2 DEF I
      <4>2. ~Done(I(b)) => ~Done(I(b))'
          BY <1>6, <4>1 DEF Done
      <4> QED
          BY <1>9, <4>2, GrowsKeeps DEF InitiatorOK
    <3> QED
        BY <3>1, <3>2
  <2> QED
      BY <2>2, <2>3
<1> QED
    BY <1>2, <1>8, <1>9, <1>10, <1>11, <1>12, <1>13, <1>14, OpenedKeeps DEF IInv

\* Handshakes that end in an error change nothing that anybody completed with.
LEMMA FailKeeps ==
    ASSUME IInv, NEW e \in Endpoints,
           Reject(e) \/ PeerClosed(e) \/ Expire(e) \/ Abort(e)
    PROVE  IInv'
<1>1. /\ st[e] \in {"start", "wait"}
      /\ st' = [st EXCEPT ![e] = "failed"]
      /\ inbox' = [inbox EXCEPT ![e] = <<>>]
      /\ UNCHANGED <<config, remote, shared, took, sent, wrote, opened, short,
                     faults>>
      /\ failures' \in {failures, failures + 1}
    BY DEF Reject, PeerClosed, Expire, Abort, InHandshake, Fail
<1>2. Types'
    BY <1>1 DEF IInv, Types, States, config
<1>3. Arrivals' = Arrivals
    BY <1>1 DEF Arrivals, Forms, InitForms, ResponseForms, RecordForms
<1>4. InboxOK'
    BY <1>1, <1>3, EmptySeq DEF IInv, InboxOK
<1>5. \A d \in Endpoints : st'[d] = "done" <=> st[d] = "done"
    BY <1>1 DEF IInv, Types
<1> QED
    BY <1>1, <1>2, <1>4, <1>5, QuietStep

\* The network's faults touch an inbox only.
LEMMA NetworkKeeps ==
    ASSUME IInv, NEW e \in Endpoints, Misdeliver(e) \/ Damage(e) \/ Lose(e)
    PROVE  IInv'
<1>1. PICK f, l : NetworkFault(e, f, l) /\ f \in Seq(Arrivals) /\ l \in {{}, {e}}
  <2>1. CASE Misdeliver(e)
    <3>1. PICK m \in sent : NetworkFault(e, <<m>> \o inbox[e], {})
        BY <2>1 DEF Misdeliver
    <3>2. m \in Arrivals
      <4>1. CASE WrittenInit(m)
          BY <4>1, OwnInitForm DEF WrittenInit, Arrivals
      <4>2. CASE WrittenResponse(m)
          BY <4>2, OwnResponseForm DEF WrittenResponse, ResponseOf, Arrivals
      <4>3. CASE WrittenRecord(m)
          BY <4>3, OwnRecordForm DEF WrittenRecord, Arrivals
      <4> QED
          BY <4>1, <4>2, <4>3 DEF IInv, SentOK
    <3>3. <<m>> \o inbox[e] \in Seq(Arrivals)
        BY <3>2, ConcatProperties DEF IInv, InboxOK
    <3> QED
        BY <3>1, <3>3
  <2>2. CASE Damage(e)
    <3>1. PICK d \in DamagedForms(Head(inbox[e])) :
              NetworkFault(e, <<d>> \o Tail(inbox[e]), {})
        BY <2>2 DEF Damage
    <3>2. Head(inbox[e]) \in Arrivals /\ Tail(inbox[e]) \in Seq(Arrivals)
        BY <2>2, HeadTailProperties DEF Damage, IInv, InboxOK
    <3>3. d \in Arrivals
      <4>1. CASE Head(inbox[e]) \in {Garbled, Short}
        <5>1. d = Garbled
            BY <4>1 DEF DamagedForms, Garbled, Short
        <5> QED
            BY <5>1 DEF Arrivals
      <4>2. CASE \E m \in sent : Head(inbox[e]) \in Forms(m)
        <5>1. PICK m \in sent : Head(inbox[e]) \in Forms(m)
            BY <4>2
        <5>2. d \in Forms(m) \cup {Garbled}
            BY <5>1, DamagedAgain
        <5> QED
            BY <5>2 DEF Arrivals
      <4> QED
          BY <3>2, <4>1, <4>2 DEF Arrivals
    <3>4. <<d>> \o Tail(inbox[e]) \in Seq(Arrivals)
        BY <3>2, <3>3, ConcatProperties
    <3> QED
        BY <3>1, <3>4
  <2>3. CASE Lose(e)
    <3>1. PICK s \in {<<>>, <<Short>>} :
              NetworkFault(e, s \o Tail(inbox[e]), {e})
        BY <2>3 DEF Lose
    <3>2. Tail(inbox[e]) \in Seq(Arrivals)
        BY <2>3, HeadTailProperties DEF Lose, IInv, InboxOK
    <3>3. s \in Seq(Arrivals)
      <4>1. Short \in Arrivals
          BY DEF Arrivals
      <4>2. <<Short>> \in Seq(Arrivals)
          BY <4>1
      <4> QED
          BY <4>2, EmptySeq
    <3>4. s \o Tail(inbox[e]) \in Seq(Arrivals)
        BY <3>2, <3>3, ConcatProperties
    <3> QED
        BY <3>1, <3>4
  <2> QED
      BY <2>1, <2>2, <2>3
<1>2. /\ inbox' = [inbox EXCEPT ![e] = f] /\ faults' = faults + 1
      /\ short' = short \cup l
      /\ UNCHANGED <<config, st, remote, shared, took, sent, wrote, opened,
                     failures>>
    BY <1>1 DEF NetworkFault
<1>3. Types'
    BY <1>1, <1>2 DEF IInv, Types, config
<1>4. Arrivals' = Arrivals
    BY <1>2 DEF Arrivals, Forms, InitForms, ResponseForms, RecordForms
<1>5. InboxOK'
    BY <1>1, <1>2, <1>4 DEF IInv, InboxOK
<1> QED
    BY <1>2, <1>3, <1>5, QuietStep

\* The bytes readFrame takes for a short frame leave the frames behind it.
LEMMA SwallowKeeps ==
    ASSUME IInv, NEW e \in Endpoints, Swallow(e)
    PROVE  IInv'
<1>1. PICK m \in {Garbled, Short} :
          inbox' = [inbox EXCEPT ![e] = <<m>> \o SubSeq(@, 3, Len(@))]
    BY DEF Swallow
<1>2. /\ Len(inbox[e]) > 1
      /\ UNCHANGED <<config, st, remote, shared, took, sent, wrote, opened, short,
                     faults, failures>>
    BY DEF Swallow
<1>3. PICK s : s = inbox[e]
    OBVIOUS
<1>4. s \in Seq(Arrivals)
    BY <1>3 DEF IInv, InboxOK
<1>5. SubSeq(s, 3, Len(s)) \in Seq(Arrivals)
  <2>1. Len(s) \in Int
      BY <1>4, LenProperties
  <2>2. \A i \in 3..Len(s) : s[i] \in Arrivals
      BY <1>4, <2>1, ElementOfSeq
  <2> QED
      BY <2>1, <2>2, SubSeqProperties
<1>6. <<m>> \o SubSeq(s, 3, Len(s)) \in Seq(Arrivals)
  <2>1. m \in Arrivals
      BY DEF Arrivals
  <2> QED
      BY <1>5, <2>1, ConcatProperties
<1>7. Arrivals' = Arrivals
    BY <1>2 DEF Arrivals, Forms, InitForms, ResponseForms, RecordForms
<1>8. InboxOK'
    BY <1>1, <1>3, <1>6, <1>7 DEF IInv, InboxOK
<1>9. Types'
    BY <1>2 DEF IInv, Types, config
<1> QED
    BY <1>2, <1>8, <1>9, QuietStep

\* A record is written only on an established channel.
LEMMA WriteRecordKeeps ==
    ASSUME IInv, NEW e \in Endpoints, WriteRecord(e)
    PROVE  IInv'
<1> USE EndpointFact
<1>1. PICK m : m = Record(e)
    OBVIOUS
<1>2. /\ st[e] = "done" /\ wrote' = wrote \cup {e} /\ Write(e, m, 0)
      /\ UNCHANGED <<config, st, remote, shared, took, opened, short, faults,
                     failures>>
    BY <1>1 DEF WriteRecord
<1>3. Types'
    BY <1>2 DEF IInv, Types, config
<1>4. Grows
    BY <1>2 DEF Grows, Write, Done
<1>5. InboxOK'
    BY <1>1, <1>2, <1>4, WriteKeeps, OwnRecordForm
<1>6. WrittenRecord(m)' /\ sent' = sent \cup {m}
  <2>1. Record(e)' = m
      BY <1>1, <1>2 DEF Record, txKey
  <2> QED
      BY <1>2, <2>1 DEF WrittenRecord, Write
<1>7. SentOK'
    BY <1>4, <1>6, GrowsKeeps DEF SentOK
<1>8. SecretOK' /\ WroteOK'
    BY <1>2 DEF IInv, SecretOK, WroteOK, Done
<1> QED
    BY <1>2, <1>3, <1>4, <1>5, <1>7, <1>8, OpenedKeeps, NobodyCompletes DEF IInv

\* A record that is read opens only if it comes from the peer.
LEMMA ReadRecordKeeps ==
    ASSUME IInv, NEW e \in Endpoints, ReadRecord(e)
    PROVE  IInv'
<1> USE EndpointFact
<1>1. PICK f : f = Head(inbox[e])
    OBVIOUS
<1>2. /\ Done(e) /\ inbox[e] # <<>>
      /\ opened' = IF RecordOpens(e, f)
                   THEN opened \cup {[at |-> e, from |-> f.from]} ELSE opened
      /\ inbox' = [inbox EXCEPT ![e] = Tail(@)]
      /\ UNCHANGED <<config, st, remote, shared, took, sent, wrote, short,
                     faults, failures>>
    BY <1>1 DEF ReadRecord, FrameArrived, Done
<1>3. f \in Arrivals /\ Tail(inbox[e]) \in Seq(Arrivals)
    BY <1>1, <1>2, HeadTailProperties DEF IInv, InboxOK
<1>4. RecordOpens(e, f) =>
          /\ f.from \in Endpoints /\ Done(f.from) /\ f.from[2] # e[2]
          /\ remote[f.from] = local[e] /\ local[f.from] = remote[e]
    BY <1>2, <1>3, ValidRecord
<1>5. Grows
    BY <1>2 DEF Grows, Done
<1>6. Types'
    BY <1>2, <1>4 DEF IInv, Types, config
<1>7. InboxOK'
  <2>1. Arrivals' = Arrivals
      BY <1>2 DEF Arrivals, Forms, InitForms, ResponseForms, RecordForms
  <2> QED
      BY <1>2, <1>3, <2>1 DEF IInv, InboxOK
<1>8. SentOK'
    BY <1>2, <1>5, GrowsKeeps DEF SentOK
<1>9. SecretOK' /\ WroteOK'
    BY <1>2 DEF IInv, SecretOK, WroteOK, Done
<1>10. OpenedOK'
  <2> SUFFICES ASSUME NEW o \in opened'
               PROVE  /\ Done(o.at)' /\ o.from[2] # o.at[2] /\ Done(o.from)'
                      /\ remote'[o.from] = local'[o.at]
                      /\ local'[o.from] = remote'[o.at]
      BY DEF OpenedOK, RecordOrigin
  <2>1. CASE o \in opened
      BY <2>1, <1>5, GrowsKeeps
  <2>2. CASE o \notin opened
    <3>1. RecordOpens(e, f) /\ o = [at |-> e, from |-> f.from]
        BY <1>2, <2>2
    <3>2. o.at = e /\ o.from = f.from
        BY <3>1
    <3> QED
        BY <1>2, <1>4, <3>1, <3>2 DEF Done, config
  <2> QED
      BY <2>1, <2>2
<1> QED
    BY <1>2, <1>5, <1>6, <1>7, <1>8, <1>9, <1>10, NobodyCompletes DEF IInv

\* Every step keeps the invariant.
LEMMA StepInv == IInv /\ [Next]_vars => IInv'
<1> SUFFICES ASSUME IInv, [Next]_vars PROVE IInv'
    OBVIOUS
<1>1. CASE UNCHANGED vars
  <2>1. Types'
      BY <1>1 DEF vars, config, IInv, Types
  <2>2. Arrivals' = Arrivals
      BY <1>1 DEF vars, Arrivals, Forms, InitForms, ResponseForms, RecordForms
  <2>3. InboxOK'
      BY <1>1, <2>2 DEF vars, IInv, InboxOK
  <2> QED
      BY <1>1, <2>1, <2>3, QuietStep DEF vars
<1>2. ASSUME NEW c \in Conns, ConnStep(c)
      PROVE  IInv'
    BY <1>2, SendInitKeeps, AcceptInitKeeps, AcceptResponseKeeps DEF ConnStep
<1>3. ASSUME NEW e \in Endpoints,
             \/ EndpointStep(e) \/ WriteRecord(e) \/ Expire(e) \/ Abort(e)
             \/ Misdeliver(e) \/ Damage(e) \/ Lose(e)
      PROVE  IInv'
    BY <1>3, FailKeeps, SwallowKeeps, ReadRecordKeeps, WriteRecordKeeps, NetworkKeeps
       DEF EndpointStep
<1> QED
    BY <1>1, <1>2, <1>3 DEF Next

\* IInv is an invariant of any number of handshakes.
LEMMA Invariance == Spec => []IInv
<1> QED
    BY InitInv, StepInv, PTL DEF Spec

-----------------------------------------------------------------------------
\* The type invariant: among the rest, an endpoint holds a secret if and only if
\* runInitiator or runResponder returned it one.
THEOREM HandshakeTypeOK == Spec => []TypeOK
<1>1. IInv => TypeOK
    BY DEF IInv, Types, InboxOK, SecretOK, TypeOK, States
<1> QED
    BY <1>1, Invariance, PTL

\* runInitiator: a completed initiator agrees with a completed responder that
\* owns its identity, on both identities and on the secret.
THEOREM HandshakeInitiatorAgreement == Spec => []InitiatorAgreement
<1>1. ASSUME IInv, NEW e \in Endpoints, Done(e), e[2] = "I"
      PROVE  \E d \in Endpoints : /\ Done(d) /\ d[2] = "R"
                                  /\ local[d] = remote[e] /\ holds[d] = remote[e]
                                  /\ remote[d] = local[e]
                                  /\ shared[d] = shared[e]
  <2>1. e[1] \in Conns /\ e = I(e[1])
      BY <1>1, EndpointFact
  <2>2. PICK c \in Conns : Partner(e, R(c))
      BY <1>1, <2>1 DEF IInv, InitiatorOK
  <2>3. R(c) \in Endpoints /\ R(c)[2] = "R"
      BY EndpointFact
  <2> QED
      BY <2>2, <2>3 DEF Partner
<1>2. IInv => InitiatorAgreement
    BY <1>1 DEF InitiatorAgreement
<1> QED
    BY <1>2, Invariance, PTL

\* combineXWing and newConn: endpoints with one secret are of one session, and
\* no two responders derive the same secret.
THEOREM HandshakeNoKeyConfusion == Spec => []NoKeyConfusion
<1> QED
    BY KeysApart, Invariance, PTL

\* Conn.Read: a record opens only at the peer of the endpoint that wrote it,
\* never where it came from.
THEOREM HandshakeRecordOrigin == Spec => []RecordOrigin
<1>1. IInv => RecordOrigin
    BY DEF IInv, OpenedOK
<1> QED
    BY <1>1, Invariance, PTL

\* parse, Verify and aeadOpen: both sides complete only on frames that were
\* written as they stand, however often a frame is damaged.
THEOREM HandshakeTookWhatWasSent == Spec => []TookWhatWasSent
<1>1. ASSUME IInv, NEW e \in Endpoints, Done(e)
      PROVE  took[e] \in sent
    BY <1>1, EndpointFact DEF IInv, ResponderOK, InitiatorOK
<1>2. IInv => TookWhatWasSent
    BY <1>1 DEF TookWhatWasSent
<1> QED
    BY <1>2, Invariance, PTL
=============================================================================
