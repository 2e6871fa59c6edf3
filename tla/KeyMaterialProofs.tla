------------------------- MODULE KeyMaterialProofs -------------------------
(***************************************************************************)
(* Theorems about KeyMaterial, for any set of sessions, each end of each   *)
(* running the Go code or the TypeScript port.                             *)
(***************************************************************************)
EXTENDS KeyMaterial, TLAPS

Keys == {"keyI2R", "keyR2I"}

\* The places of an end before and after the secret is combined, and those at
\* which the two ends are known to agree on it.
Before == {"start", "ssM", "ephPriv", "ssX"}
Agreed == {"agreed", "result", "aeads", "up"}
Places == Before \cup {"combined", "shared", "idKey", "failed"} \cup Agreed

Shapes ==
    /\ impl \in [Ends -> {"go", "ts"}]
    /\ pc \in [Ends -> Places]
    /\ DOMAIN mem = Ends /\ \A p \in Ends : DOMAIN mem[p] = Buffers
    /\ DOMAIN msg = Sessions
    /\ \A s \in Sessions : DOMAIN msg[s] = {"ssM", "ephPub", "key"}
    /\ DOMAIN aead = Ends /\ \A p \in Ends : DOMAIN aead[p] = Keys

Secret(p) == SessionSecret(p[1])
Wiped(x)  == x \in {Unused, Zeros}
ScratchWiped(p) == \A b \in {"ssM", "ephPriv", "ssX"} : Wiped(mem[p][b])

\* The responder's scratch buffers hold what the session is made from until
\* they are wiped.
ResponderOK(p) ==
    p[2] = "R" =>
        /\ pc[p] \in {"ssM", "ephPriv", "ssX"} =>
                mem[p]["ssM"] = <<"ssM", p[1]>>
        /\ pc[p] \in {"ephPriv", "ssX"} =>
                mem[p]["ephPriv"] = <<"ephPriv", p[1]>>
        /\ pc[p] = "ssX" => mem[p]["ssX"] = <<"X25519", <<"ephPriv", p[1]>>>>
        /\ pc[p] \in {"combined", "shared", "idKey"} =>
                mem[p]["shared"] = Secret(p)

\* The identity key is derived from shared, and ends that agree hold the
\* session's own secret there until the port wipes it.
AgreedOK(p) ==
    /\ pc[p] \in Before => mem[p]["shared"] = Unused
    /\ pc[p] = "idKey" => mem[p]["idKey"] = derive(mem[p]["shared"], "id")
    /\ pc[p] \in {"agreed", "result", "aeads"} => mem[p]["shared"] = Secret(p)

\* The channel keys are derived from it, and outlive shared: in the AEADs of
\* Go, in the buffers of the port.
KeysOK(p) ==
    \A b \in Keys :
        /\ pc[p] \in {"result", "aeads"} => mem[p][b] = derive(Secret(p), b)
        /\ pc[p] \in {"aeads", "up"} => aead[p][b] = derive(Secret(p), b)
        /\ pc[p] = "up" => mem[p][b] = IF impl[p] = "go" THEN Zeros
                                       ELSE derive(Secret(p), b)

\* What Go has wiped at each place; the copies only the port makes.
WipedOK(p) ==
    /\ pc[p] \in {"shared", "idKey"} \cup Agreed => ScratchWiped(p)
    /\ pc[p] = "failed" /\ mem[p]["shared"] # Unused => ScratchWiped(p)
    /\ impl[p] = "go" =>
          /\ Wiped(mem[p]["ssCopies"])
          /\ pc[p] \in {"result", "aeads", "up"} => Wiped(mem[p]["idKey"])
          /\ pc[p] = "failed" /\ mem[p]["shared"] # Unused =>
                Wiped(mem[p]["idKey"])

EndOK(p) == ResponderOK(p) /\ AgreedOK(p) /\ KeysOK(p) /\ WipedOK(p)

\* The key that seals a response is that of its session, whatever happens to
\* the response in transit, or no key that anybody derives.
MsgOK(s) ==
    msg[s].key \in {Unused, <<"other key", s>>, derive(SessionSecret(s), "id")}

IInv == /\ Shapes
        /\ \A p \in Ends : EndOK(p)
        /\ \A s \in Sessions : MsgOK(s)

-----------------------------------------------------------------------------
\* The terms are free: none of those that the proofs compare is another.
LEMMA Terms ==
    ASSUME NEW x, NEW y, NEW l
    PROVE  /\ combineXWing(x, y) # Unused
           /\ derive(x, l) # Unused
           /\ derive(x, l) # <<"other key", y>>
           /\ derive(x, l) = derive(y, l) => x = y
           /\ Zeros # Unused
BY DEF combineXWing, derive, Unused, Zeros

\* An end is a session and a role.
LEMMA EndFact ==
    /\ \A p \in Ends : p[1] \in Sessions /\ p[2] \in {"I", "R"}
    /\ \A s \in Sessions, e \in {"I", "R"} :
          /\ <<s, e>> \in Ends
          /\ <<s, e>>[1] = s
          /\ <<s, e>>[2] = e
BY DEF Ends

\* A step of one end leaves the others as they are.
LEMMA OneEnd ==
    ASSUME IInv, NEW p \in Ends,
           Shapes', EndOK(p)',
           \A s \in Sessions : MsgOK(s)',
           impl' = impl,
           \A q \in Ends \ {p} : /\ pc'[q] = pc[q]
                                 /\ mem'[q] = mem[q]
                                 /\ aead'[q] = aead[q]
    PROVE  IInv'
<1>1. ASSUME NEW q \in Ends, q # p
      PROVE  EndOK(q)'
    BY <1>1 DEF IInv, EndOK, ResponderOK, AgreedOK, KeysOK, WipedOK,
                ScratchWiped, Wiped, Secret
<1> QED
    BY <1>1 DEF IInv

\* Init: nothing is in any buffer.
LEMMA InitInv == Init => IInv
<1> SUFFICES ASSUME Init PROVE IInv
    OBVIOUS
<1>1. Shapes
    BY DEF Init, Shapes, NoMsg, Keys, Places, Before
<1>2. \A p \in Ends : EndOK(p)
    BY DEF Init, EndOK, ResponderOK, AgreedOK, KeysOK, WipedOK, Wiped, Before,
           Agreed, Buffers
<1>3. \A s \in Sessions : MsgOK(s)
    BY DEF Init, NoMsg, MsgOK
<1> QED
    BY <1>1, <1>2, <1>3 DEF IInv

\* The steps before the secret is combined put one thing into one buffer.
LEMMA PutKeeps ==
    ASSUME IInv, NEW p \in Ends, NEW from \in Before, NEW to \in Before \ {"start"},
           NEW b \in {"ssM", "ephPriv", "ssX"}, NEW x,
           Goto(p, from, to), Put(p, b, x), UNCHANGED <<msg, aead>>,
           p[2] = "R" =>
               \/ to = "ssM" /\ b = "ssM" /\ x = <<"ssM", p[1]>>
               \/ /\ from = "ssM" /\ to = "ephPriv" /\ b = "ephPriv"
                  /\ x = <<"ephPriv", p[1]>>
               \/ /\ from = "ephPriv" /\ to = "ssX" /\ b = "ssX"
                  /\ x = <<"X25519", <<"ephPriv", p[1]>>>>
    PROVE  IInv'
<1>1. /\ pc[p] = from
      /\ pc'[p] = to
      /\ mem'[p][b] = x
      /\ \A a \in Buffers \ {b} : mem'[p][a] = mem[p][a]
      /\ aead' = aead /\ impl' = impl
      /\ \A q \in Ends \ {p} : pc'[q] = pc[q] /\ mem'[q] = mem[q]
    BY DEF Goto, Put, IInv, Shapes, Buffers
<1>2. Shapes'
    BY DEF Goto, Put, IInv, Shapes, Buffers, Before, Places
<1>3. EndOK(p)'
  <2>1. ResponderOK(p)'
      BY <1>1 DEF IInv, EndOK, ResponderOK, Before, Buffers
  <2>2. AgreedOK(p)' /\ KeysOK(p)'
      BY <1>1 DEF IInv, EndOK, AgreedOK, KeysOK, Before, Buffers, Keys
  <2>3. WipedOK(p)'
      BY <1>1 DEF IInv, EndOK, WipedOK, Wiped, Before, Agreed, Buffers
  <2> QED
      BY <2>1, <2>2, <2>3 DEF EndOK
<1>4. \A s \in Sessions : MsgOK(s)'
    BY DEF IInv, MsgOK
<1> QED
    BY <1>1, <1>2, <1>3, <1>4, OneEnd

\* XWingEncapsulate, up to combineXWing.
LEMMA EncapsulateSteps ==
    ASSUME IInv, NEW s \in Sessions,
           Encapsulate(s) \/ MakeEphemeral(s) \/ EncapsulateX25519(s)
    PROVE  IInv'
<1> DEFINE p == <<s, "R">>
<1>0. p \in Ends /\ p[1] = s /\ p[2] = "R"
    BY EndFact
<1>1. CASE Encapsulate(s)
    BY <1>0, <1>1, PutKeeps DEF Encapsulate, Before
<1>2. CASE MakeEphemeral(s)
    BY <1>0, <1>2, PutKeeps DEF MakeEphemeral, Before
<1>3. CASE EncapsulateX25519(s)
  <2>1. mem[p]["ephPriv"] = <<"ephPriv", s>>
      BY <1>0, <1>3 DEF EncapsulateX25519, Goto, IInv, EndOK, ResponderOK
  <2>2. Goto(p, "ephPriv", "ssX")
      BY <1>3 DEF EncapsulateX25519
  <2>3. Put(p, "ssX", <<"X25519", <<"ephPriv", s>>>>)
      BY <1>3, <2>1 DEF EncapsulateX25519
  <2>4. UNCHANGED <<msg, aead>>
      BY <1>3 DEF EncapsulateX25519
  <2> HIDE DEF p
  <2> QED
      BY <1>0, <2>2, <2>3, <2>4, PutKeeps DEF Before
<1> QED
    BY <1>1, <1>2, <1>3

\* XWingDecapsulate, up to combineXWing.
LEMMA DecapsulateSteps ==
    ASSUME IInv, NEW s \in Sessions, Decapsulate(s) \/ DecapsulateX25519(s)
    PROVE  IInv'
<1> DEFINE p == <<s, "I">>
<1>0. p \in Ends /\ p[1] = s /\ p[2] = "I"
    BY EndFact
<1>1. CASE Decapsulate(s)
    BY <1>0, <1>1, PutKeeps DEF Decapsulate, Before
<1>2. CASE DecapsulateX25519(s)
    BY <1>0, <1>2, PutKeeps DEF DecapsulateX25519, Before
<1> QED
    BY <1>1, <1>2

\* What a step that changes one end's place, buffers and AEADs does to the rest.
LEMMA OneEndStep ==
    ASSUME IInv, NEW p \in Ends, NEW m, NEW to \in Places,
           DOMAIN m = Buffers,
           pc' = [pc EXCEPT ![p] = to], mem' = [mem EXCEPT ![p] = m],
           UNCHANGED <<impl, msg>>,
           \/ aead' = aead
           \/ \E k : aead' = [aead EXCEPT ![p] = k] /\ DOMAIN k = Keys,
           EndOK(p)'
    PROVE  IInv'
<1>1. Shapes'
    BY DEF IInv, Shapes
<1>2. \A s \in Sessions : MsgOK(s)'
    BY DEF IInv, MsgOK
<1>3. \A q \in Ends \ {p} : /\ pc'[q] = pc[q]
                            /\ mem'[q] = mem[q]
                            /\ aead'[q] = aead[q]
    BY DEF IInv, Shapes
<1> QED
    BY <1>1, <1>2, <1>3, OneEnd

\* zero, buffer by buffer.
LEMMA ZeroFact ==
    ASSUME NEW m, NEW B
    PROVE  /\ DOMAIN zero(m, B) = Buffers
           /\ \A b \in Buffers :
                /\ b \in B => Wiped(zero(m, B)[b])
                /\ b \in B /\ m[b] # Unused => zero(m, B)[b] = Zeros
                /\ b \notin B => zero(m, B)[b] = m[b]
BY DEF zero, Wiped

\* An early return leaves shared unused.
LEMMA EarlyReturnKeeps ==
    ASSUME IInv, NEW p \in Ends, EarlyReturn(p)
    PROVE  IInv'
<1>1. pc' = [pc EXCEPT ![p] = "failed"] /\ pc'[p] = "failed"
    BY DEF EarlyReturn, IInv, Shapes
<1>2. mem[p]["shared"] = Unused
    BY DEF EarlyReturn, IInv, EndOK, AgreedOK, Before
<1>3. EndOK(p)'
    BY <1>1, <1>2 DEF EarlyReturn, IInv, EndOK, ResponderOK, AgreedOK, KeysOK,
                      WipedOK, Before, Agreed
<1>4. Shapes'
    BY <1>1 DEF EarlyReturn, IInv, Shapes, Places
<1>5. \A q \in Ends \ {p} : pc'[q] = pc[q]
    BY <1>1 DEF IInv, Shapes
<1>6. \A s \in Sessions : MsgOK(s)'
    BY DEF EarlyReturn, IInv, MsgOK
<1> QED
    BY <1>3, <1>4, <1>5, <1>6, OneEnd DEF EarlyReturn

\* combineXWing at the responder makes the session's secret.
LEMMA CombineKeeps ==
    ASSUME IInv, NEW p \in Ends, Combine(p)
    PROVE  IInv'
<1>1. /\ pc[p] = "ssX" /\ pc'[p] = "combined"
      /\ impl' = impl /\ msg' = msg /\ aead' = aead
      /\ \A q \in Ends \ {p} : pc'[q] = pc[q]
    BY DEF Combine, Goto, IInv, Shapes
<1>2. /\ mem'[p]["shared"] = combineXWing(mem[p]["ssM"], mem[p]["ssX"])
      /\ mem'[p]["ssCopies"] = IF impl[p] = "ts"
                               THEN <<mem[p]["ssM"], mem[p]["ssX"]>> ELSE Unused
      /\ \A b \in Buffers \ {"shared", "ssCopies"} : mem'[p][b] = mem[p][b]
      /\ \A q \in Ends \ {p} : mem'[q] = mem[q]
    BY DEF Combine, IInv, Shapes, Buffers
<1>3. Shapes'
    BY DEF Combine, Goto, IInv, Shapes, Places
<1>4. ResponderOK(p)'
  <2>1. p[2] = "R" => /\ mem[p]["ssM"] = <<"ssM", p[1]>>
                      /\ mem[p]["ssX"] = <<"X25519", <<"ephPriv", p[1]>>>>
      BY <1>1 DEF IInv, EndOK, ResponderOK
  <2>2. p[2] = "R" => mem'[p]["shared"] = Secret(p)
      BY <2>1, <1>2 DEF Secret, SessionSecret
  <2> QED
      BY <1>1, <2>2 DEF ResponderOK, Secret
<1>5. AgreedOK(p)' /\ KeysOK(p)'
    BY <1>1 DEF AgreedOK, KeysOK, Before
<1>6. WipedOK(p)'
    BY <1>1, <1>2 DEF IInv, Shapes, WipedOK, Wiped, Agreed
<1>7. \A s \in Sessions : MsgOK(s)'
    BY <1>1 DEF IInv, MsgOK
<1> QED
    BY <1>1, <1>2, <1>3, <1>4, <1>5, <1>6, <1>7, OneEnd DEF EndOK

\* The scratch buffers are wiped once shared is made, and not before.
LEMMA WipeScratchKeeps ==
    ASSUME IInv, NEW p \in Ends, WipeScratch(p)
    PROVE  IInv'
<1> DEFINE m == zero(mem[p], {"ephPriv", "ssM", "ssX"})
<1>1. /\ pc[p] = "combined" /\ pc'[p] = "shared"
      /\ pc' = [pc EXCEPT ![p] = "shared"]
      /\ UNCHANGED <<impl, msg, aead>>
      /\ mem' = [mem EXCEPT ![p] = m] /\ mem'[p] = m
    BY DEF WipeScratch, Goto, IInv, Shapes
<1>2. /\ DOMAIN m = Buffers
      /\ Wiped(m["ephPriv"]) /\ Wiped(m["ssM"]) /\ Wiped(m["ssX"])
      /\ \A b \in Buffers \ {"ephPriv", "ssM", "ssX"} : m[b] = mem[p][b]
    BY ZeroFact DEF Buffers
<1> HIDE DEF m
<1>3. ResponderOK(p)'
    BY <1>1, <1>2 DEF IInv, EndOK, ResponderOK, Secret, Buffers
<1>4. AgreedOK(p)' /\ KeysOK(p)'
    BY <1>1 DEF AgreedOK, KeysOK, Before
<1>5. WipedOK(p)'
    BY <1>1, <1>2 DEF IInv, EndOK, WipedOK, ScratchWiped, Wiped, Buffers
<1> QED
    BY <1>1, <1>2, <1>3, <1>4, <1>5, OneEndStep DEF EndOK, Places

\* The identity key is derived from a secret nobody has wiped.
LEMMA DeriveIDKeyKeeps ==
    ASSUME IInv, NEW p \in Ends, DeriveIDKey(p)
    PROVE  IInv'
<1> DEFINE m == [mem[p] EXCEPT !["idKey"] = derive(mem[p]["shared"], "id")]
<1>1. /\ pc[p] = "shared" /\ pc'[p] = "idKey"
      /\ pc' = [pc EXCEPT ![p] = "idKey"]
      /\ UNCHANGED <<impl, msg, aead>>
      /\ mem' = [mem EXCEPT ![p] = m] /\ mem'[p] = m
    BY DEF DeriveIDKey, Put, Goto, IInv, Shapes
<1>2. /\ DOMAIN m = Buffers
      /\ m["idKey"] = derive(mem[p]["shared"], "id")
      /\ \A b \in Buffers \ {"idKey"} : m[b] = mem[p][b]
    BY DEF IInv, Shapes, Buffers
<1> HIDE DEF m
<1>3. ResponderOK(p)'
    BY <1>1, <1>2 DEF IInv, EndOK, ResponderOK, Secret, Buffers
<1>4. AgreedOK(p)' /\ KeysOK(p)'
    BY <1>1, <1>2 DEF AgreedOK, KeysOK, Before, Buffers
<1>5. WipedOK(p)'
    BY <1>1, <1>2 DEF IInv, EndOK, WipedOK, ScratchWiped, Wiped, Buffers
<1> QED
    BY <1>1, <1>2, <1>3, <1>4, <1>5, OneEndStep DEF EndOK, Places

\* The responder seals its identity under the session's key.
LEMMA RespondKeeps ==
    ASSUME IInv, NEW s \in Sessions, Respond(s)
    PROVE  IInv'
<1> DEFINE p == <<s, "R">>
<1>0. p \in Ends /\ p[1] = s /\ p[2] = "R"
    BY EndFact
<1>1. /\ pc[p] = "idKey" /\ pc'[p] = "agreed"
      /\ UNCHANGED <<impl, mem, aead>>
      /\ \A q \in Ends \ {p} : pc'[q] = pc[q]
      /\ msg'[s].key = mem[p]["idKey"]
      /\ \A t \in Sessions \ {s} : msg'[t] = msg[t]
    BY <1>0 DEF Respond, Goto, IInv, Shapes
<1>2. Shapes'
    BY <1>0 DEF Respond, Goto, IInv, Shapes, Places, Agreed
<1>3. mem[p]["shared"] = Secret(p) /\ mem[p]["idKey"] = derive(Secret(p), "id")
    BY <1>0, <1>1 DEF IInv, EndOK, ResponderOK, AgreedOK
<1>4. EndOK(p)
    BY <1>0 DEF IInv
<1>5. \A t \in Sessions : MsgOK(t)'
    BY <1>0, <1>1, <1>3 DEF IInv, MsgOK, Secret
<1> HIDE DEF p
<1>6. EndOK(p)'
    BY <1>1, <1>3, <1>4 DEF EndOK, ResponderOK, AgreedOK, KeysOK, WipedOK,
                            ScratchWiped, Wiped, Secret, Before, Agreed
<1> QED
    BY <1>0, <1>1, <1>2, <1>5, <1>6, OneEnd

\* An initiator whose identity key opens the response holds the session's
\* secret, for the key is derived from it and from nothing else.
LEMMA OpenResponseKeeps ==
    ASSUME IInv, NEW s \in Sessions, OpenResponse(s)
    PROVE  IInv'
<1> DEFINE p == <<s, "I">>
<1>0. p \in Ends /\ p[1] = s /\ p[2] = "I"
    BY EndFact
<1>1. /\ pc[p] = "idKey" /\ pc'[p] = "agreed"
      /\ UNCHANGED <<impl, mem, msg, aead>>
      /\ \A q \in Ends \ {p} : pc'[q] = pc[q]
      /\ msg[s].key = mem[p]["idKey"]
    BY <1>0 DEF OpenResponse, Goto, IInv, Shapes
<1>2. Shapes'
    BY <1>0 DEF OpenResponse, Goto, IInv, Shapes, Places, Agreed
<1>3. EndOK(p) /\ MsgOK(s)
    BY <1>0 DEF IInv
<1>4. mem[p]["shared"] = Secret(p)
  <2>1. msg[s].key = derive(mem[p]["shared"], "id")
      BY <1>1, <1>3 DEF EndOK, AgreedOK
  <2>2. /\ derive(mem[p]["shared"], "id") # Unused
        /\ derive(mem[p]["shared"], "id") # <<"other key", s>>
      BY Terms
  <2>3. msg[s].key = derive(SessionSecret(s), "id")
      BY <1>3, <2>1, <2>2 DEF MsgOK
  <2> QED
      BY <1>0, <2>1, <2>3, Terms, ZenonT(30) DEF Secret
<1>5. \A t \in Sessions : MsgOK(t)'
    BY <1>1 DEF IInv, MsgOK
<1> HIDE DEF p
<1>6. EndOK(p)'
    BY <1>0, <1>1, <1>3, <1>4 DEF EndOK, ResponderOK, AgreedOK, KeysOK, WipedOK,
                                  ScratchWiped, Wiped, Secret, Before, Agreed
<1> QED
    BY <1>0, <1>1, <1>2, <1>5, <1>6, OneEnd

\* An error after shared was made: Go's deferred zero(idKey) runs.
LEMMA LateReturnKeeps ==
    ASSUME IInv, NEW p \in Ends, LateReturn(p)
    PROVE  IInv'
<1> DEFINE m == zero(mem[p], Deferred(p, FALSE))
<1>1. /\ pc[p] = "idKey" /\ pc'[p] = "failed"
      /\ pc' = [pc EXCEPT ![p] = "failed"]
      /\ UNCHANGED <<impl, msg, aead>>
      /\ mem' = [mem EXCEPT ![p] = m] /\ mem'[p] = m
    BY DEF LateReturn, Goto, IInv, Shapes
<1>2. /\ DOMAIN m = Buffers
      /\ impl[p] = "go" => Wiped(m["idKey"])
      /\ \A b \in Buffers \ {"idKey"} : m[b] = mem[p][b]
    BY ZeroFact DEF Buffers, Deferred
<1> HIDE DEF m
<1>3. ResponderOK(p)' /\ AgreedOK(p)' /\ KeysOK(p)'
    BY <1>1 DEF ResponderOK, AgreedOK, KeysOK, Before
<1>4. WipedOK(p)'
    BY <1>1, <1>2 DEF IInv, EndOK, WipedOK, ScratchWiped, Wiped, Agreed, Buffers
<1> QED
    BY <1>1, <1>2, <1>3, <1>4, OneEndStep DEF EndOK, Places

\* The channel keys are derived before anything they need is wiped.
LEMMA DeriveChannelKeysKeeps ==
    ASSUME IInv, NEW p \in Ends, DeriveChannelKeys(p)
    PROVE  IInv'
<1> DEFINE result == [mem[p] EXCEPT
                        !["keyI2R"] = derive(mem[p]["shared"], "keyI2R"),
                        !["keyR2I"] = derive(mem[p]["shared"], "keyR2I")]
           m == zero(result, Deferred(p, TRUE))
<1>1. /\ pc[p] = "agreed" /\ pc'[p] = "result"
      /\ pc' = [pc EXCEPT ![p] = "result"]
      /\ UNCHANGED <<impl, msg, aead>>
      /\ mem' = [mem EXCEPT ![p] = m] /\ mem'[p] = m
    BY DEF DeriveChannelKeys, Goto, IInv, Shapes
<1>2. mem[p]["shared"] = Secret(p)
    BY <1>1 DEF IInv, EndOK, AgreedOK
<1>3. /\ result["keyI2R"] = derive(Secret(p), "keyI2R")
      /\ result["keyR2I"] = derive(Secret(p), "keyR2I")
      /\ \A b \in Buffers \ Keys : result[b] = mem[p][b]
    BY <1>2 DEF IInv, Shapes, Buffers, Keys
<1> HIDE DEF result
<1>4. /\ DOMAIN m = Buffers
      /\ impl[p] = "go" => Wiped(m["idKey"])
      /\ \A b \in Buffers \ {"idKey"} : m[b] = result[b]
    BY ZeroFact DEF Buffers, Deferred
<1> HIDE DEF m
<1>5. ResponderOK(p)'
    BY <1>1 DEF ResponderOK
<1>6. AgreedOK(p)'
    BY <1>1, <1>2, <1>3, <1>4 DEF AgreedOK, Before, Buffers, Keys, Secret
<1>7. KeysOK(p)'
    BY <1>1, <1>3, <1>4 DEF KeysOK, Buffers, Keys, Secret
<1>8. WipedOK(p)'
    BY <1>1, <1>3, <1>4 DEF IInv, EndOK, WipedOK, ScratchWiped, Wiped, Agreed,
                            Buffers, Keys
<1> QED
    BY <1>1, <1>4, <1>5, <1>6, <1>7, <1>8, OneEndStep DEF EndOK, Places, Agreed

\* newConn's AEADs get the keys of the result.
LEMMA BuildAEADsKeeps ==
    ASSUME IInv, NEW p \in Ends, BuildAEADs(p)
    PROVE  IInv'
<1> DEFINE k == [b \in Keys |-> mem[p][b]]
<1>1. /\ pc[p] = "result" /\ pc'[p] = "aeads"
      /\ UNCHANGED <<impl, msg, mem>>
      /\ aead' = [aead EXCEPT ![p] = k] /\ aead'[p] = k
      /\ \A q \in Ends \ {p} : pc'[q] = pc[q] /\ aead'[q] = aead[q]
    BY DEF BuildAEADs, Goto, IInv, Shapes, Keys
<1>2. Shapes'
    BY <1>1 DEF BuildAEADs, Goto, IInv, Shapes, Places, Agreed
<1>3. ResponderOK(p)' /\ AgreedOK(p)'
    BY <1>1 DEF IInv, EndOK, ResponderOK, AgreedOK, Before, Secret
<1>4. KeysOK(p)'
    BY <1>1 DEF IInv, EndOK, KeysOK, Secret
<1>5. WipedOK(p)'
    BY <1>1 DEF IInv, EndOK, WipedOK, ScratchWiped, Wiped, Agreed
<1>6. \A s \in Sessions : MsgOK(s)'
    BY <1>1 DEF IInv, MsgOK
<1> QED
    BY <1>1, <1>2, <1>3, <1>4, <1>5, <1>6, OneEnd DEF EndOK

\* newConn wipes Go's key slices, which its AEADs have copied; the port wipes
\* shared, and keeps the keys it refers to.
LEMMA WipeResultKeeps ==
    ASSUME IInv, NEW p \in Ends, WipeResult(p)
    PROVE  IInv'
<1> DEFINE B == IF impl[p] = "go" THEN Keys ELSE {"shared"}
           m == zero(mem[p], B)
<1>1. /\ pc[p] = "aeads" /\ pc'[p] = "up"
      /\ pc' = [pc EXCEPT ![p] = "up"]
      /\ UNCHANGED <<impl, msg, aead>>
      /\ mem' = [mem EXCEPT ![p] = m] /\ mem'[p] = m
    BY DEF WipeResult, Goto, IInv, Shapes, Keys
<1>2. \A b \in Keys : mem[p][b] = derive(Secret(p), b) /\ mem[p][b] # Unused
  <2> TAKE b \in Keys
  <2>1. mem[p][b] = derive(Secret(p), b)
      BY <1>1 DEF IInv, EndOK, KeysOK
  <2>2. derive(Secret(p), b) # Unused
      BY Terms
  <2> QED
      BY <2>1, <2>2
<1>3. /\ DOMAIN m = Buffers
      /\ impl[p] = "go" => \A b \in Keys : m[b] = Zeros
      /\ impl[p] = "ts" => \A b \in Keys : m[b] = mem[p][b]
      /\ \A b \in Buffers \ (Keys \cup {"shared"}) : m[b] = mem[p][b]
  <2>1. Keys \subseteq Buffers /\ "shared" \notin Keys
      BY DEF Buffers, Keys
  <2> QED
      BY <1>2, <2>1, ZeroFact
<1> HIDE DEF m
<1>4. ResponderOK(p)' /\ AgreedOK(p)'
    BY <1>1 DEF ResponderOK, AgreedOK, Before
<1>5. KeysOK(p)'
  <2> SUFFICES ASSUME NEW b \in Keys
               PROVE  /\ aead[p][b] = derive(Secret(p), b)
                      /\ m[b] = IF impl[p] = "go" THEN Zeros
                                ELSE derive(Secret(p), b)
      BY <1>1 DEF KeysOK, Secret
  <2>1. impl[p] \in {"go", "ts"}
      BY DEF IInv, Shapes
  <2> QED
      BY <1>1, <1>2, <1>3, <2>1 DEF IInv, EndOK, KeysOK
<1>6. WipedOK(p)'
    BY <1>1, <1>3 DEF IInv, EndOK, WipedOK, ScratchWiped, Wiped, Agreed,
                      Buffers, Keys
<1> QED
    BY <1>1, <1>3, <1>4, <1>5, <1>6, OneEndStep DEF EndOK, Places, Agreed

\* Damage in transit gives a response no key that anybody derives.
LEMMA DamageKeeps ==
    ASSUME IInv, NEW s \in Sessions, Damage(s)
    PROVE  IInv'
<1>1. UNCHANGED <<impl, pc, mem, aead>>
    BY DEF Damage
<1>2. Shapes'
    BY DEF Damage, IInv, Shapes
<1>3. \A p \in Ends : EndOK(p)'
    BY <1>1 DEF IInv, EndOK, ResponderOK, AgreedOK, KeysOK, WipedOK,
                ScratchWiped, Wiped, Secret
<1>4. \A t \in Sessions \ {s} : msg'[t] = msg[t]
    BY DEF Damage, IInv, Shapes
<1>5. msg'[s].key \in {msg[s].key, <<"other key", s>>}
    BY DEF Damage, IInv, Shapes
<1>6. \A t \in Sessions : MsgOK(t)'
    BY <1>4, <1>5 DEF IInv, MsgOK
<1> QED
    BY <1>2, <1>3, <1>6 DEF IInv

\* Every step keeps the invariant.
LEMMA StepInv == IInv /\ [Next]_vars => IInv'
<1> SUFFICES ASSUME IInv, [Next]_vars PROVE IInv'
    OBVIOUS
<1>1. CASE UNCHANGED vars
  <2>1. Shapes'
      BY <1>1 DEF vars, IInv, Shapes
  <2>2. ASSUME NEW p \in Ends PROVE EndOK(p)'
    <3>1. EndOK(p)
        BY DEF IInv
    <3>2. ResponderOK(p)'
        BY <1>1, <3>1 DEF vars, EndOK, ResponderOK, Secret
    <3>3. AgreedOK(p)' /\ KeysOK(p)'
        BY <1>1, <3>1 DEF vars, EndOK, AgreedOK, KeysOK, Secret
    <3>4. WipedOK(p)'
        BY <1>1, <3>1 DEF vars, EndOK, WipedOK, ScratchWiped, Wiped
    <3> QED
        BY <3>2, <3>3, <3>4 DEF EndOK
  <2>3. \A s \in Sessions : MsgOK(s)'
      BY <1>1 DEF vars, IInv, MsgOK
  <2> QED
      BY <2>1, <2>2, <2>3 DEF IInv
<1>2. CASE Next
    BY <1>2, EncapsulateSteps, DecapsulateSteps, RespondKeeps,
       OpenResponseKeeps, DamageKeeps, EarlyReturnKeeps, CombineKeeps,
       WipeScratchKeeps, DeriveIDKeyKeeps, LateReturnKeeps,
       DeriveChannelKeysKeeps, BuildAEADsKeeps, WipeResultKeeps DEF Next
<1> QED
    BY <1>1, <1>2

\* IInv is an invariant of every set of sessions.
LEMMA Invariance == Spec => []IInv
<1> QED
    BY InitInv, StepInv, PTL DEF Spec

-----------------------------------------------------------------------------
\* newConn and the port's constructor: an established end uses the keys of its
\* session's own secret, the same in each direction as its peer, although every
\* buffer they came from is wiped at some time.
THEOREM KeyMaterialKeysIntact == Spec => []KeysIntact
<1>1. ASSUME IInv, NEW p \in Ends, pc[p] = "up", NEW b \in Keys
      PROVE  AEADKey(p, b) = derive(SessionSecret(p[1]), b)
    BY <1>1 DEF IInv, Shapes, EndOK, KeysOK, AEADKey, Secret
<1>2. ASSUME IInv, NEW s \in Sessions, NEW e \in {"I", "R"},
             NEW f \in {"I", "R"}, e # f,
             pc[<<s, e>>] = "up", pc[<<s, f>>] = "up"
      PROVE  AEADKey(<<s, e>>, Sending(<<s, e>>))
                 = AEADKey(<<s, f>>, Receiving(<<s, f>>))
  <2>1. /\ Sending(<<s, e>>) = Receiving(<<s, f>>)
        /\ Sending(<<s, e>>) \in Keys
      BY <1>2 DEF Sending, Receiving, Keys
  <2>2. /\ <<s, e>> \in Ends /\ <<s, e>>[1] = s
        /\ <<s, f>> \in Ends /\ <<s, f>>[1] = s
      BY EndFact
  <2>3. AEADKey(<<s, e>>, Sending(<<s, e>>))
            = derive(SessionSecret(s), Sending(<<s, e>>))
      BY <1>1, <1>2, <2>1, <2>2
  <2>4. AEADKey(<<s, f>>, Receiving(<<s, f>>))
            = derive(SessionSecret(s), Receiving(<<s, f>>))
      BY <1>1, <1>2, <2>1, <2>2
  <2> QED
      BY <2>1, <2>3, <2>4
<1>3. IInv => KeysIntact
    BY <1>1, <1>2 DEF KeysIntact, Keys
<1> QED
    BY <1>3, Invariance, PTL

\* handshake.go and newConn: on every way out of runInitiator and runResponder
\* once shared exists (an error inside the KEM wipes nothing), the secrets that
\* went into shared, the ephemeral key and idKey are wiped, and newConn leaves no
\* channel key outside the AEADs.
THEOREM KeyMaterialSecretsWiped == Spec => []SecretsWiped
<1>1. ASSUME IInv, NEW p \in Ends, impl[p] = "go", Returned(p),
             mem[p]["shared"] # Unused
      PROVE  Live(p) \subseteq {"shared", "keyI2R", "keyR2I"}
  <2>1. \A b \in {"ssM", "ephPriv", "ssX", "ssCopies", "idKey"} : Wiped(mem[p][b])
      BY <1>1 DEF IInv, EndOK, WipedOK, ScratchWiped, Returned, Agreed
  <2> QED
      BY <2>1 DEF Live, Buffers, Wiped
<1>2. ASSUME IInv, NEW p \in Ends, impl[p] = "go", pc[p] = "up"
      PROVE  Live(p) \subseteq {"shared"}
  <2>1. \A b \in {"ssM", "ephPriv", "ssX", "ssCopies", "idKey"} : Wiped(mem[p][b])
      BY <1>2 DEF IInv, EndOK, WipedOK, ScratchWiped, Agreed
  <2>2. \A b \in Keys : mem[p][b] = Zeros
      BY <1>2 DEF IInv, EndOK, KeysOK
  <2> QED
      BY <2>1, <2>2 DEF Live, Buffers, Wiped, Keys
<1>3. IInv => SecretsWiped
    BY <1>1, <1>2 DEF SecretsWiped
<1> QED
    BY <1>3, Invariance, PTL
=============================================================================
