---------------------------- MODULE KeyMaterial ----------------------------
(***************************************************************************)
(* The buffers that hold a session's secrets, from the KEM to the channel: *)
(* what is put into each, who reads it, and when it is overwritten with    *)
(* zeros (kem.go, handshake.go, newConn of channel.go; js/kem.ts,          *)
(* js/handshake.ts and the constructor of js/channel.ts).  An end runs the *)
(* Go code or the TypeScript port.  Copies inside the cryptographic        *)
(* libraries and on dead stack frames are not tracked, so shared stands    *)
(* for the local variable and for its copy in the handshake result.        *)
(*                                                                         *)
(* Secrets are terms, so a key made from a buffer that was wiped too early *)
(* is not the key it should be.                                            *)
(***************************************************************************)
CONSTANT Sessions

Ends == Sessions \X {"I", "R"}

Buffers == {"ssM", "ephPriv", "ssX", "ssCopies", "shared", "idKey",
            "keyI2R", "keyR2I"}

VARIABLES
    impl,   \* of each end: "go" or "ts"
    pc,     \* of each end: the last thing it did
    mem,    \* the contents of each end's buffers
    msg,    \* the response of each session, once sent
    aead    \* the keys that each end's AEADs copied

vars == <<impl, pc, mem, msg, aead>>

Unused   == <<"unused">>
Zeros    == <<"zeros">>
LowOrder == <<"low order point">>
NoMsg    == [ssM |-> Unused, ephPub |-> Unused, key |-> Unused]

Init ==
    /\ impl \in [Ends -> {"go", "ts"}]
    /\ pc = [p \in Ends |-> "start"]
    /\ mem = [p \in Ends |-> [b \in Buffers |-> Unused]]
    /\ msg = [s \in Sessions |-> NoMsg]
    /\ aead = [p \in Ends |-> [b \in {"keyI2R", "keyR2I"} |-> Unused]]

combineXWing(ssM, ssX) == <<"X-Wing", ssM, ssX>>
derive(secret, label)  == <<"HKDF", label, secret>>

\* The buffers m of an end after those in B are zeroed.
zero(m, B) == [b \in Buffers |-> IF b \in B /\ m[b] # Unused THEN Zeros ELSE m[b]]

Goto(p, from, to) ==
    /\ pc[p] = from
    /\ pc' = [pc EXCEPT ![p] = to]
    /\ UNCHANGED impl

Put(p, b, secret) == mem' = [mem EXCEPT ![p][b] = secret]

(***************************************************************************)
(* XWingEncapsulate at the responder, XWingDecapsulate at the initiator.   *)
(***************************************************************************)
Encapsulate(s) ==
    /\ Goto(<<s, "R">>, "start", "ssM")
    /\ Put(<<s, "R">>, "ssM", <<"ssM", s>>)
    /\ UNCHANGED <<msg, aead>>

MakeEphemeral(s) ==
    /\ Goto(<<s, "R">>, "ssM", "ephPriv")
    /\ Put(<<s, "R">>, "ephPriv", <<"ephPriv", s>>)
    /\ UNCHANGED <<msg, aead>>

EncapsulateX25519(s) ==
    /\ Goto(<<s, "R">>, "ephPriv", "ssX")
    /\ Put(<<s, "R">>, "ssX", <<"X25519", mem[<<s, "R">>]["ephPriv"]>>)
    /\ UNCHANGED <<msg, aead>>

Decapsulate(s) ==
    /\ msg[s] # NoMsg
    /\ Goto(<<s, "I">>, "start", "ssM")
    /\ Put(<<s, "I">>, "ssM", msg[s].ssM)
    /\ UNCHANGED <<msg, aead>>

DecapsulateX25519(s) ==
    /\ Goto(<<s, "I">>, "ssM", "ssX")
    /\ msg[s].ephPub # LowOrder
    /\ Put(<<s, "I">>, "ssX", <<"X25519", msg[s].ephPub>>)
    /\ UNCHANGED <<msg, aead>>

\* An error before the secret is combined: the peer's message or key is bad, or
\* there is no entropy.  These returns wipe nothing.
EarlyReturn(p) ==
    /\ pc[p] \in {"start", "ssM", "ephPriv"}
    /\ pc' = [pc EXCEPT ![p] = "failed"]
    /\ UNCHANGED <<impl, mem, msg, aead>>

\* The port gives combineXWing slices, which are copies.
Combine(p) ==
    /\ Goto(p, "ssX", "combined")
    /\ LET m == mem[p]
       IN  mem' = [mem EXCEPT
                     ![p]["shared"] = combineXWing(m["ssM"], m["ssX"]),
                     ![p]["ssCopies"] = IF impl[p] = "ts" THEN <<m["ssM"], m["ssX"]>>
                                        ELSE Unused]
    /\ UNCHANGED <<msg, aead>>

WipeScratch(p) ==
    /\ Goto(p, "combined", "shared")
    /\ mem' = [mem EXCEPT ![p] = zero(@, {"ephPriv", "ssM", "ssX"})]
    /\ UNCHANGED <<msg, aead>>

(***************************************************************************)
(* runInitiator and runResponder, from the shared secret on.               *)
(***************************************************************************)
\* mutant: zero(idKey) at the end of the function, not deferred
DeferredOnSuccess(p, ok) ==
    IF impl[p] = "go" /\ ok THEN {"idKey"} ELSE {}

\* What is zeroed on the way out, ok or not.
Deferred(p, ok) == IF impl[p] = "go" THEN {"idKey"} ELSE {}

DeriveIDKey(p) ==
    /\ Goto(p, "shared", "idKey")
    /\ Put(p, "idKey", derive(mem[p]["shared"], "id"))
    /\ UNCHANGED <<msg, aead>>

\* The response: what the owner of the static key gets out of its ciphertext,
\* and the key that seals the responder's identity.
Respond(s) ==
    /\ Goto(<<s, "R">>, "idKey", "agreed")
    /\ msg' = [msg EXCEPT ![s] = [ssM |-> <<"ssM", s>>,
                                  ephPub |-> <<"ephPriv", s>>,
                                  key |-> mem[<<s, "R">>]["idKey"]]]
    /\ UNCHANGED <<mem, aead>>

\* The payload opens, and the identity in it passes every check.
OpenResponse(s) ==
    /\ Goto(<<s, "I">>, "idKey", "agreed")
    /\ msg[s].key = mem[<<s, "I">>]["idKey"]
    /\ UNCHANGED <<mem, msg, aead>>

\* The response cannot be written, does not open, or fails a check.
LateReturn(p) ==
    /\ Goto(p, "idKey", "failed")
    /\ mem' = [mem EXCEPT ![p] = zero(@, Deferred(p, FALSE))]
    /\ UNCHANGED <<msg, aead>>

DeriveChannelKeys(p) ==
    /\ Goto(p, "agreed", "result")
    /\ LET result == [mem[p] EXCEPT
                        !["keyI2R"] = derive(mem[p]["shared"], "keyI2R"),
                        !["keyR2I"] = derive(mem[p]["shared"], "keyR2I")]
       IN  mem' = [mem EXCEPT ![p] = zero(result, Deferred(p, TRUE))]
    /\ UNCHANGED <<msg, aead>>

(***************************************************************************)
(* newConn, and the constructor of the port's Channel.                     *)
(***************************************************************************)
BuildAEADs(p) ==
    /\ Goto(p, "result", "aeads")
    /\ aead' = [aead EXCEPT ![p] = [b \in {"keyI2R", "keyR2I"} |-> mem[p][b]]]
    /\ UNCHANGED <<mem, msg>>

WipeResult(p) ==
    /\ Goto(p, "aeads", "up")
    /\ mem' = [mem EXCEPT ![p] =
                 zero(@, IF impl[p] = "go" THEN {"keyI2R", "keyR2I"} ELSE {"shared"})]
    /\ UNCHANGED <<msg, aead>>

\* mutant: Go's AEADs refer to the key slices
AEADKeyByReference(p, b) == mem[p][b]

\* The key in use: Go's AEADs have copied it, the port keeps a reference.
AEADKey(p, b) == IF impl[p] = "go" THEN aead[p][b] ELSE mem[p][b]

Sending(p)   == IF p[2] = "I" THEN "keyI2R" ELSE "keyR2I"
Receiving(p) == IF p[2] = "I" THEN "keyR2I" ELSE "keyI2R"

\* The raw connection may damage a response before it is read.  ML-KEM rejects
\* implicitly: a damaged ciphertext decapsulates to some other secret.
Damage(s) ==
    /\ msg[s] # NoMsg
    /\ pc[<<s, "I">>] = "start"
    /\ \/ msg' = [msg EXCEPT ![s].ssM = <<"rejected", s>>]
       \/ msg' = [msg EXCEPT ![s].ephPub = LowOrder]
       \/ msg' = [msg EXCEPT ![s].ephPub = <<"other point", s>>]
       \/ msg' = [msg EXCEPT ![s].key = <<"other key", s>>]
    /\ UNCHANGED <<impl, pc, mem, aead>>

Next ==
    \/ \E s \in Sessions : \/ Encapsulate(s)
                           \/ MakeEphemeral(s)
                           \/ EncapsulateX25519(s)
                           \/ Respond(s)
                           \/ Decapsulate(s)
                           \/ DecapsulateX25519(s)
                           \/ OpenResponse(s)
                           \/ Damage(s)
    \/ \E p \in Ends : \/ EarlyReturn(p)
                       \/ Combine(p)
                       \/ WipeScratch(p)
                       \/ DeriveIDKey(p)
                       \/ LateReturn(p)
                       \/ DeriveChannelKeys(p)
                       \/ BuildAEADs(p)
                       \/ WipeResult(p)

Spec == Init /\ [][Next]_vars

-----------------------------------------------------------------------------
Live(p) == {b \in Buffers : mem[p][b] \notin {Unused, Zeros}}

Returned(p) == pc[p] \in {"result", "aeads", "up", "failed"}

SessionSecret(s) ==
    combineXWing(<<"ssM", s>>, <<"X25519", <<"ephPriv", s>>>>)

\* The keys an established end seals and opens with are those of its session's
\* own secret, one for each direction and the same at both ends, at any time
\* after newConn: no buffer is wiped before it was used or copied, nor while the
\* port still refers to it, whichever of the two runs at the other end.
KeysIntact ==
    /\ \A p \in Ends : pc[p] = "up" =>
          \A b \in {"keyI2R", "keyR2I"} :
              AEADKey(p, b) = derive(SessionSecret(p[1]), b)
    /\ \A s \in Sessions, e, f \in {"I", "R"} :
          e # f /\ pc[<<s, e>>] = "up" /\ pc[<<s, f>>] = "up" =>
              AEADKey(<<s, e>>, Sending(<<s, e>>))
                  = AEADKey(<<s, f>>, Receiving(<<s, f>>))

\* Of the Go code: once runInitiator or runResponder has returned, with a result
\* or an error, a secret that went into shared, the ephemeral key and idKey are
\* wiped; and an established Conn has left no channel key outside its AEADs.
SecretsWiped ==
    \A p \in Ends : impl[p] = "go" =>
        /\ (Returned(p) /\ mem[p]["shared"] # Unused) =>
               Live(p) \subseteq {"shared", "keyI2R", "keyR2I"}
        /\ pc[p] = "up" => Live(p) \subseteq {"shared"}

\* handshake.go says that all intermediate key material is zeroed once the
\* channel keys are derived: an established Go end holds none.
AllIntermediateWiped ==
    \A p \in Ends : impl[p] = "go" /\ pc[p] = "up" => Live(p) = {}
=============================================================================
