------------------------------ MODULE MCCodec ------------------------------
(* Instances of Codec for TLC: every frame of up to MaxLen small bytes.    *)
EXTENDS Codec, TLC

MCKeySizes == [ed |-> 1, dsa |-> 2, mlkem |-> 2, x25519 |-> 1]

\* Each library refuses some of the keys of the right size.
MCDSAKeys == {<<x, y>> : x \in 0..2, y \in 0..1}

MCMLKEMKeys == {<<x, y>> : x \in 0..1, y \in 0..2}

\* Two contexts, one a prefix of the other.
MCLabels == {<<1>>, <<1, 0>>}
=============================================================================
