----------------------------- MODULE ByteStream -----------------------------
(***************************************************************************)
(* What one direction of a Z-Wing channel promises its two applications: a *)
(* stream of bytes that arrives in order, without gaps or repetitions, as  *)
(* far as it arrives.  A write that fails draws a line in the stream that  *)
(* no delivery ever crosses.                                               *)
(***************************************************************************)
EXTENDS Integers, Sequences

VARIABLES
    sent,       \* every byte accepted from the writers
    got,        \* every byte handed to the readers
    cutoffs     \* lengths of sent at which a failed write began

vars == <<sent, got, cutoffs>>

Init ==
    /\ sent = <<>>
    /\ got = <<>>
    /\ cutoffs = {}

\* s is a prefix of t.
Extends(s, t) == Len(s) <= Len(t) /\ s = SubSeq(t, 1, Len(s))

Send ==
    /\ Extends(sent, sent')
    /\ UNCHANGED <<got, cutoffs>>

Deliver ==
    /\ Extends(got, got')
    /\ Extends(got', sent)
    /\ \A c \in cutoffs : Len(got') <= c
    /\ UNCHANGED <<sent, cutoffs>>

Fail ==
    /\ \E c \in Len(got)..Len(sent) : cutoffs' = cutoffs \cup {c}
    /\ UNCHANGED <<sent, got>>

Next == Send \/ Deliver \/ Fail

Spec == Init /\ [][Next]_vars
=============================================================================
