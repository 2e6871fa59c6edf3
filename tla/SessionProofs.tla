--------------------------- MODULE SessionProofs ---------------------------
(***************************************************************************)
(* A theorem about Session, for any goroutines at both ends, any sizes of  *)
(* frames, any capacity of the raw connection and any of the applications, *)
(* with failed handshakes, closes and resets at any point.                 *)
(***************************************************************************)
EXTENDS Session, SequenceTheorems, TLAPS

Cells == Nat \X Nat \X Nat
Taken == [bytes : Seq(Cells), by : {"handshake", "Read"}]

Types ==
    /\ open \in [Ends -> BOOLEAN]
    /\ pipe \in [Ends -> Seq(Cells)]
    /\ pend \in [Ends -> Seq(Cells)]
    /\ part \in [Ends -> Seq(Cells)]
    /\ frames \in [Ends -> Nat]
    /\ took \in [Ends -> Seq(Taken)]
    /\ left \in [Writers -> Int]

\* c is the last byte of its frame.
Last(c) == c[3] = HdrSize + c[2]

\* b is the byte to come behind a.
Follows(a, b) ==
    IF Last(a) THEN b[1] = a[1] + 1 /\ b[3] = 1
    ELSE b[1] = a[1] /\ b[2] = a[2] /\ b[3] = a[3] + 1

\* What precedes the bytes on their way to e; where no byte of a frame has been
\* taken, the frame taken last stands for its last byte.
Before(e) ==
    IF part[e] # <<>> THEN part[e][Len(part[e])] ELSE <<Len(took[e]), 0, HdrSize>>

\* What precedes the bytes that e's peer has yet to hand over.
Behind(e) == IF pipe[e] # <<>> THEN pipe[e][Len(pipe[e])] ELSE Before(e)

\* What the peer has yet to hand over is the end of its latest frame.
PendOK(e) ==
    LET s == pend[Peer(e)]
    IN  \A i \in 1..Len(s) :
          s[i] = <<frames[Peer(e)], s[1][2], HdrSize + s[1][2] - Len(s) + i>>

\* What has been taken is the beginning of the next frame.
PartOK(e) ==
    /\ \A i \in 1..Len(part[e]) : part[e][i] = <<Len(took[e]) + 1, part[e][1][2], i>>
    /\ part[e] # <<>> => Len(part[e]) <= HdrSize + part[e][1][2]

\* What is on its way goes on where that stops.
PipeOK(e) ==
    /\ ~open[e] => pipe[e] = <<>>
    /\ pipe[e] # <<>> => Follows(Before(e), pipe[e][1])
    /\ \A i \in 1..(Len(pipe[e]) - 1) : Follows(pipe[e][i], pipe[e][i + 1])

\* As long as the connection is open at both ends, what the peer hands over next
\* goes on where that stops.
LinkOK(e) ==
    open[e] /\ open[Peer(e)] =>
        IF pend[Peer(e)] # <<>> THEN Follows(Behind(e), pend[Peer(e)][1])
        ELSE Last(Behind(e)) /\ Behind(e)[1] = frames[Peer(e)]

\* Frames taken are whole and in order.
TookOK(e) ==
    \A k \in 1..Len(took[e]) :
        took[e][k].bytes = Frame(k, took[e][k].bytes[1][2])

StreamOK(e) == PendOK(e) /\ PartOK(e) /\ PipeOK(e) /\ LinkOK(e) /\ TookOK(e)

\* The handshake reads one frame, and Read all others.
ByOK(e) ==
    \A k \in 1..Len(took[e]) :
        took[e][k].by = IF k = 1 THEN "handshake" ELSE "Read"

\* Where the handshake is, and that nobody uses the channel before its end.
PhaseOK ==
    /\ phase \in [Ends -> {"send", "recv", "up", "failed"}]
    /\ \A e \in Ends :
          /\ phase[e] = "recv" => took[e] = <<>> /\ pend[e] = <<>>
          /\ phase[e] = "up" => took[e] # <<>>
    /\ phase["I"] = "send" => took["I"] = <<>>
    /\ phase["R"] = "send" => took["R"] # <<>>
    /\ pc \in [Goroutines -> {"idle", "lock", "in", "gave up"}]
    /\ \A g \in Goroutines : pc[g] # "idle" => phase[g[1]] = "up"

IInv == Types /\ PhaseOK /\ \A e \in Ends : StreamOK(e) /\ ByOK(e)

-----------------------------------------------------------------------------
\* The sizes are numbers, and a frame has room for a byte.
LEMMA Sizes ==
    /\ HdrSize \in Nat \ {0}
    /\ Overhead \in Nat
    /\ maxPlain \in Nat \ {0}
BY SessionAssumption DEF maxPlain

\* Each end has another.
LEMMA PeerFact ==
    \A e \in Ends : Peer(e) \in Ends /\ Peer(e) # e /\ Peer(Peer(e)) = e
BY DEF Ends, Peer

\* The bytes of a frame that writeFrame sends.
LEMMA FrameFact ==
    ASSUME NEW f \in Nat, NEW n \in Nat
    PROVE  /\ Frame(f, n) \in Seq(Cells)
           /\ Len(Frame(f, n)) = HdrSize + n
           /\ \A i \in 1..(HdrSize + n) : Frame(f, n)[i] = <<f, n, i>>
<1>1. PICK m : m = HdrSize + n
    OBVIOUS
<1>2. m \in Nat
    BY <1>1, Sizes
<1>3. PICK s : s = [i \in 1..m |-> <<f, n, i>>]
    OBVIOUS
<1>4. s \in Seq(Cells)
  <2>1. \A i \in 1..m : <<f, n, i>> \in Cells
      BY DEF Cells
  <2>2. s \in [1..m -> Cells]
      BY <1>3, <2>1
  <2> QED
      BY <1>2, <2>2
<1>5. Len(s) = m /\ \A i \in 1..m : s[i] = <<f, n, i>>
    BY <1>2, <1>3, <1>4
<1> QED
    BY <1>1, <1>3, <1>4, <1>5 DEF Frame

\* The first byte of a sequence, and the others.
LEMMA TailFact ==
    ASSUME NEW s \in Seq(Cells), s # <<>>
    PROVE  /\ Len(s) \in Nat \ {0}
           /\ Head(s) = s[1]
           /\ s[1] \in Cells
           /\ Tail(s) \in Seq(Cells)
           /\ Len(Tail(s)) = Len(s) - 1
           /\ \A i \in 1..(Len(s) - 1) : Tail(s)[i] = s[i + 1]
<1>1. Len(s) \in Nat \ {0}
    BY EmptySeq
<1> QED
    BY <1>1, HeadTailProperties

\* A sequence and the byte put behind it.
LEMMA AppendFact ==
    ASSUME NEW s \in Seq(Cells), NEW c \in Cells
    PROVE  /\ Append(s, c) \in Seq(Cells)
           /\ Len(Append(s, c)) = Len(s) + 1
           /\ Append(s, c) # <<>>
           /\ \A i \in 1..Len(s) : Append(s, c)[i] = s[i]
           /\ Append(s, c)[Len(s) + 1] = c
<1>1. PICK t : t = Append(s, c)
    OBVIOUS
<1>2. /\ t \in Seq(Cells)
      /\ Len(t) = Len(s) + 1
      /\ \A i \in 1..Len(s) : t[i] = s[i]
      /\ t[Len(s) + 1] = c
    BY <1>1
<1>3. t # <<>>
  <2>1. Len(t) # 0
      BY <1>2
  <2> QED
      BY <2>1
<1> QED
    BY <1>1, <1>2, <1>3

\* Being empty is having no length.
LEMMA NonEmpty ==
    ASSUME NEW s \in Seq(Cells)
    PROVE  /\ s # <<>> <=> Len(s) # 0
           /\ s # <<>> => Len(s) \in 1..Len(s)
BY EmptySeq

\* raw.Close: what this end had to read is dropped; of what it wrote, the end may be.
LEMMA ShutFact ==
    ASSUME Types, NEW e \in Ends, Shut(e)
    PROVE  /\ open' = [open EXCEPT ![e] = FALSE]
           /\ pipe' \in [Ends -> Seq(Cells)]
           /\ pipe'[e] = <<>>
           /\ \E n \in 0..Len(pipe[Peer(e)]) :
                 pipe'[Peer(e)] = SubSeq(pipe[Peer(e)], 1, n)
<1>1. PICK n \in 0..Len(pipe[Peer(e)]) :
         pipe' = [pipe EXCEPT ![e] = <<>>, ![Peer(e)] = SubSeq(pipe[Peer(e)], 1, n)]
    BY DEF Shut
<1>2. Peer(e) \in Ends /\ Peer(e) # e
    BY PeerFact
<1>3. pipe \in [Ends -> Seq(Cells)] /\ pipe[Peer(e)] \in Seq(Cells)
    BY <1>2 DEF Types
<1>4. SubSeq(pipe[Peer(e)], 1, n) \in Seq(Cells)
  <2>1. PICK s : s = pipe[Peer(e)]
      OBVIOUS
  <2>2. s \in Seq(Cells) /\ n \in 0..Len(s)
      BY <1>3, <2>1
  <2>3. n \in Int /\ 1 \in Int /\ \A i \in 1..n : s[i] \in Cells
      BY <2>2
  <2>4. SubSeq(s, 1, n) \in Seq(Cells)
      BY <2>3, SubSeqProperties
  <2> QED
      BY <2>1, <2>4
<1>5. pipe'[e] = <<>> /\ pipe'[Peer(e)] = SubSeq(pipe[Peer(e)], 1, n)
    BY <1>1, <1>2, <1>3
<1>6. pipe' \in [Ends -> Seq(Cells)]
  <2>1. DOMAIN pipe' = Ends
      BY <1>1, <1>3
  <2>2. \A d \in Ends : pipe'[d] \in Seq(Cells)
    <3>1. <<>> \in Seq(Cells)
        OBVIOUS
    <3>2. \A d \in Ends : d = e \/ d = Peer(e)
        BY DEF Ends, Peer
    <3> QED
        BY <1>4, <1>5, <3>1, <3>2
  <2>3. pipe' = [d \in Ends |-> pipe'[d]]
      BY <1>1, <1>3, <2>1
  <2> QED
      BY <2>2, <2>3
<1> QED
    BY <1>1, <1>5, <1>6 DEF Shut

\* What readFrame does.
LEMMA TakeFact ==
    ASSUME Types, NEW e \in Ends, NEW by \in {"handshake", "Read"}, readFrame(e, by)
    PROVE  /\ Whole(part[e])
           /\ took' = [took EXCEPT ![e] = Append(took[e], [bytes |-> part[e], by |-> by])]
           /\ part' = [part EXCEPT ![e] = <<>>]
           /\ UNCHANGED <<pipe, open>>
           /\ part' \in [Ends -> Seq(Cells)]
           /\ took' \in [Ends -> Seq(Taken)]
<1>1. /\ Whole(part[e])
      /\ took' = [took EXCEPT ![e] = Append(took[e], [bytes |-> part[e], by |-> by])]
      /\ part' = [part EXCEPT ![e] = <<>>]
      /\ UNCHANGED open
    BY DEF readFrame
<1>2. pipe' = pipe
  <2>1. pipe' = [pipe EXCEPT ![e] = pipe[e]]
      BY DEF readFrame, Rest
  <2> QED
      BY <2>1 DEF Types
<1>3. part' \in [Ends -> Seq(Cells)]
    BY <1>1 DEF Types
<1>4. took' \in [Ends -> Seq(Taken)]
  <2>1. [bytes |-> part[e], by |-> by] \in Taken
      BY DEF Types, Taken
  <2>2. Append(took[e], [bytes |-> part[e], by |-> by]) \in Seq(Taken)
      BY <2>1 DEF Types
  <2> QED
      BY <1>1, <2>2 DEF Types
<1> QED
    BY <1>1, <1>2, <1>3, <1>4

\* What writeFrame does.
LEMMA SendFact ==
    ASSUME Types, NEW e \in Ends, NEW n \in Nat, writeFrame(e, n)
    PROVE  /\ pend' = [pend EXCEPT ![e] = Frame(frames[e] + 1, n)]
           /\ frames' = [frames EXCEPT ![e] = frames[e] + 1]
           /\ pend' \in [Ends -> Seq(Cells)]
           /\ frames' \in [Ends -> Nat]
<1>1. /\ pend' = [pend EXCEPT ![e] = Frame(frames[e] + 1, n)]
      /\ frames' = [frames EXCEPT ![e] = frames[e] + 1]
    BY DEF writeFrame
<1>2. frames[e] + 1 \in Nat
    BY DEF Types
<1>3. Frame(frames[e] + 1, n) \in Seq(Cells)
    BY <1>2, FrameFact
<1> QED
    BY <1>1, <1>2, <1>3 DEF Types

(***************************************************************************)
(* What each kind of step does to the stream of bytes towards e.           *)
(***************************************************************************)
LEMMA StreamKeep ==
    ASSUME NEW e \in Ends, StreamOK(e),
           part'[e] = part[e], pipe'[e] = pipe[e], took'[e] = took[e],
           pend'[Peer(e)] = pend[Peer(e)], frames'[Peer(e)] = frames[Peer(e)],
           open'[e] = open[e], open'[Peer(e)] = open[Peer(e)]
    PROVE  StreamOK(e)'
<1>1. Before(e)' = Before(e)
    BY DEF Before
<1>2. Behind(e)' = Behind(e)
    BY <1>1 DEF Behind
<1>3. PendOK(e)' /\ PartOK(e)' /\ TookOK(e)'
    BY DEF StreamOK, PendOK, PartOK, TookOK
<1>4. PipeOK(e)' /\ LinkOK(e)'
    BY <1>1, <1>2 DEF StreamOK, PipeOK, LinkOK
<1> QED
    BY <1>3, <1>4 DEF StreamOK

\* The connection is no longer open at both ends: bytes may be lost at the end.
LEMMA StreamEnds ==
    ASSUME Types, Types', NEW e \in Ends, StreamOK(e),
           ~(open'[e] /\ open'[Peer(e)]),
           took'[e] = took[e], frames'[Peer(e)] = frames[Peer(e)],
           pend'[Peer(e)] = pend[Peer(e)] \/ pend'[Peer(e)] = <<>>,
           \/ /\ part'[e] = part[e]
              /\ \E n \in 0..Len(pipe[e]) : pipe'[e] = SubSeq(pipe[e], 1, n)
           \/ /\ part'[e] = part[e] \/ part'[e] = <<>>
              /\ pipe'[e] = <<>>,
           ~open'[e] => pipe'[e] = <<>>
    PROVE  StreamOK(e)'
<1>1. PendOK(e)'
  <2>1. CASE pend'[Peer(e)] = pend[Peer(e)]
      BY <2>1 DEF StreamOK, PendOK
  <2>2. CASE pend'[Peer(e)] = <<>>
    <3>1. 1..Len(pend'[Peer(e)]) = {}
        BY <2>2
    <3> QED
        BY <3>1 DEF PendOK
  <2> QED
      BY <2>1, <2>2
<1>2. PartOK(e)'
  <2>1. CASE part'[e] = part[e]
      BY <2>1 DEF StreamOK, PartOK
  <2>2. CASE part'[e] = <<>>
    <3>1. 1..Len(part'[e]) = {}
        BY <2>2
    <3> QED
        BY <2>2, <3>1 DEF PartOK
  <2> QED
      BY <2>1, <2>2
<1>3. PipeOK(e)'
  <2>1. CASE pipe'[e] = <<>>
    <3>1. 1..(Len(pipe'[e]) - 1) = {}
        BY <2>1
    <3> QED
        BY <2>1, <3>1 DEF PipeOK
  <2>2. CASE pipe'[e] # <<>>
    <3>1. PICK n \in 0..Len(pipe[e]) : pipe'[e] = SubSeq(pipe[e], 1, n)
        BY <2>2
    <3>2. PICK s, t : s = pipe[e] /\ t = pipe'[e]
        OBVIOUS
    <3>3. s \in Seq(Cells) /\ t \in Seq(Cells) /\ t # <<>>
        BY <2>2, <3>2 DEF Types
    <3>4. Len(t) = n /\ \A i \in 1..n : t[i] = s[i]
      <4>1. n \in Int /\ 1 \in Int /\ \A i \in 1..n : s[i] \in Cells
          BY <3>2, <3>3
      <4>2. /\ Len(SubSeq(s, 1, n)) = IF 1 <= n THEN n - 1 + 1 ELSE 0
            /\ \A i \in 1..(n - 1 + 1) : SubSeq(s, 1, n)[i] = s[1 + i - 1]
          BY <4>1, SubSeqProperties
      <4> QED
          BY <3>1, <3>2, <4>2
    <3>5. n \in 1..Len(s)
        BY <3>2, <3>3, <3>4, NonEmpty
    <3>6. s # <<>>
        BY <3>3, <3>5
    <3>7. Before(e)' = Before(e)
        BY <2>2 DEF Before
    <3>8. Follows(Before(e), t[1])
        BY <3>2, <3>4, <3>5, <3>6 DEF StreamOK, PipeOK
    <3>9. ASSUME NEW i \in 1..(n - 1) PROVE Follows(t[i], t[i + 1])
      <4>1. i \in 1..n /\ i + 1 \in 1..n /\ i \in 1..(Len(s) - 1)
          BY <3>5
      <4>2. Follows(s[i], s[i + 1])
          BY <3>2, <4>1 DEF StreamOK, PipeOK
      <4> QED
          BY <3>4, <4>1, <4>2
    <3> QED
        BY <3>2, <3>4, <3>7, <3>8, <3>9 DEF PipeOK
  <2> QED
      BY <2>1, <2>2
<1>4. LinkOK(e)'
    BY DEF LinkOK
<1>5. TookOK(e)'
    BY DEF StreamOK, TookOK
<1> QED
    BY <1>1, <1>2, <1>3, <1>4, <1>5 DEF StreamOK

\* What is left when a byte has been handed over.
LEMMA PendTail ==
    ASSUME Types, NEW e \in Ends, PendOK(e), pend[Peer(e)] # <<>>,
           pend'[Peer(e)] = Tail(pend[Peer(e)]), frames'[Peer(e)] = frames[Peer(e)]
    PROVE  PendOK(e)'
<1>1. PICK s, t, f : s = pend[Peer(e)] /\ t = pend'[Peer(e)] /\ f = frames[Peer(e)]
    OBVIOUS
<1>2. s \in Seq(Cells) /\ s # <<>> /\ t = Tail(s)
    BY <1>1, PeerFact DEF Types
<1>3. /\ Len(s) \in Nat \ {0} /\ s[1] \in Cells
      /\ Len(t) = Len(s) - 1 /\ \A i \in 1..(Len(s) - 1) : t[i] = s[i + 1]
    BY <1>2, TailFact
<1>4. \A i \in 1..Len(s) : s[i] = <<f, s[1][2], HdrSize + s[1][2] - Len(s) + i>>
    BY <1>1 DEF PendOK
<1>5. PICK n, m : n = Len(s) /\ m = s[1][2]
    OBVIOUS
<1>6. n \in Nat /\ m \in Nat /\ HdrSize \in Nat /\ Len(t) = n - 1
    BY <1>3, <1>5, Sizes DEF Cells
<1>7. ASSUME NEW i \in 1..Len(t)
      PROVE  t[i] = <<f, t[1][2], HdrSize + t[1][2] - Len(t) + i>>
  <2>1. /\ i + 1 \in 1..n /\ 1 + 1 \in 1..n /\ i \in 1..(n - 1) /\ 1 \in 1..(n - 1)
        /\ i \in Nat
      BY <1>6
  <2>2. t[1] = s[1 + 1] /\ t[i] = s[i + 1]
      BY <1>3, <1>5, <2>1
  <2>3. t[1][2] = m
      BY <1>4, <1>5, <2>1, <2>2
  <2>4. t[i] = <<f, m, HdrSize + m - n + (i + 1)>>
      BY <1>4, <1>5, <2>1, <2>2
  <2>5. HdrSize + m - n + (i + 1) = HdrSize + m - Len(t) + i
      BY <1>6, <2>1
  <2> QED
      BY <2>3, <2>4, <2>5
<1> QED
    BY <1>1, <1>7 DEF PendOK

\* The peer hands over the next byte of its frame.
LEMMA StreamWrite ==
    ASSUME Types, Types', NEW e \in Ends, StreamOK(e),
           open[e], open[Peer(e)], pend[Peer(e)] # <<>>,
           pend'[Peer(e)] = Tail(pend[Peer(e)]),
           pipe'[e] = Append(pipe[e], Head(pend[Peer(e)])),
           part'[e] = part[e], took'[e] = took[e],
           frames'[Peer(e)] = frames[Peer(e)],
           open'[e] = open[e], open'[Peer(e)] = open[Peer(e)]
    PROVE  StreamOK(e)'
<1>1. PICK s, t, q, r, f : /\ s = pend[Peer(e)] /\ t = pend'[Peer(e)]
                           /\ q = pipe[e] /\ r = pipe'[e] /\ f = frames[Peer(e)]
    OBVIOUS
<1>2. s \in Seq(Cells) /\ t \in Seq(Cells) /\ q \in Seq(Cells) /\ r \in Seq(Cells)
    BY <1>1, PeerFact DEF Types
<1>3. /\ Len(s) \in Nat \ {0} /\ Head(s) = s[1] /\ s[1] \in Cells
      /\ Len(t) = Len(s) - 1 /\ \A i \in 1..(Len(s) - 1) : t[i] = s[i + 1]
    BY <1>1, <1>2, TailFact
<1>4. /\ Len(r) = Len(q) + 1 /\ r # <<>>
      /\ \A i \in 1..Len(q) : r[i] = q[i]
      /\ r[Len(q) + 1] = s[1]
    BY <1>1, <1>2, <1>3, AppendFact, SMTT(30)
<1>5. \A i \in 1..Len(s) : s[i] = <<f, s[1][2], HdrSize + s[1][2] - Len(s) + i>>
    BY <1>1 DEF StreamOK, PendOK
<1>6. Follows(Behind(e), s[1])
    BY <1>1 DEF StreamOK, LinkOK
<1>7. Before(e)' = Before(e)
    BY DEF Before
<1>8. PICK m, n : m = s[1][2] /\ n = Len(s)
    OBVIOUS
<1>9. m \in Nat /\ n \in Nat \ {0} /\ HdrSize \in Nat /\ Len(q) \in Nat
  <2>1. m \in Nat
      BY <1>3, <1>8 DEF Cells
  <2>2. Len(q) \in Nat
      BY <1>2
  <2> QED
      BY <1>3, <1>8, <2>1, <2>2, Sizes
<1>10. s[1] = <<f, m, HdrSize + m - n + 1>>
  <2>1. 1 \in 1..Len(s)
      BY <1>3
  <2> QED
      BY <1>5, <1>8, <2>1
<1>11. ASSUME n # 1
       PROVE  t # <<>> /\ t[1] = s[2] /\ s[2] = <<f, m, HdrSize + m - n + 2>>
  <2>1. 2 \in 1..Len(s) /\ 1 \in 1..(Len(s) - 1) /\ Len(t) # 0
      BY <1>3, <1>8, <1>9, <1>11
  <2>2. t[1] = s[1 + 1]
      BY <1>3, <2>1
  <2>3. t # <<>>
      BY <1>2, <2>1, NonEmpty
  <2> QED
      BY <1>5, <1>8, <2>1, <2>2, <2>3
<1>12. PendOK(e)'
    BY PendTail DEF StreamOK
<1>13. PartOK(e)' /\ TookOK(e)'
    BY DEF StreamOK, PartOK, TookOK
<1>14. PipeOK(e)'
  <2>1. Follows(Before(e), r[1])
    <3>1. CASE q = <<>>
      <4>1. Behind(e) = Before(e) /\ Len(q) + 1 = 1
          BY <1>1, <3>1 DEF Behind
      <4> QED
          BY <1>4, <1>6, <4>1
    <3>2. CASE q # <<>>
      <4>1. 1 \in 1..Len(q)
          BY <1>2, <3>2, NonEmpty
      <4> QED
          BY <1>1, <1>4, <3>2, <4>1 DEF StreamOK, PipeOK
    <3> QED
        BY <3>1, <3>2
  <2>2. ASSUME NEW i \in 1..(Len(r) - 1) PROVE Follows(r[i], r[i + 1])
    <3>1. CASE i = Len(q)
      <4>1. q # <<>> /\ i \in 1..Len(q)
          BY <1>2, <1>4, <3>1, NonEmpty
      <4>2. Behind(e) = q[i]
          BY <1>1, <3>1, <4>1 DEF Behind
      <4> QED
          BY <1>4, <1>6, <3>1, <4>1, <4>2
    <3>2. CASE i # Len(q)
      <4>1. i \in 1..Len(q) /\ i + 1 \in 1..Len(q) /\ i \in 1..(Len(q) - 1)
          BY <1>4, <1>9, <3>2
      <4>2. Follows(q[i], q[i + 1])
          BY <1>1, <4>1 DEF StreamOK, PipeOK
      <4> QED
          BY <1>4, <4>1, <4>2
    <3> QED
        BY <3>1, <3>2
  <2> QED
      BY <1>1, <1>7, <2>1, <2>2 DEF PipeOK
<1>15. LinkOK(e)'
  <2>1. Behind(e)' = s[1]
      BY <1>1, <1>4 DEF Behind
  <2>2. CASE n = 1
    <3>1. t = <<>>
      <4>1. Len(t) = 0
          BY <1>3, <1>8, <2>2
      <4> QED
          BY <1>2, <4>1, NonEmpty
    <3>2. s[1][1] = f /\ s[1][2] = m /\ s[1][3] = HdrSize + m
        BY <1>9, <1>10, <2>2
    <3> QED
        BY <1>1, <2>1, <3>1, <3>2 DEF LinkOK, Last
  <2>3. CASE n # 1
    <3>1. s[1][1] = f /\ s[1][2] = m /\ s[1][3] = HdrSize + m - n + 1
        BY <1>10
    <3>2. s[2][1] = f /\ s[2][2] = m /\ s[2][3] = HdrSize + m - n + 2
        BY <1>11, <2>3
    <3>3. /\ HdrSize + m - n + 1 # HdrSize + m
          /\ HdrSize + m - n + 2 = (HdrSize + m - n + 1) + 1
        BY <1>9, <2>3
    <3>4. Follows(s[1], s[2])
        BY <3>1, <3>2, <3>3 DEF Follows, Last
    <3> QED
        BY <1>1, <1>11, <2>1, <2>3, <3>4 DEF LinkOK
  <2> QED
      BY <2>2, <2>3
<1> QED
    BY <1>12, <1>13, <1>14, <1>15 DEF StreamOK

\* The peer begins a frame.
LEMMA StreamSend ==
    ASSUME Types, Types', NEW e \in Ends, StreamOK(e), NEW n \in Nat,
           pend[Peer(e)] = <<>>,
           pend'[Peer(e)] = Frame(frames[Peer(e)] + 1, n),
           frames'[Peer(e)] = frames[Peer(e)] + 1,
           pipe'[e] = pipe[e], part'[e] = part[e], took'[e] = took[e],
           open'[e] = open[e], open'[Peer(e)] = open[Peer(e)]
    PROVE  StreamOK(e)'
<1>1. PICK s, f : s = pend'[Peer(e)] /\ f = frames[Peer(e)] + 1
    OBVIOUS
<1>2. f \in Nat /\ s = Frame(f, n)
    BY <1>1, PeerFact DEF Types
<1>3. /\ s \in Seq(Cells) /\ Len(s) = HdrSize + n
      /\ \A i \in 1..(HdrSize + n) : s[i] = <<f, n, i>>
    BY <1>2, FrameFact
<1>4. 1 \in 1..(HdrSize + n) /\ HdrSize \in Nat
    BY Sizes
<1>5. s[1] = <<f, n, 1>> /\ s # <<>>
  <2>1. Len(s) # 0
      BY <1>3, <1>4
  <2> QED
      BY <1>3, <1>4, <2>1, NonEmpty
<1>6. Before(e)' = Before(e)
    BY DEF Before
<1>7. Behind(e)' = Behind(e)
    BY <1>6 DEF Behind
<1>8. PendOK(e)'
  <2> SUFFICES ASSUME NEW i \in 1..(HdrSize + n)
               PROVE  s[i] = <<f, s[1][2], HdrSize + s[1][2] - Len(s) + i>>
      BY <1>1, <1>3 DEF PendOK
  <2>1. s[1][2] = n /\ HdrSize + n - Len(s) + i = i
      BY <1>3, <1>4, <1>5
  <2> QED
      BY <1>3, <2>1
<1>9. PartOK(e)' /\ PipeOK(e)' /\ TookOK(e)'
    BY <1>6 DEF StreamOK, PartOK, PipeOK, TookOK
<1>10. LinkOK(e)'
  <2> SUFFICES ASSUME open[e], open[Peer(e)] PROVE Follows(Behind(e), s[1])
      BY <1>1, <1>5, <1>7 DEF LinkOK
  <2>1. Last(Behind(e)) /\ Behind(e)[1] = frames[Peer(e)]
      BY DEF StreamOK, LinkOK
  <2>2. s[1][1] = f /\ s[1][3] = 1
      BY <1>5
  <2> QED
      BY <1>1, <2>1, <2>2 DEF Follows
<1> QED
    BY <1>8, <1>9, <1>10 DEF StreamOK

\* readFrame takes the next byte.
LEMMA StreamRead ==
    ASSUME Types, Types', NEW e \in Ends, StreamOK(e),
           ~Whole(part[e]), pipe[e] # <<>>, open[e],
           part'[e] = Append(part[e], Head(pipe[e])), pipe'[e] = Tail(pipe[e]),
           pend'[Peer(e)] = pend[Peer(e)], took'[e] = took[e],
           frames'[Peer(e)] = frames[Peer(e)],
           open'[e] = open[e], open'[Peer(e)] = open[Peer(e)]
    PROVE  StreamOK(e)'
<1>1. PICK s, t, q, r, k : /\ s = part[e] /\ t = part'[e]
                           /\ q = pipe[e] /\ r = pipe'[e] /\ k = Len(took[e])
    OBVIOUS
<1>2. /\ s \in Seq(Cells) /\ t \in Seq(Cells) /\ q \in Seq(Cells) /\ r \in Seq(Cells)
      /\ k \in Nat /\ HdrSize \in Nat \ {0}
    BY <1>1, Sizes DEF Types
<1>3. /\ Len(q) \in Nat \ {0} /\ Head(q) = q[1] /\ q[1] \in Cells
      /\ Len(r) = Len(q) - 1 /\ \A i \in 1..(Len(q) - 1) : r[i] = q[i + 1]
    BY <1>1, <1>2, TailFact
<1>4. /\ Len(t) = Len(s) + 1 /\ t # <<>>
      /\ \A i \in 1..Len(s) : t[i] = s[i]
      /\ t[Len(s) + 1] = q[1]
    BY <1>1, <1>2, <1>3, AppendFact
<1>5. PICK c, m : c = q[1] /\ m = c[2]
    OBVIOUS
<1>6. c = <<c[1], m, c[3]>> /\ m \in Nat
    BY <1>3, <1>5 DEF Cells
<1>7. Follows(Before(e), c)
    BY <1>1, <1>5 DEF StreamOK, PipeOK
<1>8. Before(e)' = c
    BY <1>1, <1>4, <1>5 DEF Before
<1>9. /\ \A i \in 1..Len(t) : t[i] = <<k + 1, m, i>>
      /\ Len(t) <= HdrSize + m
  <2>1. CASE s = <<>>
    <3>1. Before(e) = <<k, 0, HdrSize>> /\ Len(s) = 0
        BY <1>1, <2>1 DEF Before
    <3>2. Last(Before(e)) /\ Before(e)[1] = k
        BY <1>2, <3>1 DEF Last
    <3>3. c[1] = k + 1 /\ c[3] = 1
        BY <1>7, <3>2 DEF Follows
    <3>4. c = <<k + 1, m, 1>>
        BY <1>6, <3>3
    <3>5. Len(t) = 1 /\ t[1] = c
        BY <1>4, <1>5, <3>1
    <3>6. 1 <= HdrSize + m
        BY <1>2, <1>6
    <3>7. \A i \in 1..Len(t) : i = 1
        BY <3>5
    <3> QED
        BY <3>4, <3>5, <3>6, <3>7
  <2>2. CASE s # <<>>
    <3>1. PICK n : n = s[1][2]
        OBVIOUS
    <3>2. /\ \A i \in 1..Len(s) : s[i] = <<k + 1, n, i>>
          /\ Len(s) <= HdrSize + n
        BY <1>1, <2>2, <3>1 DEF StreamOK, PartOK
    <3>3. Len(s) \in Nat \ {0} /\ n \in Nat
      <4>1. Len(s) \in Nat \ {0}
          BY <1>2, <2>2, EmptySeq
      <4>2. s[1] \in Cells
          BY <1>2, <4>1
      <4> QED
          BY <3>1, <4>1, <4>2 DEF Cells
    <3>4. Len(s) # HdrSize + n
      <4>1. ~(Len(s) >= HdrSize /\ Len(s) = HdrSize + n)
          BY <1>1, <3>1 DEF Whole
      <4> QED
          BY <1>2, <3>3, <4>1
    <3>5. Before(e) = <<k + 1, n, Len(s)>>
      <4>1. Len(s) \in 1..Len(s)
          BY <3>3
      <4> QED
          BY <1>1, <2>2, <3>2, <4>1 DEF Before
    <3>6. ~Last(Before(e))
        BY <3>4, <3>5 DEF Last
    <3>7. c[1] = k + 1 /\ m = n /\ c[3] = Len(s) + 1
        BY <1>5, <1>7, <3>5, <3>6 DEF Follows
    <3>8. c = <<k + 1, m, Len(s) + 1>>
        BY <1>6, <3>7
    <3>9. ASSUME NEW i \in 1..Len(t) PROVE t[i] = <<k + 1, m, i>>
      <4>1. CASE i = Len(s) + 1
          BY <1>4, <1>5, <3>8, <4>1
      <4>2. CASE i # Len(s) + 1
        <5>1. i \in 1..Len(s)
            BY <1>4, <3>3, <4>2
        <5> QED
            BY <1>4, <3>2, <3>7, <5>1
      <4> QED
          BY <4>1, <4>2
    <3>10. Len(t) <= HdrSize + m
        BY <1>2, <1>4, <3>2, <3>3, <3>4, <3>7
    <3> QED
        BY <3>9, <3>10
  <2> QED
      BY <2>1, <2>2
<1>10. PartOK(e)'
  <2>1. 1 \in 1..Len(t)
      BY <1>2, <1>4
  <2>2. t[1][2] = m
      BY <1>9, <2>1
  <2> QED
      BY <1>1, <1>9, <2>2 DEF PartOK
<1>11. PipeOK(e)'
  <2>1. ASSUME r # <<>> PROVE Follows(c, r[1])
    <3>1. Len(r) # 0
        BY <1>2, <2>1, NonEmpty
    <3>2. 1 \in 1..(Len(q) - 1)
        BY <1>3, <3>1
    <3>3. r[1] = q[1 + 1] /\ Follows(q[1], q[1 + 1])
        BY <1>1, <1>3, <3>2 DEF StreamOK, PipeOK
    <3> QED
        BY <1>5, <3>3
  <2>2. ASSUME NEW i \in 1..(Len(r) - 1) PROVE Follows(r[i], r[i + 1])
    <3>1. PICK j : j = i + 1
        OBVIOUS
    <3>2. i \in 1..(Len(q) - 1) /\ j \in 1..(Len(q) - 1)
        BY <1>3, <3>1
    <3>3. r[i] = q[j] /\ r[j] = q[j + 1] /\ Follows(q[j], q[j + 1])
        BY <1>1, <1>3, <3>1, <3>2 DEF StreamOK, PipeOK
    <3> QED
        BY <3>1, <3>3
  <2> QED
      BY <1>1, <1>8, <2>1, <2>2 DEF PipeOK
<1>12. Behind(e)' = Behind(e)
  <2>1. Behind(e) = q[Len(q)]
      BY <1>1 DEF Behind
  <2>2. CASE Len(q) = 1
    <3>1. r = <<>>
      <4>1. Len(r) = 0
          BY <1>3, <2>2
      <4> QED
          BY <1>2, <4>1, NonEmpty
    <3> QED
        BY <1>1, <1>5, <1>8, <2>1, <2>2, <3>1 DEF Behind
  <2>3. CASE Len(q) # 1
    <3>1. Len(r) # 0 /\ Len(r) \in 1..(Len(q) - 1) /\ Len(r) + 1 = Len(q)
        BY <1>3, <2>3
    <3>2. r # <<>>
        BY <1>2, <3>1, NonEmpty
    <3>3. r[Len(r)] = q[Len(q)]
        BY <1>3, <3>1
    <3> QED
        BY <1>1, <2>1, <3>2, <3>3 DEF Behind
  <2> QED
      BY <2>2, <2>3
<1>13. PendOK(e)' /\ TookOK(e)' /\ LinkOK(e)'
    BY <1>12 DEF StreamOK, PendOK, TookOK, LinkOK
<1> QED
    BY <1>10, <1>11, <1>13 DEF StreamOK

\* readFrame returns a frame.
LEMMA StreamTake ==
    ASSUME Types, Types', NEW e \in Ends, StreamOK(e), NEW by,
           Whole(part[e]),
           part'[e] = <<>>,
           took'[e] = Append(took[e], [bytes |-> part[e], by |-> by]),
           pipe'[e] = pipe[e], pend'[Peer(e)] = pend[Peer(e)],
           frames'[Peer(e)] = frames[Peer(e)],
           open'[e] = open[e], open'[Peer(e)] = open[Peer(e)]
    PROVE  StreamOK(e)'
<1>1. PICK s, k, n : s = part[e] /\ k = Len(took[e]) /\ n = s[1][2]
    OBVIOUS
<1>2. s \in Seq(Cells) /\ k \in Nat /\ HdrSize \in Nat \ {0}
    BY <1>1, Sizes DEF Types
<1>3. Len(s) >= HdrSize /\ Len(s) = HdrSize + n
    BY <1>1 DEF Whole
<1>4. Len(s) \in Nat \ {0} /\ s # <<>>
    BY <1>2, <1>3, NonEmpty
<1>5. n \in Nat
  <2>1. s[1] \in Cells
      BY <1>2, <1>4
  <2> QED
      BY <1>1, <2>1 DEF Cells
<1>6. \A i \in 1..Len(s) : s[i] = <<k + 1, n, i>>
    BY <1>1 DEF StreamOK, PartOK
<1>7. s = Frame(k + 1, n)
  <2>1. k + 1 \in Nat
      BY <1>2
  <2>2. PICK z : z = Frame(k + 1, n)
      OBVIOUS
  <2>3. /\ z \in Seq(Cells) /\ Len(z) = HdrSize + n
        /\ \A i \in 1..(HdrSize + n) : z[i] = <<k + 1, n, i>>
      BY <1>5, <2>1, <2>2, FrameFact
  <2>4. Len(s) = Len(z) /\ \A i \in 1..Len(s) : s[i] = z[i]
      BY <1>3, <1>6, <2>3
  <2>5. s = z
      BY <1>2, <2>3, <2>4, SeqEqual
  <2> QED
      BY <2>2, <2>5
<1>8. PICK u, v : u = took[e] /\ v = took'[e]
    OBVIOUS
<1>9. /\ u \in Seq(Taken) /\ v \in Seq(Taken) /\ Len(v) = k + 1 /\ Len(u) = k
      /\ \A j \in 1..k : v[j] = u[j]
      /\ v[k + 1].bytes = s
  <2>1. u \in Seq(Taken) /\ v \in Seq(Taken) /\ Len(u) = k
      BY <1>1, <1>8 DEF Types
  <2>2. v = Append(u, [bytes |-> s, by |-> by])
      BY <1>1, <1>8
  <2>3. Len(v) = k + 1 /\ \A j \in 1..k : v[j] = u[j]
      BY <2>1, <2>2
  <2>4. v[k + 1] = [bytes |-> s, by |-> by]
      BY <2>1, <2>2
  <2> QED
      BY <2>1, <2>3, <2>4
<1>10. TookOK(e)'
  <2> SUFFICES ASSUME NEW j \in 1..(k + 1)
               PROVE  v[j].bytes = Frame(j, v[j].bytes[1][2])
      BY <1>8, <1>9 DEF TookOK
  <2>1. CASE j = k + 1
      BY <1>1, <1>7, <1>9, <2>1
  <2>2. CASE j # k + 1
    <3>1. j \in 1..k
        BY <1>2, <2>2
    <3> QED
        BY <1>1, <1>8, <1>9, <3>1 DEF StreamOK, TookOK
  <2> QED
      BY <2>1, <2>2
<1>11. PartOK(e)'
  <2>1. 1..Len(part'[e]) = {}
      OBVIOUS
  <2> QED
      BY <2>1 DEF PartOK
<1>12. Before(e) = <<k + 1, n, HdrSize + n>>
  <2>1. Len(s) \in 1..Len(s)
      BY <1>4
  <2>2. s[Len(s)] = <<k + 1, n, Len(s)>>
      BY <1>6, <2>1
  <2> QED
      BY <1>1, <1>3, <1>4, <2>2 DEF Before
<1>13. Before(e)' = <<k + 1, 0, HdrSize>>
    BY <1>8, <1>9 DEF Before
<1>14. /\ Last(Before(e)) /\ Last(Before(e)')
       /\ Before(e)[1] = k + 1 /\ (Before(e)')[1] = k + 1
    BY <1>2, <1>12, <1>13 DEF Last
<1>15. \A b : Follows(Before(e), b) => Follows(Before(e)', b)
    BY <1>14 DEF Follows
<1>16. PipeOK(e)'
    BY <1>15 DEF StreamOK, PipeOK
<1>17. PendOK(e)'
    BY DEF StreamOK, PendOK
<1>18. LinkOK(e)'
  <2>1. CASE pipe[e] # <<>>
    <3>1. Behind(e)' = Behind(e)
        BY <2>1 DEF Behind
    <3> QED
        BY <3>1 DEF StreamOK, LinkOK
  <2>2. CASE pipe[e] = <<>>
    <3>1. Behind(e) = Before(e) /\ Behind(e)' = Before(e)'
        BY <2>2 DEF Behind
    <3> QED
        BY <1>14, <1>15, <3>1 DEF StreamOK, LinkOK
  <2> QED
      BY <2>1, <2>2
<1> QED
    BY <1>10, <1>11, <1>16, <1>17, <1>18 DEF StreamOK

(***************************************************************************)
(* Every step preserves the invariant.                                     *)
(***************************************************************************)
LEMMA TwoEnds == \A e, d \in Ends : d = e \/ d = Peer(e)
BY DEF Ends, Peer

\* A step that touches neither the streams nor the handshake.
LEMMA StreamsKeep ==
    ASSUME IInv, UNCHANGED <<open, pipe, pend, part, frames, took>>
    PROVE  \A e \in Ends : StreamOK(e)' /\ ByOK(e)'
<1> SUFFICES ASSUME NEW e \in Ends PROVE StreamOK(e)' /\ ByOK(e)'
    OBVIOUS
<1>1. StreamOK(e)'
    BY StreamKeep DEF IInv
<1>2. ByOK(e)'
    BY DEF IInv, ByOK
<1> QED
    BY <1>1, <1>2

\* A byte that write(2) puts in the pipe.
LEMMA RawWriteKeeps ==
    ASSUME IInv, NEW e \in Ends, RawWrite(e)
    PROVE  IInv'
<1>1. /\ pend[e] # <<>> /\ open[e]
      /\ pend' = [pend EXCEPT ![e] = Tail(pend[e])]
      /\ pipe' = IF open[Peer(e)]
                 THEN [pipe EXCEPT ![Peer(e)] = Append(pipe[Peer(e)], Head(pend[e]))]
                 ELSE pipe
      /\ UNCHANGED <<phase, open, part, frames, took, pc, left>>
    BY DEF RawWrite, gors
<1>2. Peer(e) \in Ends /\ Peer(e) # e /\ Peer(Peer(e)) = e
    BY PeerFact
<1>3. /\ pend \in [Ends -> Seq(Cells)] /\ pipe \in [Ends -> Seq(Cells)]
      /\ pend[e] \in Seq(Cells) /\ pipe[Peer(e)] \in Seq(Cells)
    BY <1>2 DEF IInv, Types
<1>4. Tail(pend[e]) \in Seq(Cells) /\ Head(pend[e]) \in Cells
    BY <1>1, <1>3, TailFact
<1>5. Append(pipe[Peer(e)], Head(pend[e])) \in Seq(Cells)
    BY <1>3, <1>4, AppendFact
<1>6. pend' \in [Ends -> Seq(Cells)] /\ pipe' \in [Ends -> Seq(Cells)]
  <2>1. pend' \in [Ends -> Seq(Cells)]
      BY <1>1, <1>3, <1>4
  <2>2. ASSUME open[Peer(e)] PROVE pipe' \in [Ends -> Seq(Cells)]
    <3>1. pipe' = [pipe EXCEPT ![Peer(e)] = Append(pipe[Peer(e)], Head(pend[e]))]
        BY <1>1, <2>2
    <3> QED
        BY <1>3, <1>5, <3>1
  <2>3. ASSUME ~open[Peer(e)] PROVE pipe' \in [Ends -> Seq(Cells)]
      BY <1>1, <1>3, <2>3
  <2> QED
      BY <2>1, <2>2, <2>3
<1>7. Types'
    BY <1>1, <1>6 DEF IInv, Types
<1>8. PhaseOK'
  <2>1. \A d \in Ends : phase[d] = "recv" => pend'[d] = pend[d]
    <3>1. phase[e] # "recv"
        BY <1>1 DEF IInv, PhaseOK
    <3> QED
        BY <1>1, <1>3, <3>1
  <2> QED
      BY <1>1, <2>1 DEF IInv, PhaseOK
<1>9. StreamOK(e)'
  <2>1. pend'[Peer(e)] = pend[Peer(e)] /\ pipe'[e] = pipe[e]
      BY <1>1, <1>2, <1>3
  <2> QED
      BY <1>1, <2>1, StreamKeep DEF IInv
<1>10. StreamOK(Peer(e))'
  <2>1. PICK d : d = Peer(e)
      OBVIOUS
  <2>2. d \in Ends /\ Peer(d) = e /\ StreamOK(d)
      BY <1>2, <2>1 DEF IInv
  <2>3. pend'[e] = Tail(pend[e])
      BY <1>1, <1>3
  <2>4. CASE open[d]
    <3>1. pipe'[d] = Append(pipe[d], Head(pend[e]))
        BY <1>1, <1>2, <1>3, <2>1, <2>4
    <3>2. StreamOK(d)'
        BY <1>1, <1>7, <2>2, <2>3, <2>4, <3>1, StreamWrite DEF IInv
    <3> QED
        BY <2>1, <3>2
  <2>5. CASE ~open[d]
    <3>1. pipe'[d] = pipe[d] /\ pipe[d] = <<>>
        BY <1>1, <2>1, <2>2, <2>5 DEF StreamOK, PipeOK
    <3>2. PendOK(d)'
        BY <1>1, <2>2, <2>3, PendTail DEF IInv, StreamOK
    <3>3. Before(d)' = Before(d)
        BY <1>1 DEF Before
    <3>4. PartOK(d)' /\ TookOK(d)'
        BY <1>1, <2>2 DEF StreamOK, PartOK, TookOK
    <3>5. PipeOK(d)'
        BY <1>1, <2>2, <3>1, <3>3 DEF StreamOK, PipeOK
    <3>6. LinkOK(d)'
        BY <1>1, <2>5 DEF LinkOK
    <3>7. StreamOK(d)'
        BY <3>2, <3>4, <3>5, <3>6 DEF StreamOK
    <3> QED
        BY <2>1, <3>7
  <2> QED
      BY <2>4, <2>5
<1>11. \A d \in Ends : ByOK(d)'
    BY <1>1 DEF IInv, ByOK
<1> QED
    BY <1>7, <1>8, <1>9, <1>10, <1>11, TwoEnds DEF IInv

\* A byte that read(2) takes out of it.
LEMMA RawReadKeeps ==
    ASSUME IInv, NEW e \in Ends, RawRead(e)
    PROVE  IInv'
<1>1. /\ open[e] /\ ~Whole(part[e]) /\ pipe[e] # <<>>
      /\ part' = [part EXCEPT ![e] = Append(part[e], Head(pipe[e]))]
      /\ pipe' = [pipe EXCEPT ![e] = Tail(pipe[e])]
      /\ UNCHANGED <<phase, open, pend, frames, took, pc, left>>
    BY DEF RawRead, gors
<1>2. Peer(e) \in Ends /\ Peer(e) # e
    BY PeerFact
<1>3. /\ part \in [Ends -> Seq(Cells)] /\ pipe \in [Ends -> Seq(Cells)]
      /\ part[e] \in Seq(Cells) /\ pipe[e] \in Seq(Cells)
    BY DEF IInv, Types
<1>4. Tail(pipe[e]) \in Seq(Cells) /\ Head(pipe[e]) \in Cells
    BY <1>1, <1>3, TailFact
<1>5. Append(part[e], Head(pipe[e])) \in Seq(Cells)
    BY <1>3, <1>4, AppendFact
<1>6. part' \in [Ends -> Seq(Cells)] /\ pipe' \in [Ends -> Seq(Cells)]
    BY <1>1, <1>3, <1>4, <1>5
<1>7. Types'
    BY <1>1, <1>6 DEF IInv, Types
<1>8. PhaseOK'
    BY <1>1 DEF IInv, PhaseOK
<1>9. StreamOK(e)'
  <2>1. part'[e] = Append(part[e], Head(pipe[e])) /\ pipe'[e] = Tail(pipe[e])
      BY <1>1, <1>3
  <2> QED
      BY <1>1, <1>7, <2>1, StreamRead DEF IInv
<1>10. StreamOK(Peer(e))'
  <2>1. part'[Peer(e)] = part[Peer(e)] /\ pipe'[Peer(e)] = pipe[Peer(e)]
      BY <1>1, <1>2, <1>3
  <2> QED
      BY <1>1, <1>2, <2>1, StreamKeep DEF IInv
<1>11. \A d \in Ends : ByOK(d)'
    BY <1>1 DEF IInv, ByOK
<1> QED
    BY <1>7, <1>8, <1>9, <1>10, <1>11, TwoEnds DEF IInv

\* readFrame is called in the handshake for the first frame, then in Read.
LEMMA ByKeeps ==
    ASSUME IInv, Types', NEW e \in Ends, NEW by,
           by = IF took[e] = <<>> THEN "handshake" ELSE "Read",
           took' = [took EXCEPT ![e] = Append(took[e], [bytes |-> part[e], by |-> by])]
    PROVE  /\ \A d \in Ends : ByOK(d)'
           /\ took'[e] # <<>>
<1>1. PICK u, v, k : u = took[e] /\ v = took'[e] /\ k = Len(u)
    OBVIOUS
<1>2. /\ u \in Seq(Taken) /\ v \in Seq(Taken) /\ k \in Nat
      /\ v = Append(u, [bytes |-> part[e], by |-> by])
    BY <1>1 DEF IInv, Types
<1>3. Len(v) = k + 1 /\ \A j \in 1..k : v[j] = u[j]
    BY <1>1, <1>2
<1>4. v[k + 1] = [bytes |-> part[e], by |-> by]
    BY <1>1, <1>2
<1>5. v # <<>>
  <2>1. Len(v) # 0
      BY <1>2, <1>3
  <2> QED
      BY <1>2, <2>1
<1>6. u = <<>> <=> k = 0
    BY <1>1, <1>2, EmptySeq
<1>7. ASSUME NEW j \in 1..(k + 1)
      PROVE  v[j].by = IF j = 1 THEN "handshake" ELSE "Read"
  <2>1. CASE j = k + 1
    <3>1. v[j].by = by
        BY <1>4, <2>1
    <3>2. j = 1 <=> u = <<>>
        BY <1>2, <1>6, <2>1
    <3> QED
        BY <1>1, <3>1, <3>2
  <2>2. CASE j # k + 1
    <3>1. j \in 1..k
        BY <1>2, <2>2
    <3> QED
        BY <1>1, <1>3, <3>1 DEF IInv, ByOK
  <2> QED
      BY <2>1, <2>2
<1>8. ByOK(e)'
    BY <1>1, <1>3, <1>7 DEF ByOK
<1>9. ASSUME NEW d \in Ends, d # e PROVE ByOK(d)'
  <2>1. took'[d] = took[d]
      BY <1>9 DEF IInv, Types
  <2> QED
      BY <2>1 DEF IInv, ByOK
<1> QED
    BY <1>1, <1>5, <1>8, <1>9

\* An end that has written its handshake frame waits, or is up.
LEMMA HandshakeSentKeeps ==
    ASSUME IInv, NEW e \in Ends, HandshakeSent(e)
    PROVE  IInv'
<1>1. /\ phase[e] = "send" /\ pend[e] = <<>>
      /\ phase' = [phase EXCEPT ![e] = IF e = "I" THEN "recv" ELSE "up"]
      /\ UNCHANGED <<open, pipe, pend, part, frames, took, pc, left>>
    BY DEF HandshakeSent, raw, io, gors
<1>2. Types'
    BY <1>1 DEF IInv, Types
<1>3. PhaseOK'
  <2>1. phase \in [Ends -> {"send", "recv", "up", "failed"}]
      BY DEF IInv, PhaseOK
  <2>2. /\ phase' \in [Ends -> {"send", "recv", "up", "failed"}]
        /\ phase'[e] = (IF e = "I" THEN "recv" ELSE "up")
        /\ \A d \in Ends : d # e => phase'[d] = phase[d]
      BY <1>1, <2>1
  <2>3. \A d \in Ends :
          /\ phase'[d] = "recv" => took[d] = <<>> /\ pend[d] = <<>>
          /\ phase'[d] = "up" => took[d] # <<>>
      BY <1>1, <2>2 DEF IInv, PhaseOK, Ends
  <2>4. /\ phase'["I"] = "send" => took["I"] = <<>>
        /\ phase'["R"] = "send" => took["R"] # <<>>
      BY <2>2 DEF IInv, PhaseOK, Ends
  <2>5. \A g \in Goroutines : pc[g] # "idle" => phase'[g[1]] = "up"
    <3> SUFFICES ASSUME NEW g \in Goroutines, pc[g] # "idle" PROVE phase'[g[1]] = "up"
        OBVIOUS
    <3>1. g[1] \in Ends /\ phase[g[1]] = "up"
        BY SessionAssumption DEF IInv, PhaseOK
    <3> QED
        BY <1>1, <2>2, <3>1
  <2> QED
      BY <1>1, <2>2, <2>3, <2>4, <2>5 DEF IInv, PhaseOK
<1> QED
    BY <1>1, <1>2, <1>3, StreamsKeep DEF IInv

\* The initiator takes the response.
LEMMA InitiatorGotKeeps ==
    ASSUME IInv, InitiatorGot
    PROVE  IInv'
<1>0. PICK e : e = "I"
    OBVIOUS
<1>1. /\ e \in Ends /\ phase[e] = "recv" /\ readFrame(e, "handshake")
      /\ phase' = [phase EXCEPT ![e] = "up"]
      /\ UNCHANGED <<pend, frames, pc, left>>
    BY <1>0 DEF InitiatorGot, gors, Ends
<1>2. /\ Whole(part[e])
      /\ took' = [took EXCEPT ![e] = Append(took[e], [bytes |-> part[e], by |-> "handshake"])]
      /\ part' = [part EXCEPT ![e] = <<>>]
      /\ UNCHANGED <<pipe, open>>
      /\ part' \in [Ends -> Seq(Cells)]
      /\ took' \in [Ends -> Seq(Taken)]
    BY <1>1, TakeFact DEF IInv
<1>3. Types'
    BY <1>1, <1>2 DEF IInv, Types
<1>4. took[e] = <<>>
    BY <1>1 DEF IInv, PhaseOK
<1>5. (\A d \in Ends : ByOK(d)') /\ took'[e] # <<>>
    BY <1>1, <1>2, <1>3, <1>4, ByKeeps
<1>6. Peer(e) \in Ends /\ Peer(e) # e
    BY <1>1, PeerFact
<1>7. /\ took'[e] = Append(took[e], [bytes |-> part[e], by |-> "handshake"])
      /\ part'[e] = <<>>
      /\ took'[Peer(e)] = took[Peer(e)] /\ part'[Peer(e)] = part[Peer(e)]
    BY <1>1, <1>2, <1>6 DEF IInv, Types
<1>8. StreamOK(e)'
    BY <1>1, <1>2, <1>3, <1>7, StreamTake DEF IInv
<1>9. StreamOK(Peer(e))'
    BY <1>1, <1>2, <1>6, <1>7, StreamKeep DEF IInv
<1>10. PhaseOK'
  <2>1. /\ phase' \in [Ends -> {"send", "recv", "up", "failed"}]
        /\ phase'[e] = "up"
        /\ \A d \in Ends : d # e => phase'[d] = phase[d]
      BY <1>1 DEF IInv, PhaseOK
  <2>2. \A d \in Ends : d # e => took'[d] = took[d]
      BY <1>2 DEF IInv, Types
  <2>3. \A g \in Goroutines : g[1] \in Ends
      BY SessionAssumption
  <2>4. /\ phase'["I"] = "send" => took'["I"] = <<>>
        /\ phase'["R"] = "send" => took'["R"] # <<>>
      BY <1>0, <2>1, <2>2 DEF IInv, PhaseOK, Ends
  <2>5. \A g \in Goroutines : pc[g] # "idle" => phase'[g[1]] = "up"
      BY <2>1, <2>3 DEF IInv, PhaseOK
  <2>6. \A d \in Ends :
          /\ phase'[d] = "recv" => took'[d] = <<>> /\ pend[d] = <<>>
          /\ phase'[d] = "up" => took'[d] # <<>>
      BY <1>5, <2>1, <2>2 DEF IInv, PhaseOK
  <2> QED
      BY <1>1, <2>1, <2>4, <2>5, <2>6 DEF IInv, PhaseOK
<1> QED
    BY <1>1, <1>3, <1>5, <1>8, <1>9, <1>10, TwoEnds DEF IInv

\* The responder takes the init and writes the response.
LEMMA ResponderGotKeeps ==
    ASSUME IInv, ResponderGot
    PROVE  IInv'
<1>0. PICK e : e = "R"
    OBVIOUS
<1>1. /\ e \in Ends /\ phase[e] = "recv" /\ readFrame(e, "handshake")
      /\ writeFrame(e, RespSize)
      /\ phase' = [phase EXCEPT ![e] = "send"]
      /\ UNCHANGED <<pc, left>>
    BY <1>0 DEF ResponderGot, gors, Ends
<1>2. /\ Whole(part[e])
      /\ took' = [took EXCEPT ![e] = Append(took[e], [bytes |-> part[e], by |-> "handshake"])]
      /\ part' = [part EXCEPT ![e] = <<>>]
      /\ UNCHANGED <<pipe, open>>
      /\ part' \in [Ends -> Seq(Cells)]
      /\ took' \in [Ends -> Seq(Taken)]
    BY <1>1, TakeFact DEF IInv
<1>s. /\ pend' = [pend EXCEPT ![e] = Frame(frames[e] + 1, RespSize)]
      /\ frames' = [frames EXCEPT ![e] = frames[e] + 1]
      /\ pend' \in [Ends -> Seq(Cells)]
      /\ frames' \in [Ends -> Nat]
      /\ RespSize \in Nat
  <2>1. RespSize \in Nat
      BY SessionAssumption
  <2> QED
      BY <1>1, <2>1, SendFact DEF IInv
<1>3. Types'
    BY <1>1, <1>2, <1>s DEF IInv, Types
<1>4. took[e] = <<>> /\ pend[e] = <<>>
    BY <1>1 DEF IInv, PhaseOK
<1>5. (\A d \in Ends : ByOK(d)') /\ took'[e] # <<>>
    BY <1>1, <1>2, <1>3, <1>4, ByKeeps
<1>6. Peer(e) \in Ends /\ Peer(e) # e /\ Peer(Peer(e)) = e
    BY <1>1, PeerFact
<1>7. /\ took'[e] = Append(took[e], [bytes |-> part[e], by |-> "handshake"])
      /\ part'[e] = <<>>
      /\ took'[Peer(e)] = took[Peer(e)] /\ part'[Peer(e)] = part[Peer(e)]
    BY <1>1, <1>2, <1>6 DEF IInv, Types
<1>8. /\ pend'[e] = Frame(frames[e] + 1, RespSize) /\ frames'[e] = frames[e] + 1
      /\ pend'[Peer(e)] = pend[Peer(e)] /\ frames'[Peer(e)] = frames[Peer(e)]
    BY <1>1, <1>s, <1>6 DEF IInv, Types
<1>9. StreamOK(e)'
    BY <1>1, <1>2, <1>3, <1>7, <1>8, StreamTake DEF IInv
<1>10. StreamOK(Peer(e))'
  <2>1. PICK d : d = Peer(e)
      OBVIOUS
  <2>2. d \in Ends /\ Peer(d) = e /\ StreamOK(d)
      BY <1>6, <2>1 DEF IInv
  <2>3. StreamOK(d)'
      BY <1>2, <1>s, <1>3, <1>4, <1>7, <1>8, <2>1, <2>2, StreamSend DEF IInv
  <2> QED
      BY <2>1, <2>3
<1>11. PhaseOK'
  <2>1. /\ phase' \in [Ends -> {"send", "recv", "up", "failed"}]
        /\ phase'[e] = "send"
        /\ \A d \in Ends : d # e => phase'[d] = phase[d]
      BY <1>1 DEF IInv, PhaseOK
  <2>2. \A d \in Ends : d # e => took'[d] = took[d] /\ pend'[d] = pend[d]
      BY <1>2, <1>s DEF IInv, Types
  <2>3. \A g \in Goroutines : g[1] \in Ends
      BY SessionAssumption
  <2>4. /\ phase'["I"] = "send" => took'["I"] = <<>>
        /\ phase'["R"] = "send" => took'["R"] # <<>>
      BY <1>0, <1>5, <2>1, <2>2 DEF IInv, PhaseOK, Ends
  <2>5. \A g \in Goroutines : pc[g] # "idle" => phase'[g[1]] = "up"
      BY <1>1, <2>1, <2>3 DEF IInv, PhaseOK
  <2>6. \A d \in Ends :
          /\ phase'[d] = "recv" => took'[d] = <<>> /\ pend'[d] = <<>>
          /\ phase'[d] = "up" => took'[d] # <<>>
    <3> TAKE d \in Ends
    <3>1. CASE d = e
        BY <2>1, <3>1
    <3>2. CASE d # e
      <4>1. phase'[d] = phase[d] /\ took'[d] = took[d] /\ pend'[d] = pend[d]
          BY <2>1, <2>2, <3>2
      <4> QED
          BY <4>1 DEF IInv, PhaseOK
    <3> QED
        BY <3>1, <3>2
  <2> QED
      BY <1>1, <2>1, <2>4, <2>5, <2>6 DEF IInv, PhaseOK
<1> QED
    BY <1>1, <1>3, <1>5, <1>9, <1>10, <1>11, TwoEnds DEF IInv

\* What a close does to both streams, when e gives up a frame or keeps it.
LEMMA ShutKeeps ==
    ASSUME IInv, NEW e \in Ends, Shut(e), UNCHANGED <<frames, took, left>>,
           UNCHANGED part \/ part' = [part EXCEPT ![e] = <<>>],
           UNCHANGED pend \/ pend' = [pend EXCEPT ![e] = <<>>]
    PROVE  Types' /\ \A d \in Ends : StreamOK(d)' /\ ByOK(d)'
<1>1. Peer(e) \in Ends /\ Peer(e) # e /\ Peer(Peer(e)) = e
    BY PeerFact
<1>2. /\ open' = [open EXCEPT ![e] = FALSE]
      /\ pipe' \in [Ends -> Seq(Cells)]
      /\ pipe'[e] = <<>>
      /\ \E n \in 0..Len(pipe[Peer(e)]) :
            pipe'[Peer(e)] = SubSeq(pipe[Peer(e)], 1, n)
    BY ShutFact DEF IInv
<1>3. Types'
  <2>1. open' \in [Ends -> BOOLEAN]
      BY <1>2 DEF IInv, Types
  <2>2. part' \in [Ends -> Seq(Cells)]
    <3>1. part \in [Ends -> Seq(Cells)] /\ <<>> \in Seq(Cells)
        BY DEF IInv, Types
    <3>2. CASE part' = part
        BY <3>1, <3>2
    <3>3. CASE part' = [part EXCEPT ![e] = <<>>]
        BY <3>1, <3>3
    <3> QED
        BY <3>2, <3>3
  <2>3. pend' \in [Ends -> Seq(Cells)]
    <3>1. pend \in [Ends -> Seq(Cells)] /\ <<>> \in Seq(Cells)
        BY DEF IInv, Types
    <3>2. CASE pend' = pend
        BY <3>1, <3>2
    <3>3. CASE pend' = [pend EXCEPT ![e] = <<>>]
        BY <3>1, <3>3
    <3> QED
        BY <3>2, <3>3
  <2> QED
      BY <1>2, <2>1, <2>2, <2>3 DEF IInv, Types
<1>4. /\ ~open'[e] /\ open'[Peer(e)] = open[Peer(e)]
      /\ part'[Peer(e)] = part[Peer(e)] /\ pend'[Peer(e)] = pend[Peer(e)]
      /\ part'[e] = part[e] \/ part'[e] = <<>>
      /\ pend'[e] = pend[e] \/ pend'[e] = <<>>
  <2>1. ~open'[e] /\ open'[Peer(e)] = open[Peer(e)]
      BY <1>1, <1>2 DEF IInv, Types
  <2>2. part'[Peer(e)] = part[Peer(e)] /\ (part'[e] = part[e] \/ part'[e] = <<>>)
      BY <1>1 DEF IInv, Types
  <2>3. pend'[Peer(e)] = pend[Peer(e)] /\ (pend'[e] = pend[e] \/ pend'[e] = <<>>)
      BY <1>1 DEF IInv, Types
  <2> QED
      BY <2>1, <2>2, <2>3
<1>5. StreamOK(e)'
    BY <1>2, <1>3, <1>4, StreamEnds DEF IInv
<1>6. StreamOK(Peer(e))'
  <2>1. PICK d : d = Peer(e)
      OBVIOUS
  <2>2. d \in Ends /\ Peer(d) = e /\ StreamOK(d)
      BY <1>1, <2>1 DEF IInv
  <2>3. ~open'[d] => pipe'[d] = <<>>
    <3> SUFFICES ASSUME ~open'[d] PROVE pipe'[d] = <<>>
        OBVIOUS
    <3>1. pipe[d] = <<>>
        BY <1>4, <2>1, <2>2 DEF StreamOK, PipeOK
    <3>2. PICK n \in 0..Len(pipe[d]) : pipe'[d] = SubSeq(pipe[d], 1, n)
        BY <1>2, <2>1
    <3>3. n < 1 /\ n \in Int
        BY <3>1, <3>2
    <3> QED
        BY <3>2, <3>3, SubSeqEmpty
  <2>4. StreamOK(d)'
      BY <1>2, <1>3, <1>4, <2>1, <2>2, <2>3, StreamEnds DEF IInv
  <2> QED
      BY <2>1, <2>4
<1>7. \A d \in Ends : ByOK(d)'
    BY DEF IInv, ByOK
<1> QED
    BY <1>3, <1>5, <1>6, <1>7, TwoEnds

\* An end that refuses a frame, or whose connection broke, gives up.
LEMMA HandshakeFailsKeeps ==
    ASSUME IInv, NEW e \in Ends, HandshakeFails(e)
    PROVE  IInv'
<1>1. /\ phase[e] = "recv" \/ phase[e] = "send"
      /\ phase' = [phase EXCEPT ![e] = "failed"]
      /\ pend' = [pend EXCEPT ![e] = <<>>]
      /\ part' = [part EXCEPT ![e] = <<>>]
      /\ Shut(e)
      /\ UNCHANGED <<frames, took, pc, left>>
    BY DEF HandshakeFails, gors
<1>2. Types' /\ \A d \in Ends : StreamOK(d)' /\ ByOK(d)'
    BY <1>1, ShutKeeps
<1>3. PhaseOK'
  <2>1. /\ phase' \in [Ends -> {"send", "recv", "up", "failed"}]
        /\ phase'[e] = "failed"
        /\ \A d \in Ends : d # e => phase'[d] = phase[d] /\ pend'[d] = pend[d]
      BY <1>1 DEF IInv, PhaseOK, Types
  <2>2. \A g \in Goroutines : g[1] \in Ends
      BY SessionAssumption
  <2>3. \A g \in Goroutines : pc[g] # "idle" => phase'[g[1]] = "up"
      BY <1>1, <2>1, <2>2 DEF IInv, PhaseOK
  <2>4. /\ phase'["I"] = "send" => took["I"] = <<>>
        /\ phase'["R"] = "send" => took["R"] # <<>>
      BY <2>1 DEF IInv, PhaseOK, Ends
  <2>5. \A d \in Ends :
          /\ phase'[d] = "recv" => took[d] = <<>> /\ pend'[d] = <<>>
          /\ phase'[d] = "up" => took[d] # <<>>
      BY <2>1 DEF IInv, PhaseOK
  <2> QED
      BY <1>1, <2>1, <2>3, <2>4, <2>5 DEF IInv, PhaseOK
<1> QED
    BY <1>2, <1>3 DEF IInv

\* Conn.Close.
LEMMA CloseKeeps ==
    ASSUME IInv, NEW e \in Ends, Close(e)
    PROVE  IInv'
<1>1. Shut(e) /\ UNCHANGED <<phase, pend, part, frames, took, pc, left>>
    BY DEF Close, io, gors
<1>2. Types' /\ \A d \in Ends : StreamOK(d)' /\ ByOK(d)'
    BY <1>1, ShutKeeps
<1>3. PhaseOK'
    BY <1>1 DEF IInv, PhaseOK
<1> QED
    BY <1>2, <1>3 DEF IInv

\* Goroutines enter and leave calls only where the handshake is over.
LEMMA CallPhase ==
    ASSUME IInv, NEW g \in Goroutines, phase[g[1]] = "up",
           NEW then \in {"idle", "lock", "in", "gave up"},
           pc' = [pc EXCEPT ![g] = then], UNCHANGED phase,
           \A d \in Ends : phase[d] = "recv" => took'[d] = took[d] /\ pend'[d] = pend[d],
           \A d \in Ends : phase[d] = "up" /\ took[d] # <<>> => took'[d] # <<>>,
           \A d \in Ends : phase[d] = "send" => took'[d] = took[d]
    PROVE  PhaseOK'
<1>1. pc' \in [Goroutines -> {"idle", "lock", "in", "gave up"}]
    BY DEF IInv, PhaseOK
<1>2. \A h \in Goroutines : pc'[h] # "idle" => phase[h[1]] = "up"
    BY DEF IInv, PhaseOK
<1>3. /\ phase["I"] = "send" => took'["I"] = <<>>
      /\ phase["R"] = "send" => took'["R"] # <<>>
    BY DEF IInv, PhaseOK, Ends
<1>4. \A d \in Ends :
        /\ phase[d] = "recv" => took'[d] = <<>> /\ pend'[d] = <<>>
        /\ phase[d] = "up" => took'[d] # <<>>
    BY DEF IInv, PhaseOK
<1> QED
    BY <1>1, <1>2, <1>3, <1>4 DEF IInv, PhaseOK

\* A goroutine works for an end.
LEMMA EndOf == \A g \in Goroutines : g[1] \in Ends
BY SessionAssumption

\* Calls, locks, and a Write that returns.
LEMMA CallKeeps ==
    ASSUME IInv, NEW g \in Goroutines,
           \/ g \in Readers /\ ReadCall(g)
           \/ g \in Writers /\ WriteCall(g)
           \/ Lock(g)
           \/ WriteReturns(g)
    PROVE  IInv'
<1>1. UNCHANGED <<open, pipe, pend, part, frames, took, phase>>
    BY DEF ReadCall, WriteCall, Lock, WriteReturns, Return, raw, io
<1>2. phase[g[1]] = "up"
    BY DEF ReadCall, WriteCall, Lock, WriteReturns, InWrite, IInv, PhaseOK
<1>3. \E then \in {"idle", "lock", "in", "gave up"} : pc' = [pc EXCEPT ![g] = then]
    BY DEF ReadCall, WriteCall, Lock, WriteReturns, Return
<1>4. PhaseOK'
    BY <1>1, <1>2, <1>3, CallPhase
<1>5. left' \in [Writers -> Int]
  <2>1. left \in [Writers -> Int]
      BY DEF IInv, Types
  <2>2. ASSUME UNCHANGED left PROVE left' \in [Writers -> Int]
      BY <2>1, <2>2
  <2>3. ASSUME WriteCall(g) PROVE left' \in [Writers -> Int]
    <3>1. PICK n \in Payloads(g[1]) : left' = [left EXCEPT ![g] = n]
        BY <2>3 DEF WriteCall
    <3>2. n \in Int
      <4>1. /\ WriteSizes \subseteq Int /\ BufSize \in Int /\ HdrSize \in Int
            /\ Overhead \in Int /\ maxPlain \in Int
          BY SessionAssumption DEF maxPlain
      <4>2. n \in WriteSizes \/ n \in 1..maxPlain \/ (n = Echoed /\ ServerRead)
          BY <3>1 DEF Payloads
      <4>3. ASSUME ServerRead PROVE Echoed \in Int
        <5>1. took["R"] \in Seq(Taken) /\ 2 \in 1..Len(took["R"])
            BY <4>3 DEF ServerRead, IInv, Types, Ends
        <5>2. took["R"][2] \in Taken
            BY <5>1
        <5>3. took["R"][2].bytes \in Seq(Cells)
            BY <5>2 DEF Taken
        <5>4. Len(took["R"][2].bytes) \in Nat
            BY <5>3
        <5> QED
            BY <4>1, <5>4 DEF Echoed
      <4>4. ASSUME n \in 1..maxPlain PROVE n \in Int
          BY <4>1, <4>4
      <4> QED
          BY <4>1, <4>2, <4>3, <4>4
    <3> QED
        BY <2>1, <3>1, <3>2
  <2> QED
      BY <2>2, <2>3 DEF ReadCall, Lock, WriteReturns
<1>6. Types'
    BY <1>1, <1>5 DEF IInv, Types
<1> QED
    BY <1>1, <1>4, <1>6, StreamsKeep DEF IInv

\* Conn.Write hands its next chunk to the connection.
LEMMA WriteChunkKeeps ==
    ASSUME IInv, NEW g \in Goroutines, WriteChunk(g)
    PROVE  IInv'
<1>1. PICK e, n : e = g[1] /\ n = IF left[g] < maxPlain THEN left[g] ELSE maxPlain
    OBVIOUS
<1>2. /\ e \in Ends /\ g \in Writers /\ pend[e] = <<>> /\ left[g] > 0 /\ pc[g] = "in"
      /\ writeFrame(e, n + Overhead)
      /\ left' = [left EXCEPT ![g] = left[g] - n]
      /\ UNCHANGED <<phase, open, pipe, part, took, pc>>
    BY <1>1, EndOf DEF WriteChunk, InWrite, raw
<1>3. n \in Nat /\ n + Overhead \in Nat /\ left[g] - n \in Int
  <2>1. left[g] \in Int /\ maxPlain \in Nat /\ Overhead \in Nat
      BY <1>2, Sizes DEF IInv, Types
  <2>2. n \in Nat
      BY <1>1, <1>2, <2>1
  <2> QED
      BY <2>1, <2>2
<1>4. /\ pend' = [pend EXCEPT ![e] = Frame(frames[e] + 1, n + Overhead)]
      /\ frames' = [frames EXCEPT ![e] = frames[e] + 1]
      /\ pend' \in [Ends -> Seq(Cells)]
      /\ frames' \in [Ends -> Nat]
    BY <1>2, <1>3, SendFact DEF IInv
<1>5. Types'
  <2>1. left' \in [Writers -> Int]
      BY <1>2, <1>3 DEF IInv, Types
  <2> QED
      BY <1>2, <1>4, <2>1 DEF IInv, Types
<1>6. Peer(e) \in Ends /\ Peer(e) # e /\ Peer(Peer(e)) = e
    BY <1>2, PeerFact
<1>7. /\ pend'[e] = Frame(frames[e] + 1, n + Overhead) /\ frames'[e] = frames[e] + 1
      /\ \A d \in Ends : d # e => pend'[d] = pend[d] /\ frames'[d] = frames[d]
    BY <1>2, <1>4 DEF IInv, Types
<1>8. StreamOK(e)'
    BY <1>2, <1>6, <1>7, StreamKeep DEF IInv
<1>9. StreamOK(Peer(e))'
  <2>1. PICK d, m : d = Peer(e) /\ m = n + Overhead
      OBVIOUS
  <2>2. d \in Ends /\ Peer(d) = e /\ StreamOK(d) /\ m \in Nat
      BY <1>3, <1>6, <2>1 DEF IInv
  <2>3. StreamOK(d)'
      BY <1>2, <1>5, <1>7, <2>1, <2>2, StreamSend DEF IInv
  <2> QED
      BY <2>1, <2>3
<1>10. PhaseOK'
  <2>1. phase[e] = "up"
      BY <1>1, <1>2 DEF IInv, PhaseOK
  <2>2. \A d \in Ends : phase[d] = "recv" => pend'[d] = pend[d]
      BY <1>7, <2>1
  <2> QED
      BY <1>2, <2>2 DEF IInv, PhaseOK
<1>11. \A d \in Ends : ByOK(d)'
    BY <1>2 DEF IInv, ByOK
<1> QED
    BY <1>2, <1>5, <1>8, <1>9, <1>10, <1>11, TwoEnds DEF IInv

\* Conn.Write returns an error.
LEMMA WriteFailsKeeps ==
    ASSUME IInv, NEW g \in Goroutines, WriteFails(g)
    PROVE  IInv'
<1>1. PICK e : e = g[1]
    OBVIOUS
<1>2. /\ e \in Ends /\ g \in Writers /\ pc[g] = "in" /\ WriteBroken(e)
      /\ pend' = [pend EXCEPT ![e] = <<>>]
      /\ left' = [left EXCEPT ![g] = 0]
      /\ pc' = [pc EXCEPT ![g] = "gave up"]
      /\ UNCHANGED <<phase, open, pipe, part, frames, took>>
    BY <1>1, EndOf DEF WriteFails, InWrite, Return, raw
<1>3. Types'
  <2>1. left' \in [Writers -> Int]
    <3>1. left \in [Writers -> Int]
        BY DEF IInv, Types
    <3>2. g \in Writers /\ left' = [left EXCEPT ![g] = 0]
        BY <1>2
    <3> QED
        BY <3>1, <3>2
  <2>2. pend' \in [Ends -> Seq(Cells)]
    <3>1. <<>> \in Seq(Cells) /\ pend \in [Ends -> Seq(Cells)]
        BY DEF IInv, Types
    <3> QED
        BY <1>2, <3>1
  <2> QED
      BY <1>2, <2>1, <2>2 DEF IInv, Types
<1>4. Peer(e) \in Ends /\ Peer(e) # e /\ Peer(Peer(e)) = e
    BY <1>2, PeerFact
<1>5. pend'[e] = <<>> /\ \A d \in Ends : d # e => pend'[d] = pend[d]
    BY <1>2 DEF IInv, Types
<1>6. StreamOK(e)'
    BY <1>2, <1>4, <1>5, StreamKeep DEF IInv
<1>7. StreamOK(Peer(e))'
  <2>1. PICK d : d = Peer(e)
      OBVIOUS
  <2>2. d \in Ends /\ Peer(d) = e /\ StreamOK(d)
      BY <1>4, <2>1 DEF IInv
  <2>3. ~(open'[d] /\ open'[e])
      BY <1>2, <2>1 DEF WriteBroken
  <2>4. \E n \in 0..Len(pipe[d]) : pipe'[d] = SubSeq(pipe[d], 1, n)
    <3>1. PICK s, n : s = pipe[d] /\ n = Len(s)
        OBVIOUS
    <3>2. s \in Seq(Cells) /\ n \in 0..Len(s) /\ s = SubSeq(s, 1, n)
      <4>1. s \in Seq(Cells)
          BY <2>2, <3>1 DEF IInv, Types
      <4> QED
          BY <3>1, <4>1, SubSeqFull
    <3> QED
        BY <1>2, <3>1, <3>2
  <2>5. ~open'[d] => pipe'[d] = <<>>
      BY <1>2, <2>2 DEF StreamOK, PipeOK
  <2>6. StreamOK(d)'
      BY <1>2, <1>3, <1>5, <2>2, <2>3, <2>4, <2>5, StreamEnds DEF IInv
  <2> QED
      BY <2>1, <2>6
<1>8. PhaseOK'
  <2>1. phase[e] = "up"
      BY <1>1, <1>2 DEF IInv, PhaseOK
  <2>2. \A d \in Ends : phase[d] = "recv" => pend'[d] = pend[d]
      BY <1>5, <2>1
  <2> QED
      BY <1>1, <1>2, <2>1, <2>2, CallPhase
<1>9. \A d \in Ends : ByOK(d)'
    BY <1>2 DEF IInv, ByOK
<1> QED
    BY <1>2, <1>3, <1>6, <1>7, <1>8, <1>9, TwoEnds DEF IInv

\* Conn.Read takes a record.
LEMMA ReadReturnsKeeps ==
    ASSUME IInv, NEW g \in Goroutines, ReadReturns(g)
    PROVE  IInv'
<1>1. PICK e : e = g[1]
    OBVIOUS
<1>2. /\ e \in Ends /\ pc[g] = "in" /\ readFrame(e, "Read")
      /\ pc' = [pc EXCEPT ![g] = "idle"]
      /\ UNCHANGED <<phase, pend, frames, left>>
    BY <1>1, EndOf DEF ReadReturns, InRead, Return
<1>3. /\ Whole(part[e])
      /\ took' = [took EXCEPT ![e] = Append(took[e], [bytes |-> part[e], by |-> "Read"])]
      /\ part' = [part EXCEPT ![e] = <<>>]
      /\ UNCHANGED <<pipe, open>>
      /\ part' \in [Ends -> Seq(Cells)]
      /\ took' \in [Ends -> Seq(Taken)]
    BY <1>2, TakeFact DEF IInv
<1>4. Types'
    BY <1>2, <1>3 DEF IInv, Types
<1>5. phase[e] = "up" /\ took[e] # <<>>
    BY <1>1, <1>2 DEF IInv, PhaseOK
<1>6. (\A d \in Ends : ByOK(d)') /\ took'[e] # <<>>
    BY <1>2, <1>3, <1>4, <1>5, ByKeeps
<1>7. Peer(e) \in Ends /\ Peer(e) # e
    BY <1>2, PeerFact
<1>8. /\ took'[e] = Append(took[e], [bytes |-> part[e], by |-> "Read"])
      /\ part'[e] = <<>>
      /\ \A d \in Ends : d # e => took'[d] = took[d] /\ part'[d] = part[d]
    BY <1>2, <1>3 DEF IInv, Types
<1>9. StreamOK(e)'
    BY <1>2, <1>3, <1>4, <1>8, StreamTake DEF IInv
<1>10. StreamOK(Peer(e))'
    BY <1>2, <1>3, <1>7, <1>8, StreamKeep DEF IInv
<1>11. PhaseOK'
  <2>1. \A d \in Ends : phase[d] # "up" => took'[d] = took[d]
      BY <1>5, <1>8
  <2>2. \A d \in Ends : phase[d] = "up" /\ took[d] # <<>> => took'[d] # <<>>
      BY <1>6, <1>8
  <2> QED
      BY <1>1, <1>2, <1>5, <2>1, <2>2, CallPhase
<1> QED
    BY <1>2, <1>4, <1>6, <1>9, <1>10, <1>11, TwoEnds DEF IInv

\* Conn.Read returns an error.
LEMMA ReadFailsKeeps ==
    ASSUME IInv, NEW g \in Goroutines, ReadFails(g)
    PROVE  IInv'
<1>1. PICK e : e = g[1]
    OBVIOUS
<1>2. /\ e \in Ends /\ pc[g] = "in" /\ AtEnd(e)
      /\ part' = [part EXCEPT ![e] = <<>>]
      /\ pc' = [pc EXCEPT ![g] = "gave up"]
      /\ UNCHANGED <<phase, open, pipe, pend, frames, took, left>>
    BY <1>1, EndOf DEF ReadFails, InRead, Return, raw
<1>3. Types'
  <2>1. part' \in [Ends -> Seq(Cells)]
    <3>1. <<>> \in Seq(Cells) /\ part \in [Ends -> Seq(Cells)]
        BY DEF IInv, Types
    <3> QED
        BY <1>2, <3>1
  <2> QED
      BY <1>2, <2>1 DEF IInv, Types
<1>4. Peer(e) \in Ends /\ Peer(e) # e
    BY <1>2, PeerFact
<1>5. part'[e] = <<>> /\ part'[Peer(e)] = part[Peer(e)]
    BY <1>2, <1>4 DEF IInv, Types
<1>6. StreamOK(e)'
  <2>1. pipe[e] = <<>> /\ ~(open[e] /\ open[Peer(e)])
      BY <1>2 DEF AtEnd, IInv, StreamOK, PipeOK
  <2> QED
      BY <1>2, <1>3, <1>5, <2>1, StreamEnds DEF IInv
<1>7. StreamOK(Peer(e))'
    BY <1>2, <1>4, <1>5, StreamKeep DEF IInv
<1>8. PhaseOK'
  <2>1. phase[e] = "up"
      BY <1>1, <1>2 DEF IInv, PhaseOK
  <2> QED
      BY <1>1, <1>2, <2>1, CallPhase
<1>9. \A d \in Ends : ByOK(d)'
    BY <1>2 DEF IInv, ByOK
<1> QED
    BY <1>2, <1>3, <1>6, <1>7, <1>8, <1>9, TwoEnds DEF IInv

\* The invariant holds when both ends have their connection.
LEMMA InitHolds == Init => IInv
<1> SUFFICES ASSUME Init PROVE IInv
    OBVIOUS
<1>1. InitSize \in Nat
    BY SessionAssumption
<1>2. /\ Frame(1, InitSize) \in Seq(Cells)
      /\ Len(Frame(1, InitSize)) = HdrSize + InitSize
      /\ \A i \in 1..(HdrSize + InitSize) : Frame(1, InitSize)[i] = <<1, InitSize, i>>
    BY <1>1, FrameFact
<1>3. Types
  <2>1. /\ open \in [Ends -> BOOLEAN] /\ pipe \in [Ends -> Seq(Cells)]
        /\ part \in [Ends -> Seq(Cells)]
        /\ frames \in [Ends -> Nat] /\ took \in [Ends -> Seq(Taken)]
        /\ left \in [Writers -> Int]
      BY DEF Init
  <2>2. pend \in [Ends -> Seq(Cells)]
      BY <1>2 DEF Init
  <2> QED
      BY <2>1, <2>2 DEF Types
<1>4. PhaseOK
    BY DEF Init, PhaseOK, Ends
<1>5. ASSUME NEW e \in Ends PROVE StreamOK(e) /\ ByOK(e)
  <2>1. /\ pipe[e] = <<>> /\ part[e] = <<>> /\ took[e] = <<>>
        /\ open[e] /\ open[Peer(e)]
      BY PeerFact DEF Init
  <2>2. 1..Len(part[e]) = {} /\ 1..Len(took[e]) = {} /\ 1..(Len(pipe[e]) - 1) = {}
      BY <2>1
  <2>3. PartOK(e) /\ PipeOK(e) /\ TookOK(e) /\ ByOK(e)
      BY <2>1, <2>2 DEF PartOK, PipeOK, TookOK, ByOK
  <2>4. Behind(e) = <<0, 0, HdrSize>>
      BY <2>1 DEF Behind, Before
  <2>5. Last(Behind(e)) /\ Behind(e)[1] = 0
      BY <2>4, Sizes DEF Last
  <2>6. CASE e = "R"
    <3>1. Peer(e) = "I" /\ Peer(e) \in Ends
        BY <2>6 DEF Peer, Ends
    <3>2. PICK s : s = Frame(1, InitSize)
        OBVIOUS
    <3>3. pend[Peer(e)] = s /\ frames[Peer(e)] = 1
        BY <3>1, <3>2 DEF Init, Ends
    <3>4. 1 \in 1..(HdrSize + InitSize) /\ Len(s) # 0 /\ HdrSize \in Nat
        BY <1>1, <1>2, <3>2, Sizes
    <3>5. s[1] = <<1, InitSize, 1>> /\ s # <<>>
        BY <1>2, <3>2, <3>4, NonEmpty
    <3>6. ASSUME NEW i \in 1..Len(s)
          PROVE  s[i] = <<1, s[1][2], HdrSize + s[1][2] - Len(s) + i>>
      <4>1. s[1][2] = InitSize
          BY <3>5
      <4>2. PICK n, h, k : n = InitSize /\ h = HdrSize /\ k = Len(s)
          OBVIOUS
      <4>3. n \in Nat /\ h \in Nat /\ k = h + n /\ i \in Nat
          BY <1>1, <1>2, <3>2, <3>4, <4>2
      <4>4. h + n - k + i = i
          BY <4>3
      <4>5. s[i] = <<1, InitSize, i>>
          BY <1>2, <3>2
      <4> QED
          BY <4>1, <4>2, <4>4, <4>5
    <3>7. Follows(Behind(e), s[1])
        BY <2>5, <3>5 DEF Follows
    <3> QED
        BY <2>3, <3>3, <3>5, <3>6, <3>7 DEF StreamOK, PendOK, LinkOK
  <2>7. CASE e = "I"
    <3>1. pend[Peer(e)] = <<>> /\ frames[Peer(e)] = 0
        BY <2>7 DEF Init, Peer, Ends
    <3>2. 1..Len(pend[Peer(e)]) = {}
        BY <3>1
    <3> QED
        BY <2>3, <2>5, <3>1, <3>2 DEF StreamOK, PendOK, LinkOK
  <2> QED
      BY <2>6, <2>7 DEF Ends
<1> QED
    BY <1>3, <1>4, <1>5 DEF IInv

\* And every step keeps it.
LEMMA NextKeeps == IInv /\ [Next]_vars => IInv'
<1> SUFFICES ASSUME IInv, [Next]_vars PROVE IInv'
    OBVIOUS
<1>1. CASE UNCHANGED vars
  <2>1. UNCHANGED <<open, pipe, pend, part, frames, took, phase, pc, left>>
      BY <1>1 DEF vars, raw, io, gors
  <2>2. Types' /\ PhaseOK'
      BY <2>1 DEF IInv, Types, PhaseOK
  <2> QED
      BY <2>1, <2>2, StreamsKeep DEF IInv
<1>2. ASSUME NEW e \in Ends,
             RawWrite(e) \/ RawRead(e) \/ HandshakeStep(e) \/ Close(e)
      PROVE  IInv'
    BY <1>2, RawWriteKeeps, RawReadKeeps, HandshakeSentKeeps, InitiatorGotKeeps,
       ResponderGotKeeps, HandshakeFailsKeeps, CloseKeeps DEF HandshakeStep
<1>3. ASSUME NEW g \in Goroutines, Lock(g) \/ CallStep(g)
      PROVE  IInv'
    BY <1>3, CallKeeps, WriteChunkKeeps, WriteFailsKeeps, ReadReturnsKeeps,
       ReadFailsKeeps DEF CallStep
<1>4. ASSUME NEW r \in Readers, ReadCall(r) PROVE IInv'
    BY <1>4, CallKeeps DEF Goroutines
<1>5. ASSUME NEW w \in Writers, WriteCall(w) PROVE IInv'
    BY <1>5, CallKeeps DEF Goroutines
<1> QED
    BY <1>1, <1>2, <1>3, <1>4, <1>5 DEF Next

\* Each end reads the frames its peer wrote, whole and in order, the handshake
\* the first and Read the others, with two directions on one connection, any
\* number of goroutines, failed handshakes, closes and resets.
THEOREM SessionFramesInOrder == Spec => []FramesInOrder
<1>1. IInv => FramesInOrder
  <2> SUFFICES ASSUME IInv, NEW e \in Ends
               PROVE  /\ \A k \in 1..Len(took[e]) :
                            /\ took[e][k].bytes = Frame(k, took[e][k].bytes[1][2])
                            /\ took[e][k].by = IF k = 1 THEN "handshake" ELSE "Read"
                      /\ \A i \in 1..Len(part[e]) :
                            part[e][i][1] = Len(took[e]) + 1 /\ part[e][i][3] = i
      BY DEF FramesInOrder
  <2>1. StreamOK(e) /\ ByOK(e)
      BY DEF IInv
  <2>2. ASSUME NEW i \in 1..Len(part[e])
        PROVE  part[e][i][1] = Len(took[e]) + 1 /\ part[e][i][3] = i
    <3>1. part[e][i] = <<Len(took[e]) + 1, part[e][1][2], i>>
        BY <2>1 DEF StreamOK, PartOK
    <3> QED
        BY <3>1
  <2> QED
      BY <2>1, <2>2 DEF StreamOK, TookOK, ByOK
<1> QED
    BY <1>1, InitHolds, NextKeeps, PTL DEF Spec
=============================================================================
