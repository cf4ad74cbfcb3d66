--------------------------- MODULE FramingProofs ---------------------------
(***************************************************************************)
(* Proofs about Framing, for any number of senders and messages, any sizes *)
(* and any capacity: whatever way the stream cuts and joins the frames,    *)
(* messages are received whole and in order.                               *)
(***************************************************************************)
EXTENDS Framing, TLAPS, SequenceTheorems, FiniteSetTheorems

FrameSize(m) == HeaderSize + Size[m]

\* end[k] is where the k-th frame ends, counted in cells from the first one written.
Layout(end) ==
    /\ end \in [Nat -> Nat] /\ end[0] = 0
    /\ \A k \in 1..Len(order) : end[k] = end[k - 1] + FrameSize(order[k])
    /\ \A j, k \in 0..Len(order) : j <= k => end[j] <= end[k]

\* The x-th cell is of the k-th frame.
InFrame(end, k, x) == end[k - 1] < x /\ x <= end[k]

\* c is the x-th cell of the frames of these messages.
IsCell(end, messages, c, x) ==
    \E k \in 1..Len(messages) : InFrame(end, k, x) /\ c = <<messages[k], x - end[k - 1]>>

\* A message is sent once; one sender at a time has part of a frame unwritten, and it is the last.
SenderInv ==
    /\ \A j, k \in 1..Len(order) : order[j] = order[k] => j = k
    /\ \A a, b \in Senders : unsent[a] # <<>> /\ unsent[b] # <<>> => a = b
    /\ \A a \in Senders : unsent[a] # <<>> =>
         /\ Len(order) > 0
         /\ Len(unsent[a]) <= FrameSize(order[Len(order)])
         /\ \A i \in 1..Len(unsent[a]) :
              unsent[a][i] = <<order[Len(order)], FrameSize(order[Len(order)]) - Len(unsent[a]) + i>>

\* With n cells received, the stream goes on with cell n + 1, and while the connection is up,
\* what is unsent goes on where the stream ends.
StreamInv(end, n) ==
    /\ \A i \in 1..Len(stream) : IsCell(end, order, stream[i], n + i)
    /\ ~cut => /\ \A a \in Senders : unsent[a] # <<>> =>
                    n + Len(stream) + Len(unsent[a]) = end[Len(order)]
               /\ MtxFree => n + Len(stream) = end[Len(order)]

\* The receiver is past k messages and has of the next what its phase says.
RecieverInv(end, n, k) ==
    /\ phase \in {"idle", "disconnect"} => n = end[k] \/ (cut /\ stream = <<>>)
    /\ phase = "head" =>
         /\ k < Len(order)
         /\ need + Len(got) = HeaderSize /\ n = end[k] + Len(got)
         /\ \A i \in 1..Len(got) : got[i] = <<order[k + 1], i>>
    /\ phase = "data" =>
         /\ k < Len(order)
         /\ need + Len(got) = Size[order[k + 1]] /\ n = end[k] + HeaderSize + Len(got)
         /\ \A i \in 1..Len(got) : got[i] = <<order[k + 1], HeaderSize + i>>
    /\ phase # "invalid"

\* Those of the k messages that have data have been reported.
DeliveredInv(k) ==
    /\ Len(delivered) = Rank(k)
    /\ \A j \in 1..k : Size[order[j]] > 0 => delivered[Rank(j)] = Data(order[j])

InStep(end, n, k) ==
    /\ k <= Len(order)
    /\ Layout(end) /\ StreamInv(end, n) /\ RecieverInv(end, n, k) /\ DeliveredInv(k)

FInv == TypeOK /\ SenderInv /\ \E end : \E n, k \in Nat : InStep(end, n, k)

-----------------------------------------------------------------------------
(* Cells, frames and ranks *)

\* The cells of the frames.
LEMMA CellFacts ==
  /\ \A m \in Messages : FrameSize(m) \in Nat /\ FrameSize(m) >= 2 /\ Size[m] \in Nat
  /\ \A m \in Messages : \A i \in 1..FrameSize(m) : <<m, i>> \in Cells
  /\ \A c \in Cells : \E m \in Messages : \E i \in 1..FrameSize(m) : c = <<m, i>>
<1>1. \A m \in Messages : FrameSize(m) \in Nat /\ FrameSize(m) >= 2 /\ Size[m] \in Nat
  BY FramingAssumption DEF FrameSize, HeaderSize
<1>2. \A m \in Messages : /\ DOMAIN Frame(m) = 1..FrameSize(m)
                          /\ \A i \in 1..FrameSize(m) : Frame(m)[i] = <<m, i>>
  BY DEF Frame, FrameSize
<1>3. \A m \in Messages : \A i \in 1..FrameSize(m) : <<m, i>> \in Cells
  <2> SUFFICES ASSUME NEW m \in Messages, NEW i \in 1..FrameSize(m) PROVE <<m, i>> \in Cells
    OBVIOUS
  <2>1. <<m, i>> \in Range(Frame(m))
    BY <1>2 DEF Range
  <2> QED BY <2>1 DEF Cells
<1>4. ASSUME NEW c \in Cells
      PROVE  \E m \in Messages : \E i \in 1..FrameSize(m) : c = <<m, i>>
  <2>1. PICK m \in Messages : c \in Range(Frame(m))
    BY DEF Cells
  <2>2. PICK i \in DOMAIN Frame(m) : c = Frame(m)[i]
    BY <2>1 DEF Range
  <2> QED BY <1>2, <2>2
<1> QED BY <1>1, <1>3, <1>4

\* A frame is a sequence of cells.
LEMMA FrameIsSeq ==
  ASSUME NEW m \in Messages
  PROVE  /\ Frame(m) \in Seq(Cells) /\ Len(Frame(m)) = FrameSize(m)
         /\ \A i \in 1..FrameSize(m) : Frame(m)[i] = <<m, i>>
<1>1. FrameSize(m) \in Nat /\ \A i \in 1..FrameSize(m) : <<m, i>> \in Cells
  BY CellFacts
<1>2. Frame(m) = [i \in 1..FrameSize(m) |-> <<m, i>>]
  BY DEF Frame, FrameSize
<1>3. Frame(m) \in [1..FrameSize(m) -> Cells]
  BY <1>1, <1>2
<1>4. Frame(m) \in Seq(Cells)
  BY <1>1, <1>3, SeqDef
<1>5. Len(Frame(m)) = FrameSize(m)
  BY <1>1, <1>3, <1>4, LenProperties
<1> QED BY <1>2, <1>4, <1>5

\* The first k cells of a sequence, and the others.
LEMMA Split ==
  ASSUME NEW S, NEW s \in Seq(S), NEW k \in 1..Len(s)
  PROVE  /\ SubSeq(s, 1, k) \in Seq(S) /\ Len(SubSeq(s, 1, k)) = k
         /\ \A i \in 1..k : SubSeq(s, 1, k)[i] = s[i]
         /\ SubSeq(s, k + 1, Len(s)) \in Seq(S) /\ Len(SubSeq(s, k + 1, Len(s))) = Len(s) - k
         /\ \A i \in 1..(Len(s) - k) : SubSeq(s, k + 1, Len(s))[i] = s[k + i]
         /\ SubSeq(s, k + 1, Len(s)) = <<>> <=> k = Len(s)
<1>1. Len(s) \in Nat /\ \A i \in 1..Len(s) : s[i] \in S
  BY LenProperties, ElementOfSeq
<1>2. /\ SubSeq(s, 1, k) \in Seq(S) /\ Len(SubSeq(s, 1, k)) = k
      /\ \A i \in 1..k : SubSeq(s, 1, k)[i] = s[i]
  BY <1>1, SubSeqProperties
<1>3. /\ SubSeq(s, k + 1, Len(s)) \in Seq(S) /\ Len(SubSeq(s, k + 1, Len(s))) = Len(s) - k
      /\ \A i \in 1..(Len(s) - k) : SubSeq(s, k + 1, Len(s))[i] = s[k + i]
  BY <1>1, SubSeqProperties
<1>4. SubSeq(s, k + 1, Len(s)) = <<>> <=> k = Len(s)
  <2>1. SubSeq(s, k + 1, Len(s)) = <<>> <=> Len(SubSeq(s, k + 1, Len(s))) = 0
    BY <1>3, EmptySeq
  <2> QED BY <1>1, <1>3, <2>1
<1> QED BY <1>2, <1>3, <1>4

\* Rank counts: it grows by one at each message that has data.
LEMMA RankFacts ==
  ASSUME order \in Seq(Messages)
  PROVE  /\ Rank(0) = 0
         /\ \A k \in 0..Len(order) : Rank(k) \in Nat
         /\ \A k \in 1..Len(order) :
              Rank(k) = Rank(k - 1) + IF Size[order[k]] > 0 THEN 1 ELSE 0
         /\ \A j, k \in 0..Len(order) : j <= k => Rank(j) <= Rank(k)
<1> DEFINE Some(k) == {j \in 1..k : Size[order[j]] > 0}
<1>0. Len(order) \in Nat
  BY LenProperties
<1>1. ASSUME NEW k \in 0..Len(order) PROVE IsFiniteSet(Some(k)) /\ Rank(k) = Cardinality(Some(k))
  <2>1. IsFiniteSet(1..k) /\ Some(k) \in SUBSET (1..k)
    BY <1>0, FS_Interval
  <2> QED BY <2>1, FS_Subset DEF Rank
<1>2. \A k \in 0..Len(order) : Rank(k) \in Nat
  BY <1>1, FS_CardinalityType
<1>3. Rank(0) = 0
  <2>1. Some(0) = {}
    OBVIOUS
  <2> QED BY <2>1, FS_EmptySet DEF Rank
<1>4. ASSUME NEW k \in 1..Len(order)
      PROVE  Rank(k) = Rank(k - 1) + IF Size[order[k]] > 0 THEN 1 ELSE 0
  <2>1. k - 1 \in 0..Len(order) /\ k \in 0..Len(order)
    BY <1>0
  <2>2. k \notin Some(k - 1)
    BY <1>0
  <2>5. /\ Rank(k) = Cardinality(Some(k)) /\ Rank(k - 1) = Cardinality(Some(k - 1))
        /\ IsFiniteSet(Some(k - 1)) /\ Rank(k - 1) \in Nat
    BY <1>1, <1>2, <2>1
  <2>3. CASE Size[order[k]] > 0
    <3>1. Some(k) = Some(k - 1) \cup {k}
      <4>1. \A j \in 1..k : j \in 1..(k - 1) \/ j = k
        BY <1>0
      <4>2. 1..(k - 1) \subseteq 1..k /\ k \in 1..k
        BY <1>0
      <4> QED BY <2>3, <4>1, <4>2
    <3>2. Cardinality(Some(k - 1) \cup {k}) = Cardinality(Some(k - 1)) + 1
      BY <2>2, <2>5, FS_AddElement
    <3>3. Rank(k) = Rank(k - 1) + 1
      BY <2>5, <3>1, <3>2
    <3> QED BY <2>3, <3>3
  <2>4. CASE ~(Size[order[k]] > 0)
    <3>1. Some(k) = Some(k - 1)
      <4>1. \A j \in 1..k : j \in 1..(k - 1) \/ j = k
        BY <1>0
      <4>2. 1..(k - 1) \subseteq 1..k
        BY <1>0
      <4> QED BY <2>4, <4>1, <4>2
    <3>2. Rank(k) = Rank(k - 1)
      BY <2>5, <3>1
    <3> QED BY <2>4, <2>5, <3>2
  <2> QED BY <2>3, <2>4
<1>5. ASSUME NEW j \in 0..Len(order), NEW k \in 0..Len(order), j <= k PROVE Rank(j) <= Rank(k)
  <2>1. Some(j) \in SUBSET Some(k)
    BY <1>0, <1>5
  <2>2. IsFiniteSet(Some(k)) /\ Rank(j) = Cardinality(Some(j)) /\ Rank(k) = Cardinality(Some(k))
    BY <1>1
  <2>3. Cardinality(Some(j)) <= Cardinality(Some(k))
    BY <2>1, <2>2, FS_Subset
  <2> QED BY <2>2, <2>3
<1> QED BY <1>2, <1>3, <1>4, <1>5

\* Rank is not disturbed by what follows.
LEMMA RankSame ==
  ASSUME order \in Seq(Messages), NEW k \in 0..Len(order), NEW s \in Seq(Messages),
         order' = s, \A j \in 1..k : s[j] = order[j]
  PROVE  Rank(k)' = Rank(k)
<1>1. {j \in 1..k : Size[order'[j]] > 0} = {j \in 1..k : Size[order[j]] > 0}
  OBVIOUS
<1> QED BY <1>1 DEF Rank

\* The types of what the other lemmas add and compare.
LEMMA Numbers ==
  ASSUME TypeOK
  PROVE  /\ Len(order) \in Nat /\ Len(stream) \in Nat /\ Len(got) \in Nat
         /\ Len(delivered) \in Nat /\ need \in Nat
         /\ \A a \in Senders : Len(unsent[a]) \in Nat
         /\ \A k \in 1..Len(order) : order[k] \in Messages /\ Size[order[k]] \in Nat
<1>1. /\ order \in Seq(Messages) /\ stream \in Seq(Cells) /\ got \in Seq(Cells)
      /\ delivered \in Seq(Seq(Cells)) /\ need \in Nat
      /\ \A a \in Senders : unsent[a] \in Seq(Cells)
  BY DEF TypeOK
<1>2. \A k \in 1..Len(order) : order[k] \in Messages
  BY <1>1, ElementOfSeq
<1> QED BY <1>1, <1>2, LenProperties, CellFacts

\* The same of the layout.
LEMMA Ends ==
  ASSUME TypeOK, NEW end, Layout(end)
  PROVE  /\ \A k \in Nat : end[k] \in Nat
         /\ \A k \in 0..Len(order) : end[k] \in Nat
         /\ \A k \in 1..Len(order) : /\ k - 1 \in 0..Len(order)
                                     /\ end[k - 1] \in Nat /\ end[k] \in Nat
                                     /\ end[k] = end[k - 1] + 2 + Size[order[k]]
<1>1. \A k \in Nat : end[k] \in Nat
  BY DEF Layout
<1>2. ASSUME NEW k \in 1..Len(order)
      PROVE  /\ k \in Nat /\ k - 1 \in Nat /\ k - 1 \in 0..Len(order)
             /\ end[k] = end[k - 1] + 2 + Size[order[k]]
  <2>1. k \in Nat /\ k - 1 \in Nat /\ k - 1 \in 0..Len(order) /\ Size[order[k]] \in Nat
    BY Numbers
  <2>2. end[k] = end[k - 1] + FrameSize(order[k])
    BY DEF Layout
  <2>3. FrameSize(order[k]) = 2 + Size[order[k]]
    BY DEF FrameSize, HeaderSize
  <2>4. end[k - 1] \in Nat
    BY <1>1, <2>1
  <2>5. end[k] = end[k - 1] + (2 + Size[order[k]])
    BY <2>2, <2>3
  <2>6. end[k] = end[k - 1] + 2 + Size[order[k]]
    BY <2>1, <2>4, <2>5
  <2> QED BY <2>1, <2>6
<1>3. \A k \in 0..Len(order) : k \in Nat
  BY Numbers
<1> QED BY <1>1, <1>2, <1>3

\* A cell of a frame is a cell of the frames.
LEMMA ACell ==
  ASSUME NEW end, NEW messages, NEW c, NEW x, NEW k \in 1..Len(messages),
         InFrame(end, k, x), c = <<messages[k], x - end[k - 1]>>
  PROVE  IsCell(end, messages, c, x)
BY DEF IsCell

\* A cell is of one frame.
LEMMA WhichFrame ==
  ASSUME TypeOK, NEW end, Layout(end), NEW x \in Nat,
         NEW j \in 1..Len(order), NEW k \in 1..Len(order)
  PROVE  InFrame(end, j, x) /\ InFrame(end, k, x) => j = k
<1>1. ASSUME NEW p \in 1..Len(order), NEW q \in 1..Len(order),
             InFrame(end, p, x), InFrame(end, q, x)
      PROVE  ~(p < q)
  <2>1. p \in 0..Len(order) /\ q - 1 \in 0..Len(order) /\ p \in Nat /\ q \in Nat
    BY Numbers
  <2>2. end[p] \in Nat /\ end[q - 1] \in Nat
    BY <2>1, Ends
  <2>3. p <= q - 1 => end[p] <= end[q - 1]
    BY <2>1 DEF Layout
  <2>4. x <= end[p] /\ end[q - 1] < x
    BY <1>1 DEF InFrame
  <2>5. ~(p <= q - 1)
    BY <2>2, <2>3, <2>4
  <2> QED BY <2>1, <2>5
<1>2. InFrame(end, j, x) /\ InFrame(end, k, x) => ~(j < k) /\ ~(k < j)
  BY <1>1
<1>3. j \in Nat /\ k \in Nat
  BY Numbers
<1> QED BY <1>2, <1>3

\* So which frame it is of tells which cell it is.
LEMMA TheCell ==
  ASSUME TypeOK, NEW end, Layout(end), NEW x \in Nat, NEW c, NEW k \in 1..Len(order),
         InFrame(end, k, x), IsCell(end, order, c, x)
  PROVE  c = <<order[k], x - end[k - 1]>>
<1>1. PICK q \in 1..Len(order) : InFrame(end, q, x) /\ c = <<order[q], x - end[q - 1]>>
  BY DEF IsCell
<1>2. q = k
  BY <1>1, WhichFrame
<1> QED BY <1>1, <1>2

\* While a header or the data of a frame is incomplete, what the stream holds of it comes first.
LEMMA OfNextFrame ==
  ASSUME TypeOK, NEW end, NEW n \in Nat, NEW k \in Nat, InStep(end, n, k),
         phase \in {"head", "data"}, NEW i \in 1..Len(stream), i <= need
  PROVE  stream[i] = <<order[k + 1], n + i - end[k]>>
<1>1. k + 1 \in 1..Len(order) /\ (k + 1) - 1 = k
  <2>1. k < Len(order)
    BY DEF InStep, RecieverInv
  <2> QED BY <2>1, Numbers
<1>2. Layout(end)
  BY DEF InStep
<1>3. end[k] \in Nat /\ end[k + 1] = end[k] + 2 + Size[order[k + 1]] /\ Size[order[k + 1]] \in Nat
  BY <1>1, <1>2, Ends, Numbers
<1>4. i \in Nat /\ i > 0 /\ i <= need /\ need \in Nat /\ Len(got) \in Nat /\ n + i \in Nat
  BY <1>1, Numbers
<1>5. \/ need + Len(got) = 2 /\ n = end[k] + Len(got)
      \/ need + Len(got) = Size[order[k + 1]] /\ n = end[k] + 2 + Len(got)
  BY DEF InStep, RecieverInv, HeaderSize
<1>6. end[k] < n + i /\ n + i <= end[k + 1]
  <2>1. \A e, f, z, r, g, j \in Nat :
          /\ f = e + 2 + z /\ j > 0 /\ j <= r
          /\ (r + g = 2 /\ n = e + g) \/ (r + g = z /\ n = e + 2 + g)
          => e < n + j /\ n + j <= f
    OBVIOUS
  <2>2. end[k + 1] \in Nat
    BY <1>1, <1>2, Ends
  <2> QED BY <1>3, <1>4, <1>5, <2>1, <2>2
<1>7. InFrame(end, k + 1, n + i)
  BY <1>1, <1>6 DEF InFrame
<1>8. PICK x \in Nat : x = n + i
  BY <1>4
<1>9. IsCell(end, order, stream[i], x)
  BY <1>8 DEF InStep, StreamInv
<1>10. stream[i] = <<order[k + 1], x - end[(k + 1) - 1]>>
  <2>1. InFrame(end, k + 1, x)
    BY <1>7, <1>8
  <2>2. PICK q \in 1..Len(order) : q = k + 1
    BY <1>1
  <2>3. stream[i] = <<order[q], x - end[q - 1]>>
    BY <1>2, <1>9, <2>1, <2>2, TheCell
  <2> QED BY <2>2, <2>3
<1>11. x - end[(k + 1) - 1] = n + i - end[k]
  BY <1>1, <1>3, <1>4, <1>8
<1> QED BY <1>10, <1>11

-----------------------------------------------------------------------------
(* The steps of the receiver *)

\* recv_ takes the first j cells of the stream, and they go on where it was.
LEMMA RecvInv ==
  ASSUME TypeOK, SenderInv, NEW end, NEW n \in Nat, NEW k \in Nat, InStep(end, n, k), recv_
  PROVE  FInv'
<1>1. PICK j \in 1..Len(stream) :
        /\ j <= need
        /\ got' = got \o SubSeq(stream, 1, j)
        /\ stream' = SubSeq(stream, j + 1, Len(stream))
        /\ need' = need - j
  BY DEF recv_
<1>2. /\ phase \in {"head", "data"}
      /\ unsent' = unsent /\ cut' = cut /\ phase' = phase /\ order' = order /\ sent' = sent
      /\ delivered' = delivered
  BY DEF recv_
<1>3. j \in Nat /\ j <= Len(stream) /\ Len(stream) \in Nat /\ Len(got) \in Nat /\ need \in Nat
  BY <1>1, Numbers
<1>4. /\ stream' \in Seq(Cells) /\ Len(stream') = Len(stream) - j
      /\ \A i \in 1..(Len(stream) - j) : stream'[i] = stream[j + i]
  <2>1. stream \in Seq(Cells)
    BY DEF TypeOK
  <2>2. LET rest == SubSeq(stream, j + 1, Len(stream))
        IN  /\ rest \in Seq(Cells) /\ Len(rest) = Len(stream) - j
            /\ \A i \in 1..(Len(stream) - j) : rest[i] = stream[j + i]
    BY <2>1, Split
  <2> QED BY <1>1, <2>2
<1>5. /\ got' \in Seq(Cells) /\ Len(got') = Len(got) + j
      /\ \A i \in 1..(Len(got) + j) :
           got'[i] = IF i <= Len(got) THEN got[i] ELSE stream[i - Len(got)]
  <2>1. stream \in Seq(Cells) /\ got \in Seq(Cells)
    BY DEF TypeOK
  <2>2. /\ SubSeq(stream, 1, j) \in Seq(Cells) /\ Len(SubSeq(stream, 1, j)) = j
        /\ \A i \in 1..j : SubSeq(stream, 1, j)[i] = stream[i]
    BY <2>1, Split
  <2>3. /\ got' \in Seq(Cells) /\ Len(got') = Len(got) + j
        /\ \A i \in 1..(Len(got) + j) :
             got'[i] = IF i <= Len(got) THEN got[i] ELSE SubSeq(stream, 1, j)[i - Len(got)]
    BY <1>1, <2>1, <2>2, ConcatProperties
  <2>4. \A i \in 1..(Len(got) + j) : ~(i <= Len(got)) => i - Len(got) \in 1..j
    BY <1>3
  <2> QED BY <2>2, <2>3, <2>4
<1>6. need' \in Nat /\ need' = need - j
  BY <1>1, <1>3
<1>7. TypeOK'
  <2>1. Len(stream') <= Capacity
    BY <1>3, <1>4, FramingAssumption DEF TypeOK
  <2> QED BY <1>2, <1>4, <1>5, <1>6, <2>1 DEF TypeOK
<1>8. SenderInv'
  BY <1>2 DEF SenderInv
<1>9. Layout(end)' /\ DeliveredInv(k)' /\ (k <= Len(order))'
  BY <1>2 DEF InStep, Layout, DeliveredInv, Rank
<1>10. StreamInv(end, n + j)'
  <2>1. ASSUME NEW i \in 1..(Len(stream) - j) PROVE IsCell(end, order, stream'[i], n + j + i)
    <3>1. j + i \in 1..Len(stream) /\ n + (j + i) = n + j + i
      BY <1>3
    <3>2. IsCell(end, order, stream[j + i], n + (j + i))
      BY <3>1 DEF InStep, StreamInv
    <3> QED BY <1>4, <3>1, <3>2
  <2>2. \A x \in Nat : n + j + (Len(stream) - j) + x = n + Len(stream) + x
    BY <1>3
  <2>3. ASSUME NEW a \in Senders, ~cut, unsent[a] # <<>>
        PROVE  n + j + Len(stream') + Len(unsent[a]) = end[Len(order)]
    <3>1. n + Len(stream) + Len(unsent[a]) = end[Len(order)]
      BY <2>3 DEF InStep, StreamInv
    <3> QED BY <1>4, <2>2, <3>1, Numbers
  <2>4. ASSUME ~cut, MtxFree PROVE n + j + Len(stream') = end[Len(order)]
    <3>1. n + Len(stream) = end[Len(order)]
      BY <2>4 DEF InStep, StreamInv
    <3> QED BY <1>3, <1>4, <3>1
  <2> QED BY <1>2, <1>4, <2>1, <2>3, <2>4 DEF StreamInv, MtxFree
<1>11. \A i \in 1..(Len(got) + j) :
         ~(i <= Len(got)) => got'[i] = <<order[k + 1], n + (i - Len(got)) - end[k]>>
  <2>1. \A i \in 1..(Len(got) + j) : ~(i <= Len(got)) =>
          i - Len(got) \in 1..Len(stream) /\ i - Len(got) <= need
    BY <1>1, <1>3
  <2> QED BY <1>2, <1>5, <2>1, OfNextFrame
<1>12. RecieverInv(end, n + j, k)'
  <2>1. end[k] \in Nat
    BY Ends DEF InStep
  <2>2. ASSUME phase = "head"
        PROVE  /\ k < Len(order) /\ need' + Len(got') = HeaderSize /\ n + j = end[k] + Len(got')
               /\ \A i \in 1..Len(got') : got'[i] = <<order[k + 1], i>>
    <3>1. /\ k < Len(order) /\ need + Len(got) = HeaderSize /\ n = end[k] + Len(got)
          /\ \A i \in 1..Len(got) : got[i] = <<order[k + 1], i>>
      BY <2>2 DEF InStep, RecieverInv
    <3>2. ASSUME NEW i \in 1..(Len(got) + j) PROVE got'[i] = <<order[k + 1], i>>
      <4>1. i \in Nat /\ n + (i - Len(got)) - end[k] = i
        BY <1>3, <2>1, <3>1
      <4>2. i <= Len(got) => i \in 1..Len(got)
        BY <1>3
      <4> QED BY <1>5, <1>11, <3>1, <4>1, <4>2
    <3>3. need' + Len(got') = HeaderSize
      BY <1>3, <1>5, <1>6, <3>1 DEF HeaderSize
    <3>4. n + j = end[k] + Len(got')
      BY <1>3, <1>5, <2>1, <3>1
    <3> QED BY <1>5, <3>1, <3>2, <3>3, <3>4
  <2>3. ASSUME phase = "data"
        PROVE  /\ k < Len(order) /\ need' + Len(got') = Size[order[k + 1]]
               /\ n + j = end[k] + HeaderSize + Len(got')
               /\ \A i \in 1..Len(got') : got'[i] = <<order[k + 1], HeaderSize + i>>
    <3>1. /\ k < Len(order) /\ need + Len(got) = Size[order[k + 1]]
          /\ n = end[k] + 2 + Len(got)
          /\ \A i \in 1..Len(got) : got[i] = <<order[k + 1], 2 + i>>
      BY <2>3 DEF InStep, RecieverInv, HeaderSize
    <3>2. ASSUME NEW i \in 1..(Len(got) + j) PROVE got'[i] = <<order[k + 1], 2 + i>>
      <4>1. i \in Nat /\ n + (i - Len(got)) - end[k] = 2 + i
        <5>1. PICK e \in Nat : e = end[k]
          BY <2>1
        <5>2. n = e + 2 + Len(got)
          BY <3>1, <5>1
        <5>3. i \in Nat /\ n + (i - Len(got)) - e = 2 + i
          BY <1>3, <5>2
        <5> QED BY <5>1, <5>3
      <4>2. i <= Len(got) => i \in 1..Len(got)
        BY <1>3
      <4> QED BY <1>5, <1>11, <3>1, <4>1, <4>2
    <3>3. need' + Len(got') = Size[order[k + 1]]
      BY <1>3, <1>5, <1>6, <3>1
    <3>4. n + j = end[k] + 2 + Len(got')
      <4>1. \A e, g \in Nat : n = e + 2 + g => n + j = e + 2 + (g + j)
        BY <1>3
      <4>2. n + j = end[k] + 2 + (Len(got) + j)
        BY <1>3, <2>1, <3>1, <4>1
      <4> QED BY <1>5, <4>2
    <3> QED BY <1>5, <3>1, <3>2, <3>3, <3>4 DEF HeaderSize
  <2> QED BY <1>2, <2>2, <2>3 DEF RecieverInv
<1>13. n + j \in Nat
  BY <1>3
<1>14. InStep(end, n + j, k)'
  BY <1>9, <1>10, <1>12 DEF InStep
<1> QED BY <1>7, <1>8, <1>13, <1>14 DEF FInv

\* A step that changes neither the frames nor the stream.
LEMMA SameStream ==
  ASSUME NEW end, NEW n, NEW k, SenderInv, InStep(end, n, k),
         UNCHANGED <<unsent, stream, cut, order>>
  PROVE  SenderInv' /\ Layout(end)' /\ StreamInv(end, n)' /\ (k <= Len(order))'
<1>1. SenderInv' /\ Layout(end)' /\ (k <= Len(order))'
  BY DEF SenderInv, InStep, Layout
<1>2. StreamInv(end, n)'
  BY DEF InStep, StreamInv, MtxFree
<1> QED BY <1>1, <1>2

\* epoll_wait finds data between two frames only: the next header is what comes first.
LEMMA WaitInv ==
  ASSUME TypeOK, SenderInv, NEW end, NEW n \in Nat, NEW k \in Nat, InStep(end, n, k), WaitEvent
  PROVE  FInv'
<1>1. /\ UNCHANGED <<unsent, stream, cut, order, sent, delivered>> /\ phase = "idle"
      /\ \/ phase' = "closed" /\ need' = need /\ got' = got
         \/ phase' = "idle" /\ need' = need /\ got' = got
         \/ ~cut /\ stream # <<>> /\ phase' = "head" /\ need' = HeaderSize /\ got' = <<>>
  BY DEF WaitEvent
<1>2. TypeOK'
  <2>1. need' \in Nat /\ got' \in Seq(Cells)
    <3>1. need \in Nat /\ got \in Seq(Cells) /\ HeaderSize \in Nat
      BY DEF TypeOK, HeaderSize
    <3>2. <<>> \in Seq(Cells)
      BY EmptySeq
    <3> QED BY <1>1, <3>1, <3>2
  <2>2. phase' \in {"idle", "head", "data", "invalid", "disconnect", "closed"}
    BY <1>1
  <2> QED BY <1>1, <2>1, <2>2 DEF TypeOK
<1>3. SenderInv' /\ Layout(end)' /\ StreamInv(end, n)' /\ (k <= Len(order))'
  BY <1>1, SameStream
<1>4. DeliveredInv(k)'
  BY <1>1 DEF InStep, DeliveredInv, Rank
<1>5. ASSUME phase' = "head"
      PROVE  k < Len(order) /\ n = end[k] /\ need' = HeaderSize /\ got' = <<>>
  <2>1. ~cut /\ stream # <<>> /\ need' = HeaderSize /\ got' = <<>>
    BY <1>1, <1>5
  <2>2. n = end[k]
    BY <1>1, <2>1 DEF InStep, RecieverInv
  <2>3. 1 \in 1..Len(stream)
    BY <2>1, EmptySeq DEF TypeOK
  <2>4. IsCell(end, order, stream[1], n + 1)
    BY <2>3 DEF InStep, StreamInv
  <2>5. PICK q \in 1..Len(order) : InFrame(end, q, n + 1)
    BY <2>4 DEF IsCell
  <2>6. /\ n + 1 <= end[q] /\ end[q] \in Nat
        /\ q \in 0..Len(order) /\ k \in 0..Len(order) /\ Len(order) \in Nat
    BY <2>5, Ends, Numbers DEF InStep, InFrame
  <2>7. Len(order) <= k => end[q] <= end[k]
    <3>1. Len(order) <= k => q <= k
      BY <2>6
    <3> QED BY <2>6, <3>1 DEF InStep, Layout
  <2>8. ~(Len(order) <= k)
    BY <2>2, <2>6, <2>7
  <2> QED BY <2>1, <2>2, <2>6, <2>8
<1>6. RecieverInv(end, n, k)'
  <2>1. CASE phase' = "head"
    <3>1. Len(got') = 0 /\ need' + Len(got') = HeaderSize /\ n = end[k] + Len(got')
      BY <1>5, <2>1, EmptySeq DEF HeaderSize
    <3> QED BY <1>1, <1>5, <2>1, <3>1 DEF RecieverInv
  <2>2. CASE phase' = "idle"
    BY <1>1, <2>2 DEF InStep, RecieverInv
  <2>3. CASE phase' = "closed"
    BY <2>3 DEF RecieverInv
  <2> QED BY <1>1, <2>1, <2>2, <2>3
<1>7. InStep(end, n, k)'
  BY <1>3, <1>4, <1>6 DEF InStep
<1> QED BY <1>2, <1>3, <1>7 DEF FInv

\* A frame is given up in the middle only when the connection is cut and nothing more comes;
\* a wrong magic is never met.
LEMMA GiveUpInv ==
  ASSUME TypeOK, SenderInv, NEW end, NEW n \in Nat, NEW k \in Nat, InStep(end, n, k),
         RecvCut \/ GiveUp
  PROVE  FInv'
<1>1. UNCHANGED <<unsent, stream, cut, need, got, order, sent, delivered>> /\ phase' = "idle"
  BY DEF RecvCut, GiveUp
<1>2. TypeOK'
  BY <1>1 DEF TypeOK
<1>3. SenderInv' /\ Layout(end)' /\ StreamInv(end, n)' /\ (k <= Len(order))'
  BY <1>1, SameStream
<1>4. DeliveredInv(k)'
  BY <1>1 DEF InStep, DeliveredInv, Rank
<1>5. n = end[k] \/ (cut /\ stream = <<>>)
  <2>1. CASE RecvCut
    BY <2>1 DEF RecvCut
  <2>2. CASE GiveUp
    BY <2>2 DEF GiveUp, InStep, RecieverInv
  <2> QED BY <2>1, <2>2
<1>6. RecieverInv(end, n, k)'
  BY <1>1, <1>5 DEF RecieverInv
<1>7. InStep(end, n, k)'
  BY <1>3, <1>4, <1>6 DEF InStep
<1> QED BY <1>2, <1>3, <1>7 DEF FInv

\* A complete header is the one of the next frame: its magic is right and its size is the size.
LEMMA HeadInv ==
  ASSUME TypeOK, SenderInv, NEW end, NEW n \in Nat, NEW k \in Nat, InStep(end, n, k), RecvHead
  PROVE  FInv'
<1>1. UNCHANGED <<unsent, stream, cut, order, sent, delivered>> /\ phase = "head" /\ need = 0
  BY DEF RecvHead
<1>2. k < Len(order) /\ Len(got) = 2 /\ n = end[k] + 2
  <2>1. k < Len(order) /\ need + Len(got) = 2 /\ n = end[k] + Len(got)
    BY <1>1 DEF InStep, RecieverInv, HeaderSize
  <2>2. Len(got) = 2
    BY <1>1, <2>1, Numbers
  <2> QED BY <2>1, <2>2
<1>3. got[1] = <<order[k + 1], 1>> /\ got[2] = <<order[k + 1], 2>>
  <2>1. \A i \in 1..Len(got) : got[i] = <<order[k + 1], i>>
    BY <1>1 DEF InStep, RecieverInv
  <2> QED BY <1>2, <2>1
<1>4. phase' = "data" /\ need' = Size[order[k + 1]] /\ got' = <<>>
  BY <1>3 DEF RecvHead, SizeIn
<1>5. Size[order[k + 1]] \in Nat
  <2>1. k + 1 \in 1..Len(order)
    BY <1>2, Numbers
  <2> QED BY <2>1, Numbers
<1>6. TypeOK'
  <2>1. got' \in Seq(Cells)
    BY <1>4, EmptySeq
  <2> QED BY <1>1, <1>4, <1>5, <2>1 DEF TypeOK
<1>7. SenderInv' /\ Layout(end)' /\ StreamInv(end, n)' /\ (k <= Len(order))'
  BY <1>1, SameStream
<1>8. DeliveredInv(k)'
  BY <1>1 DEF InStep, DeliveredInv, Rank
<1>9. RecieverInv(end, n, k)'
  <2>1. Len(got') = 0
    BY <1>4, EmptySeq
  <2>2. need' + Len(got') = Size[order[k + 1]]
    BY <1>4, <1>5, <2>1
  <2>3. n = end[k] + HeaderSize + Len(got')
    <3>1. end[k] \in Nat
      BY Ends DEF InStep
    <3> QED BY <1>2, <2>1, <3>1 DEF HeaderSize
  <2> QED BY <1>1, <1>2, <1>4, <2>1, <2>2, <2>3 DEF RecieverInv
<1>10. InStep(end, n, k)'
  BY <1>7, <1>8, <1>9 DEF InStep
<1> QED BY <1>6, <1>7, <1>10 DEF FInv

\* Complete data are those of the next message: they are reported, if there are any.
LEMMA DataInv ==
  ASSUME TypeOK, SenderInv, NEW end, NEW n \in Nat, NEW k \in Nat, InStep(end, n, k), RecvData
  PROVE  FInv'
<1>1. UNCHANGED <<unsent, stream, cut, need, got, order, sent>> /\ phase = "data" /\ need = 0
  BY DEF RecvData
<1>2. \/ got = <<>> /\ phase' = "disconnect" /\ delivered' = delivered
      \/ got # <<>> /\ phase' = "idle" /\ delivered' = Append(delivered, got)
  BY DEF RecvData
<1>3. /\ k < Len(order) /\ k + 1 \in 1..Len(order) /\ k + 1 \in Nat
      /\ Len(order) \in Nat /\ order \in Seq(Messages) /\ (k + 1) - 1 = k
  BY <1>1, Numbers DEF InStep, RecieverInv, TypeOK
<1>4. Size[order[k + 1]] \in Nat /\ Len(got) = Size[order[k + 1]]
  <2>1. need + Len(got) = Size[order[k + 1]]
    BY <1>1 DEF InStep, RecieverInv
  <2> QED BY <1>1, <1>3, <2>1, Numbers
<1>5. n = end[k + 1]
  <2>1. n = end[k] + 2 + Len(got)
    BY <1>1 DEF InStep, RecieverInv, HeaderSize
  <2>2. end[k + 1] = end[k] + 2 + Size[order[k + 1]]
    BY <1>3, Ends DEF InStep
  <2> QED BY <1>4, <2>1, <2>2
<1>6. got \in Seq(Cells) /\ delivered \in Seq(Seq(Cells))
  BY DEF TypeOK
<1>7. TypeOK'
  <2>1. delivered' \in Seq(Seq(Cells))
    <3>1. Append(delivered, got) \in Seq(Seq(Cells))
      BY <1>6, AppendProperties
    <3> QED BY <1>2, <1>6, <3>1
  <2>2. phase' \in {"idle", "head", "data", "invalid", "disconnect", "closed"}
    BY <1>2
  <2> QED BY <1>1, <2>1, <2>2 DEF TypeOK
<1>8. SenderInv' /\ Layout(end)' /\ StreamInv(end, n)'
  BY <1>1, SameStream
<1>9. (k + 1 <= Len(order))'
  BY <1>1, <1>3
<1>10. RecieverInv(end, n, k + 1)'
  BY <1>1, <1>2, <1>5 DEF RecieverInv
<1>11. DeliveredInv(k + 1)'
  <2>1. Len(delivered) = Rank(k)
    BY DEF InStep, DeliveredInv
  <2>2. \A j \in 1..k : Size[order[j]] > 0 => delivered[Rank(j)] = Data(order[j])
    BY DEF InStep, DeliveredInv
  <2>3. Rank(k + 1) = Rank(k) + IF Size[order[k + 1]] > 0 THEN 1 ELSE 0
    BY <1>3, RankFacts
  <2>4. \A j : Rank(j)' = Rank(j)
    BY <1>1 DEF Rank
  <2>5. ASSUME NEW j \in 1..(k + 1) PROVE j \in 1..k \/ j = k + 1
    OBVIOUS
  <2>6. CASE got = <<>>
    <3>1. Size[order[k + 1]] = 0
      BY <1>4, <2>6, EmptySeq
    <3>2. Rank(k + 1) = Rank(k)
      BY <1>3, <2>3, <3>1, RankFacts
    <3>3. delivered' = delivered
      BY <1>2, <2>6
    <3> QED BY <1>1, <2>1, <2>2, <2>4, <2>5, <3>1, <3>2, <3>3 DEF DeliveredInv
  <2>7. CASE got # <<>>
    <3>1. Size[order[k + 1]] > 0
      BY <1>4, <1>6, <2>7, EmptySeq
    <3>2. delivered' = Append(delivered, got)
      BY <1>2, <2>7
    <3>3. /\ Len(delivered') = Len(delivered) + 1
          /\ \A i \in 1..Len(delivered) : delivered'[i] = delivered[i]
          /\ delivered'[Len(delivered) + 1] = got
      BY <1>6, <3>2, AppendProperties
    <3>4. Rank(k + 1) = Len(delivered) + 1
      BY <2>1, <2>3, <3>1
    <3>5. got = Data(order[k + 1])
      <4>1. \A i \in 1..Len(got) : got[i] = <<order[k + 1], HeaderSize + i>>
        BY <1>1 DEF InStep, RecieverInv
      <4>2. got = [i \in 1..Len(got) |-> got[i]]
        BY <1>6, LenProperties
      <4> QED BY <1>4, <4>1, <4>2 DEF Data
    <3>6. ASSUME NEW j \in 1..k, Size[order[j]] > 0 PROVE Rank(j) \in 1..Len(delivered)
      <4>1. j \in 1..Len(order) /\ j - 1 \in 0..Len(order) /\ j \in 0..Len(order)
            /\ k \in 0..Len(order) /\ j <= k
        BY <1>3
      <4>2. Rank(j) = Rank(j - 1) + 1 /\ Rank(j - 1) \in Nat
        BY <1>3, <3>6, <4>1, RankFacts
      <4>3. Rank(j) <= Rank(k) /\ Rank(k) \in Nat
        BY <1>3, <4>1, RankFacts
      <4> QED BY <2>1, <4>2, <4>3
    <3>7. ASSUME NEW j \in 1..(k + 1), Size[order[j]] > 0
          PROVE  delivered'[Rank(j)] = Data(order[j])
      <4>1. CASE j \in 1..k
        BY <2>2, <3>3, <3>6, <3>7, <4>1
      <4>2. CASE j = k + 1
        BY <3>3, <3>4, <3>5, <4>2
      <4> QED BY <2>5, <4>1, <4>2
    <3> QED BY <1>1, <2>4, <3>3, <3>4, <3>7 DEF DeliveredInv
  <2> QED BY <2>6, <2>7
<1>12. InStep(end, n, k + 1)'
  BY <1>8, <1>9, <1>10, <1>11 DEF InStep
<1> QED BY <1>3, <1>7, <1>8, <1>12 DEF FInv

-----------------------------------------------------------------------------
(* The steps of the senders and of the network *)

\* The receiver does not notice what a sender does, nor a cut.
LEMMA SameReciever ==
  ASSUME NEW end, NEW n, NEW k, InStep(end, n, k),
         UNCHANGED <<phase, need, got, order, delivered>>, cut => cut',
         cut /\ stream = <<>> => stream' = <<>>
  PROVE  Layout(end)' /\ (k <= Len(order))' /\ RecieverInv(end, n, k)' /\ DeliveredInv(k)'
<1>1. Layout(end)' /\ (k <= Len(order))'
  BY DEF InStep, Layout
<1>2. RecieverInv(end, n, k)'
  BY DEF InStep, RecieverInv
<1>3. DeliveredInv(k)'
  BY DEF InStep, DeliveredInv, Rank
<1> QED BY <1>1, <1>2, <1>3

\* The connection is cut at any time.
LEMMA CutInv ==
  ASSUME TypeOK, SenderInv, NEW end, NEW n \in Nat, NEW k \in Nat, InStep(end, n, k), PeerCuts
  PROVE  FInv'
<1>1. UNCHANGED <<unsent, stream, phase, need, got, order, sent, delivered>> /\ cut' = TRUE
  BY DEF PeerCuts
<1>2. TypeOK'
  BY <1>1 DEF TypeOK
<1>3. SenderInv'
  BY <1>1 DEF SenderInv
<1>4. StreamInv(end, n)'
  BY <1>1 DEF InStep, StreamInv
<1>5. Layout(end)' /\ (k <= Len(order))' /\ RecieverInv(end, n, k)' /\ DeliveredInv(k)'
  BY <1>1, SameReciever
<1>6. InStep(end, n, k)'
  BY <1>4, <1>5 DEF InStep
<1> QED BY <1>2, <1>3, <1>6 DEF FInv

\* The first cell of what is unsent is of a message.
LEMMA HeadMessage ==
  ASSUME TypeOK, NEW a \in Senders, unsent[a] # <<>>
  PROVE  Head(unsent[a])[1] \in Messages
<1>1. unsent[a] \in Seq(Cells)
  BY DEF TypeOK
<1>2. Head(unsent[a]) \in Cells
  BY <1>1, HeadTailProperties
<1>3. PICK m \in Messages : \E i \in 1..FrameSize(m) : Head(unsent[a]) = <<m, i>>
  BY <1>2, CellFacts
<1> QED BY <1>3

\* What a cut leaves unsent stays so; nothing follows it.
LEMMA SendCutInv ==
  ASSUME TypeOK, SenderInv, NEW end, NEW n \in Nat, NEW k \in Nat, InStep(end, n, k),
         NEW a \in Senders, SendCut(a)
  PROVE  FInv'
<1>1. /\ UNCHANGED <<stream, cut, phase, need, got, order, delivered>>
      /\ cut /\ unsent[a] # <<>> /\ unsent' = [unsent EXCEPT ![a] = <<>>]
      /\ sent' = sent \/ sent' = sent \cup {Head(unsent[a])[1]}
  BY DEF SendCut
<1>2. unsent \in [Senders -> Seq(Cells)] /\ <<>> \in Seq(Cells)
  BY EmptySeq DEF TypeOK
<1>3. \A b \in Senders : unsent'[b] = IF b = a THEN <<>> ELSE unsent[b]
  BY <1>1, <1>2
<1>4. TypeOK'
  <2>1. sent' \subseteq Messages
    BY <1>1, HeadMessage DEF TypeOK
  <2>2. unsent' \in [Senders -> Seq(Cells)]
    BY <1>1, <1>2
  <2> QED BY <1>1, <2>1, <2>2 DEF TypeOK
<1>5. SenderInv'
  BY <1>1, <1>3 DEF SenderInv
<1>6. StreamInv(end, n)'
  BY <1>1 DEF InStep, StreamInv
<1>7. Layout(end)' /\ (k <= Len(order))' /\ RecieverInv(end, n, k)' /\ DeliveredInv(k)'
  BY <1>1, SameReciever
<1>8. InStep(end, n, k)'
  BY <1>6, <1>7 DEF InStep
<1> QED BY <1>4, <1>5, <1>8 DEF FInv

\* The next cells written are those that follow in the last frame.
LEMMA SendSomeInv ==
  ASSUME TypeOK, SenderInv, NEW end, NEW n \in Nat, NEW k \in Nat, InStep(end, n, k),
         NEW a \in Senders, SendSome(a)
  PROVE  FInv'
<1> DEFINE L == Len(order)
           u == Len(unsent[a])
           m == order[Len(order)]
<1>1. /\ unsent[a] # <<>> /\ ~cut
      /\ UNCHANGED <<cut, phase, need, got, order, delivered>>
  BY DEF SendSome
<1>2. PICK j \in 1..u :
        /\ Len(stream) + j <= Capacity
        /\ stream' = stream \o SubSeq(unsent[a], 1, j)
        /\ unsent' = [unsent EXCEPT ![a] = SubSeq(unsent[a], j + 1, u)]
        /\ sent' = sent \/ sent' = sent \cup {Head(unsent[a])[1]}
  BY DEF SendSome
<1>3. /\ unsent \in [Senders -> Seq(Cells)] /\ unsent[a] \in Seq(Cells) /\ stream \in Seq(Cells)
      /\ u \in Nat /\ j \in Nat /\ j >= 1 /\ j <= u /\ Len(stream) \in Nat /\ L \in Nat
  BY Numbers DEF TypeOK
<1>4. /\ SubSeq(unsent[a], 1, j) \in Seq(Cells) /\ Len(SubSeq(unsent[a], 1, j)) = j
      /\ \A i \in 1..j : SubSeq(unsent[a], 1, j)[i] = unsent[a][i]
      /\ SubSeq(unsent[a], j + 1, u) \in Seq(Cells) /\ Len(SubSeq(unsent[a], j + 1, u)) = u - j
      /\ \A i \in 1..(u - j) : SubSeq(unsent[a], j + 1, u)[i] = unsent[a][j + i]
      /\ SubSeq(unsent[a], j + 1, u) = <<>> <=> j = u
  BY <1>3, Split
<1>5. /\ stream' \in Seq(Cells) /\ Len(stream') = Len(stream) + j
      /\ \A i \in 1..(Len(stream) + j) :
           stream'[i] = IF i <= Len(stream) THEN stream[i] ELSE unsent[a][i - Len(stream)]
  <2>1. /\ stream' \in Seq(Cells) /\ Len(stream') = Len(stream) + j
        /\ \A i \in 1..(Len(stream) + j) :
             stream'[i] = IF i <= Len(stream)
                          THEN stream[i] ELSE SubSeq(unsent[a], 1, j)[i - Len(stream)]
    BY <1>2, <1>3, <1>4, ConcatProperties
  <2>2. \A i \in 1..(Len(stream) + j) : ~(i <= Len(stream)) => i - Len(stream) \in 1..j
    BY <1>3
  <2> QED BY <1>4, <2>1, <2>2
<1>6. \A b \in Senders :
        unsent'[b] = IF b = a THEN SubSeq(unsent[a], j + 1, u) ELSE unsent[b]
  BY <1>2, <1>3
<1>7. TypeOK'
  <2>1. sent' \subseteq Messages
    <3>1. Head(unsent[a])[1] \in Messages
      BY <1>1, HeadMessage
    <3>2. sent \subseteq Messages
      BY DEF TypeOK
    <3> QED BY <1>2, <3>1, <3>2
  <2>2. unsent' \in [Senders -> Seq(Cells)]
    BY <1>2, <1>3, <1>4
  <2> QED BY <1>1, <1>2, <1>5, <2>1, <2>2 DEF TypeOK
\* What sender a was writing.
<1>8. /\ L > 0 /\ u <= FrameSize(m)
      /\ \A i \in 1..u : unsent[a][i] = <<m, FrameSize(m) - u + i>>
      /\ \A b \in Senders : unsent[b] # <<>> => b = a
  BY <1>1 DEF SenderInv
<1>9. L \in 1..L /\ L - 1 \in 0..L /\ m \in Messages /\ FrameSize(m) \in Nat
  <2>1. L \in 1..L /\ L - 1 \in 0..L
    BY <1>3, <1>8
  <2>2. m \in Messages
    BY <2>1, Numbers
  <2> QED BY <2>1, <2>2, CellFacts
<1>10. /\ end[L] \in Nat /\ end[L - 1] \in Nat /\ end[L] = end[L - 1] + FrameSize(m)
       /\ n + Len(stream) + u = end[L]
  <2>1. end[L] \in Nat /\ end[L - 1] \in Nat
    BY <1>9, Ends DEF InStep
  <2>2. end[L] = end[L - 1] + FrameSize(m)
    BY <1>9 DEF InStep, Layout
  <2>3. n + Len(stream) + u = end[L]
    BY <1>1 DEF InStep, StreamInv
  <2> QED BY <2>1, <2>2, <2>3
<1>11. SenderInv'
  <2>1. ASSUME NEW b \in Senders, unsent'[b] # <<>>
        PROVE  /\ b = a /\ Len(unsent'[b]) <= FrameSize(m)
               /\ \A i \in 1..Len(unsent'[b]) :
                    unsent'[b][i] = <<m, FrameSize(m) - Len(unsent'[b]) + i>>
    <3>1. b = a /\ unsent'[b] = SubSeq(unsent[a], j + 1, u)
      BY <1>6, <1>8, <2>1
    <3>2. Len(unsent'[b]) = u - j /\ u - j <= FrameSize(m)
      BY <1>3, <1>4, <1>8, <1>9, <3>1
    <3>3. ASSUME NEW i \in 1..(u - j)
          PROVE  unsent'[b][i] = <<m, FrameSize(m) - (u - j) + i>>
      <4>1. j + i \in 1..u /\ FrameSize(m) - u + (j + i) = FrameSize(m) - (u - j) + i
        BY <1>3, <1>9
      <4>2. unsent[a][j + i] = <<m, FrameSize(m) - u + (j + i)>>
        BY <1>8, <4>1
      <4> QED BY <1>4, <3>1, <4>1, <4>2
    <3> QED BY <3>1, <3>2, <3>3
  <2> QED BY <1>1, <1>8, <2>1 DEF SenderInv
<1>12. StreamInv(end, n)'
  <2>1. ASSUME NEW i \in 1..(Len(stream) + j) PROVE IsCell(end, order, stream'[i], n + i)
    <3>1. CASE i <= Len(stream)
      <4>1. i \in 1..Len(stream)
        BY <1>3, <3>1
      <4> QED BY <1>5, <3>1, <4>1 DEF InStep, StreamInv
    <3>2. CASE ~(i <= Len(stream))
      <4>1. i - Len(stream) \in 1..u
        BY <1>3, <3>2
      <4>2. stream'[i] = <<m, FrameSize(m) - u + (i - Len(stream))>>
        BY <1>5, <1>8, <3>2, <4>1
      <4>3. PICK e \in Nat : e = end[L - 1]
        BY <1>10
      <4>4. PICK z \in Nat : z = FrameSize(m)
        BY <1>9
      <4>5. n + Len(stream) + u = e + z /\ u <= z
        BY <1>8, <1>10, <4>3, <4>4
      <4>6. z - u + (i - Len(stream)) = n + i - e /\ e < n + i /\ n + i <= e + z
        <5>1. \A s, v, x \in Nat :
                n + s + v = e + z /\ v <= z /\ ~(x <= s) /\ x - s <= v
                => z - v + (x - s) = n + x - e /\ e < n + x /\ n + x <= e + z
          OBVIOUS
        <5>2. i \in Nat /\ i - Len(stream) <= u
          BY <1>3, <4>1
        <5> QED BY <1>3, <3>2, <4>5, <5>1, <5>2
      <4>7. InFrame(end, L, n + i)
        BY <1>10, <4>3, <4>4, <4>6 DEF InFrame
      <4>8. PICK x \in Nat : x = n + i
        BY <1>3
      <4>9. PICK q \in 1..Len(order) : q = L
        BY <1>9
      <4>10. InFrame(end, q, x) /\ stream'[i] = <<order[q], x - end[q - 1]>>
        <5>1. InFrame(end, q, x)
          BY <4>7, <4>8, <4>9
        <5>2. stream'[i] = <<m, x - e>>
          BY <4>2, <4>4, <4>6, <4>8
        <5>3. order[q] = m /\ end[q - 1] = e
          BY <4>3, <4>9
        <5> QED BY <5>1, <5>2, <5>3
      <4>11. IsCell(end, order, stream'[i], x)
        BY <4>10, ACell
      <4> QED BY <4>8, <4>11
    <3> QED BY <3>1, <3>2
  <2>2. n + Len(stream') + (u - j) = end[L]
    <3>1. n + (Len(stream) + j) + (u - j) = n + Len(stream) + u
      BY <1>3
    <3> QED BY <1>5, <1>10, <3>1
  <2>3. ASSUME NEW b \in Senders, unsent'[b] # <<>>
        PROVE  n + Len(stream') + Len(unsent'[b]) = end[L]
    <3>1. b = a
      BY <1>6, <1>8, <2>3
    <3>2. Len(unsent'[b]) = u - j
      BY <1>4, <1>6, <3>1
    <3> QED BY <2>2, <3>2
  <2>4. ASSUME MtxFree' PROVE n + Len(stream') = end[L]
    <3>1. j = u
      BY <1>4, <1>6, <2>4 DEF MtxFree
    <3> QED BY <1>3, <1>5, <1>10, <3>1
  <2> QED BY <1>1, <1>5, <2>1, <2>3, <2>4 DEF StreamInv
<1>13. Layout(end)' /\ (k <= Len(order))' /\ RecieverInv(end, n, k)' /\ DeliveredInv(k)'
  BY <1>1, SameReciever
<1>14. InStep(end, n, k)'
  BY <1>12, <1>13 DEF InStep
<1> QED BY <1>7, <1>11, <1>14 DEF FInv

\* A message that gets mtx_ has the next frame.
LEMMA SendBeginInv ==
  ASSUME TypeOK, SenderInv, NEW end, NEW n \in Nat, NEW k \in Nat, InStep(end, n, k),
         NEW a \in Senders, NEW m \in Messages, SendBegin(a, m)
  PROVE  FInv'
<1> DEFINE L == Len(order)
<1>1. /\ MtxFree /\ m \notin Range(order)
      /\ order' = Append(order, m) /\ unsent' = [unsent EXCEPT ![a] = Frame(m)]
      /\ UNCHANGED <<stream, cut, phase, need, got, sent, delivered>>
  BY DEF SendBegin
<1>2. /\ L \in Nat /\ order \in Seq(Messages) /\ unsent \in [Senders -> Seq(Cells)]
      /\ k <= L /\ k \in 0..L /\ L + 1 \in Nat
  BY Numbers DEF TypeOK, InStep
<1>3. /\ order' \in Seq(Messages) /\ Len(order') = L + 1 /\ order'[L + 1] = m
      /\ \A i \in 1..L : order'[i] = order[i]
  BY <1>1, <1>2, AppendProperties
<1>4. /\ Frame(m) \in Seq(Cells) /\ Len(Frame(m)) = FrameSize(m) /\ Frame(m) # <<>>
      /\ \A i \in 1..FrameSize(m) : Frame(m)[i] = <<m, i>>
      /\ FrameSize(m) \in Nat
  <2>1. FrameSize(m) \in Nat /\ FrameSize(m) >= 2
    BY CellFacts
  <2>2. Frame(m) \in Seq(Cells) /\ Len(Frame(m)) = FrameSize(m)
    BY FrameIsSeq
  <2>3. Frame(m) # <<>>
    BY <2>1, <2>2, EmptySeq
  <2> QED BY <2>1, <2>2, <2>3, FrameIsSeq
<1>5. \A b \in Senders : unsent'[b] = IF b = a THEN Frame(m) ELSE <<>>
  BY <1>1, <1>2 DEF MtxFree
<1>6. TypeOK'
  <2>1. unsent' \in [Senders -> Seq(Cells)]
    BY <1>1, <1>2, <1>4
  <2> QED BY <1>1, <1>3, <2>1 DEF TypeOK
<1>7. SenderInv'
  <2>1. ASSUME NEW i \in 1..L PROVE order'[i] # m
    BY <1>1, <1>2, <1>3, LenProperties DEF Range
  <2>2. ASSUME NEW i \in 1..(L + 1), NEW j \in 1..(L + 1), order'[i] = order'[j] PROVE i = j
    <3>1. (i \in 1..L \/ i = L + 1) /\ (j \in 1..L \/ j = L + 1)
      BY <1>2
    <3>2. i \in 1..L /\ j \in 1..L => i = j
      BY <1>3, <2>2 DEF SenderInv
    <3> QED BY <1>3, <2>1, <2>2, <3>1, <3>2
  <2>3. \A b, c \in Senders : unsent'[b] # <<>> /\ unsent'[c] # <<>> => b = c
    BY <1>5
  <2>4. ASSUME NEW b \in Senders, unsent'[b] # <<>>
        PROVE  /\ Len(order') > 0
               /\ Len(unsent'[b]) <= FrameSize(order'[Len(order')])
               /\ \A i \in 1..Len(unsent'[b]) :
                    unsent'[b][i] = <<order'[Len(order')],
                                      FrameSize(order'[Len(order')]) - Len(unsent'[b]) + i>>
    <3>1. unsent'[b] = Frame(m) /\ order'[Len(order')] = m
      BY <1>3, <1>5, <2>4
    <3>2. \A i \in 1..FrameSize(m) : FrameSize(m) - FrameSize(m) + i = i
      BY <1>4
    <3>3. Len(order') > 0
      BY <1>2, <1>3
    <3> QED BY <1>4, <3>1, <3>2, <3>3
  <2> QED BY <1>3, <2>2, <2>3, <2>4 DEF SenderInv
<1>8. /\ end \in [Nat -> Nat] /\ end[L] \in Nat /\ end[L] + FrameSize(m) \in Nat
      /\ \A j \in 0..L : end[j] \in Nat
  <2>1. end \in [Nat -> Nat]
    BY DEF InStep, Layout
  <2>2. \A j \in 0..L : end[j] \in Nat
    BY Ends DEF InStep
  <2>3. end[L] \in Nat /\ end[L] + FrameSize(m) \in Nat
    BY <1>2, <1>4, <2>2
  <2> QED BY <2>1, <2>2, <2>3
<1>9. PICK end2 : /\ end2 \in [Nat -> Nat] /\ end2[L + 1] = end[L] + FrameSize(m)
                  /\ \A j \in 0..L : end2[j] = end[j]
  <2> DEFINE longer == [end EXCEPT ![L + 1] = end[L] + FrameSize(m)]
  <2>1. \A j \in 0..L : j \in Nat /\ j # L + 1
    BY <1>2
  <2>2. /\ longer \in [Nat -> Nat] /\ longer[L + 1] = end[L] + FrameSize(m)
        /\ \A j \in 0..L : longer[j] = end[j]
    BY <1>2, <1>8, <2>1
  <2> QED BY <2>2
<1>10. Layout(end2)'
  <2>1. end2[0] = 0
    BY <1>2, <1>9 DEF InStep, Layout
  <2>2. ASSUME NEW i \in 1..(L + 1) PROVE end2[i] = end2[i - 1] + FrameSize(order'[i])
    <3>1. CASE i \in 1..L
      <4>1. i \in 0..L /\ i - 1 \in 0..L
        BY <1>2, <3>1
      <4>2. end[i] = end[i - 1] + FrameSize(order[i])
        BY <3>1 DEF InStep, Layout
      <4> QED BY <1>3, <1>9, <3>1, <4>1, <4>2
    <3>2. CASE i = L + 1
      <4>1. i - 1 = L /\ L \in 0..L
        BY <1>2, <3>2
      <4> QED BY <1>3, <1>9, <3>2, <4>1
    <3> QED BY <1>2, <3>1, <3>2
  <2>3. ASSUME NEW i \in 0..(L + 1), NEW j \in 0..(L + 1), i <= j PROVE end2[i] <= end2[j]
    <3>1. CASE j \in 0..L
      <4>1. i \in 0..L
        BY <1>2, <2>3, <3>1
      <4>2. end[i] <= end[j]
        BY <2>3, <3>1, <4>1 DEF InStep, Layout
      <4> QED BY <1>9, <3>1, <4>1, <4>2
    <3>2. CASE j = L + 1
      <4>1. CASE i = L + 1
        <5>1. PICK v \in Nat : v = end2[i] /\ v = end2[j]
          BY <1>2, <1>9, <3>2, <4>1
        <5> QED BY <5>1
      <4>2. CASE i \in 0..L
        <5>1. end[i] <= end[L] /\ end[i] \in Nat
          BY <1>2, <1>8, <4>2 DEF InStep, Layout
        <5>2. end2[i] = end[i] /\ end2[j] = end[L] + FrameSize(m)
          BY <1>9, <3>2, <4>2
        <5>3. \A v, w, f \in Nat : v <= w => v <= w + f
          OBVIOUS
        <5> QED BY <1>4, <1>8, <5>1, <5>2, <5>3
      <4> QED BY <1>2, <4>1, <4>2
    <3> QED BY <1>2, <3>1, <3>2
  <2> QED BY <1>3, <1>9, <2>1, <2>2, <2>3 DEF Layout
<1>11. StreamInv(end2, n)'
  <2>1. ASSUME NEW c, NEW x, IsCell(end, order, c, x) PROVE IsCell(end2, order', c, x)
    <3>1. PICK q \in 1..L : InFrame(end, q, x) /\ c = <<order[q], x - end[q - 1]>>
      BY <2>1 DEF IsCell
    <3>2. q \in 0..L /\ q - 1 \in 0..L /\ q \in 1..Len(order')
      BY <1>2, <1>3
    <3>3. end2[q] = end[q] /\ end2[q - 1] = end[q - 1] /\ order'[q] = order[q]
      BY <1>3, <1>9, <3>2
    <3>4. InFrame(end2, q, x) /\ c = <<order'[q], x - end2[q - 1]>>
      BY <3>1, <3>3 DEF InFrame
    <3> QED BY <3>2, <3>4, ACell
  <2>2. \A i \in 1..Len(stream) : IsCell(end2, order', stream[i], n + i)
    BY <2>1 DEF InStep, StreamInv
  <2>3. ASSUME ~cut, NEW b \in Senders, unsent'[b] # <<>>
        PROVE  n + Len(stream) + Len(unsent'[b]) = end2[L + 1]
    <3>1. Len(unsent'[b]) = FrameSize(m)
      BY <1>4, <1>5, <2>3
    <3>2. n + Len(stream) = end[L]
      BY <1>1, <2>3 DEF InStep, StreamInv
    <3> QED BY <1>9, <3>1, <3>2
  <2>4. ~MtxFree'
    BY <1>4, <1>5 DEF MtxFree
  <2> QED BY <1>1, <1>3, <2>2, <2>3, <2>4 DEF StreamInv
<1>12. RecieverInv(end2, n, k)'
  <2>1. end2[k] = end[k]
    BY <1>2, <1>9
  <2>2. k < L => k < L + 1 /\ k + 1 \in 1..L
    BY <1>2
  <2>3. k < L => order'[k + 1] = order[k + 1]
    BY <1>3, <2>2
  <2> QED BY <1>1, <1>3, <2>1, <2>2, <2>3 DEF InStep, RecieverInv
<1>13. DeliveredInv(k)'
  <2>1. ASSUME NEW j \in 0..k PROVE Rank(j)' = Rank(j)
    <3>1. j \in 0..L /\ \A i \in 1..j : order'[i] = order[i]
      BY <1>2, <1>3
    <3> QED BY <1>2, <1>3, <3>1, RankSame
  <2>2. k \in 0..k /\ \A j \in 1..k : j \in 0..k /\ j \in 1..L
    BY <1>2
  <2>3. Len(delivered') = Rank(k)'
    BY <1>1, <2>1, <2>2 DEF InStep, DeliveredInv
  <2>4. ASSUME NEW j \in 1..k, Size[order'[j]] > 0
        PROVE  delivered'[Rank(j)'] = Data(order'[j])
    <3>1. order'[j] = order[j] /\ Rank(j)' = Rank(j)
      BY <1>3, <2>1, <2>2
    <3> QED BY <1>1, <2>4, <3>1 DEF InStep, DeliveredInv
  <2> QED BY <2>3, <2>4 DEF DeliveredInv
<1>14. (k <= Len(order))'
  BY <1>2, <1>3
<1>15. InStep(end2, n, k)'
  BY <1>10, <1>11, <1>12, <1>13, <1>14 DEF InStep
<1> QED BY <1>6, <1>7, <1>15 DEF FInv

-----------------------------------------------------------------------------
(* The theorems *)

\* It holds at first, of no frames.
LEMMA InitFInv == Init => FInv
<1> SUFFICES ASSUME Init PROVE FInv
  OBVIOUS
<1>1. /\ unsent = [a \in Senders |-> <<>>] /\ stream = <<>> /\ cut = FALSE /\ phase = "idle"
      /\ need = 0 /\ got = <<>> /\ order = <<>> /\ sent = {} /\ delivered = <<>>
  BY DEF Init
<1>2. Len(order) = 0 /\ Len(stream) = 0 /\ Len(delivered) = 0
  BY <1>1, EmptySeq
<1>3. TypeOK
  <2>1. \A S : <<>> \in Seq(S)
    BY EmptySeq
  <2>2. unsent \in [Senders -> Seq(Cells)]
    BY <1>1, <2>1
  <2>3. stream \in Seq(Cells) /\ Len(stream) <= Capacity
    BY <1>1, <1>2, <2>1, FramingAssumption
  <2>4. got \in Seq(Cells) /\ order \in Seq(Messages) /\ delivered \in Seq(Seq(Cells))
    BY <1>1, <2>1
  <2> QED BY <1>1, <2>2, <2>3, <2>4 DEF TypeOK
<1>4. SenderInv
  BY <1>1, <1>2 DEF SenderInv
<1>5. PICK end : end = [k \in Nat |-> 0]
  OBVIOUS
<1>6. Layout(end)
  BY <1>2, <1>5 DEF Layout
<1>7. StreamInv(end, 0)
  BY <1>1, <1>2, <1>5 DEF StreamInv
<1>8. RecieverInv(end, 0, 0)
  BY <1>1, <1>5 DEF RecieverInv
<1>9. DeliveredInv(0)
  <2>1. order \in Seq(Messages)
    BY <1>3 DEF TypeOK
  <2>2. Rank(0) = 0
    BY <2>1, RankFacts
  <2> QED BY <1>2, <2>2 DEF DeliveredInv
<1>10. InStep(end, 0, 0)
  BY <1>2, <1>6, <1>7, <1>8, <1>9 DEF InStep
<1> QED BY <1>3, <1>4, <1>10 DEF FInv

\* Every step preserves it, one lemma each.
LEMMA NextFInv == FInv /\ [Next]_vars => FInv'
<1> SUFFICES ASSUME FInv, [Next]_vars PROVE FInv'
  OBVIOUS
<1>1. TypeOK /\ SenderInv
  BY DEF FInv
<1>2. PICK end : \E n, k \in Nat : InStep(end, n, k)
  BY DEF FInv
<1>3. PICK n \in Nat : \E k \in Nat : InStep(end, n, k)
  BY <1>2
<1>4. PICK k \in Nat : InStep(end, n, k)
  BY <1>3
<1>5. ASSUME NEW a \in Senders, SendSome(a) PROVE FInv'
  BY <1>1, <1>4, <1>5, SendSomeInv
<1>6. ASSUME NEW a \in Senders, SendCut(a) PROVE FInv'
  BY <1>1, <1>4, <1>6, SendCutInv
<1>7. ASSUME NEW a \in Senders, NEW m \in Messages, SendBegin(a, m) PROVE FInv'
  BY <1>1, <1>4, <1>7, SendBeginInv
<1>8. CASE WaitEvent
  BY <1>1, <1>4, <1>8, WaitInv
<1>9. CASE recv_
  BY <1>1, <1>4, <1>9, RecvInv
<1>10. CASE RecvCut \/ GiveUp
  BY <1>1, <1>4, <1>10, GiveUpInv
<1>11. CASE RecvHead
  BY <1>1, <1>4, <1>11, HeadInv
<1>12. CASE RecvData
  BY <1>1, <1>4, <1>12, DataInv
<1>13. CASE PeerCuts
  BY <1>1, <1>4, <1>13, CutInv
<1>14. CASE UNCHANGED vars
  <2>1. UNCHANGED <<unsent, stream, cut, phase, need, got, order, sent, delivered>>
    BY <1>14 DEF vars
  <2>2. TypeOK'
    BY <1>1, <2>1 DEF TypeOK
  <2>3. SenderInv' /\ StreamInv(end, n)'
    BY <1>1, <1>4, <2>1, SameStream
  <2>4. Layout(end)' /\ (k <= Len(order))' /\ RecieverInv(end, n, k)' /\ DeliveredInv(k)'
    BY <1>4, <2>1, SameReciever
  <2>5. InStep(end, n, k)'
    BY <2>3, <2>4 DEF InStep
  <2> QED BY <2>2, <2>3, <2>5 DEF FInv
<1>15. CASE Closed
  BY <1>14, <1>15 DEF Closed
<1> QED BY <1>5, <1>6, <1>7, <1>8, <1>9, <1>10, <1>11, <1>12, <1>13, <1>14, <1>15
        DEF Next, Recieve

\* The inductive invariant: there is a layout of the frames at which both ends are.
THEOREM Inductive == Spec => []FInv
<1>1. Init => FInv
  BY InitFInv
<1>2. FInv /\ [Next]_vars => FInv'
  BY NextFInv
<1> QED BY <1>1, <1>2, PTL DEF Spec

\* Type correctness; the stream never holds more than it can.
THEOREM TypeCorrect == Spec => []TypeOK
<1>1. FInv => TypeOK
  BY DEF FInv
<1> QED BY <1>1, Inductive, PTL

\* do_recieve never meets a header without magic.
THEOREM StaysInStep == Spec => []NeverOutOfStep
<1>1. FInv => NeverOutOfStep
  BY DEF FInv, InStep, RecieverInv, NeverOutOfStep
<1> QED BY <1>1, Inductive, PTL

\* What do_recieve reports is what do_send was given, whole and in the order of mtx_.
THEOREM ReportedAsSent == Spec => []WholeAndInOrder
<1>1. ASSUME FInv PROVE WholeAndInOrder
  <2>1. TypeOK /\ order \in Seq(Messages) /\ Len(order) \in Nat /\ DOMAIN order = 1..Len(order)
    BY <1>1, LenProperties DEF FInv, TypeOK
  <2>2. PICK k \in Nat : k <= Len(order) /\ DeliveredInv(k)
    BY <1>1 DEF FInv, InStep
  <2>3. /\ Len(delivered) = Rank(k)
        /\ \A j \in 1..k : Size[order[j]] > 0 => delivered[Rank(j)] = Data(order[j])
    BY <2>2 DEF DeliveredInv
  <2>4. k \in 0..Len(order) /\ Len(order) \in 0..Len(order)
    BY <2>1, <2>2
  <2>5. Rank(k) <= Rank(Len(order))
    BY <2>1, <2>2, <2>4, RankFacts
  <2>6. ASSUME NEW j \in 1..Len(order), Size[order[j]] > 0, Rank(j) <= Len(delivered)
        PROVE  j \in 1..k
    <3>1. j \in Nat /\ j - 1 \in 0..Len(order)
      BY <2>1
    <3>2. Rank(j) = Rank(j - 1) + 1 /\ Rank(j - 1) \in Nat /\ Rank(k) \in Nat
      BY <2>1, <2>4, <2>6, <3>1, RankFacts
    <3>3. k <= j - 1 => Rank(k) <= Rank(j - 1)
      BY <2>1, <2>4, <3>1, RankFacts
    <3>4. ~(k <= j - 1)
      BY <2>3, <2>6, <3>2, <3>3
    <3> QED BY <3>1, <3>4
  <2> QED BY <2>1, <2>3, <2>5, <2>6 DEF WholeAndInOrder
<1> QED BY <1>1, Inductive, PTL

\* recv_ waits only for cells that a sender is writing, or finds the connection cut.
THEOREM WaitsForASender == Spec => []NeverWaitsInVain
<1>1. ASSUME FInv PROVE NeverWaitsInVain
  <2> SUFFICES ASSUME phase \in {"head", "data"}, need > 0, stream = <<>>, ~cut, MtxFree
               PROVE  FALSE
    BY DEF NeverWaitsInVain
  <2>1. TypeOK
    BY <1>1 DEF FInv
  <2>2. PICK end : \E n, k \in Nat : InStep(end, n, k)
    BY <1>1 DEF FInv
  <2>3. PICK n \in Nat : \E k \in Nat : InStep(end, n, k)
    BY <2>2
  <2>4. PICK k \in Nat : InStep(end, n, k)
    BY <2>3
  <2>5. /\ Layout(end) /\ need \in Nat /\ Len(got) \in Nat /\ Len(order) \in Nat
        /\ \A j \in 1..Len(order) : order[j] \in Messages
    BY <2>1, <2>4, LenProperties, ElementOfSeq DEF TypeOK, InStep
  <2>6. n = end[Len(order)]
    <3>1. n + Len(stream) = end[Len(order)] /\ Len(stream) = 0
      BY <2>4, EmptySeq DEF InStep, StreamInv
    <3> QED BY <3>1
  <2>7. k < Len(order)
    BY <2>4 DEF InStep, RecieverInv
  <2>8. n < end[k] + FrameSize(order[k + 1])
    <3>1. k + 1 \in 1..Len(order) /\ k \in Nat
      BY <2>5, <2>7
    <3>2. PICK z \in Nat : z = Size[order[k + 1]]
      BY <2>5, <3>1, CellFacts
    <3>3. PICK e \in Nat : e = end[k]
      BY <2>5, <3>1 DEF Layout
    <3>4. FrameSize(order[k + 1]) = HeaderSize + z /\ HeaderSize = 2
      BY <3>2 DEF FrameSize, HeaderSize
    <3>5. CASE phase = "head"
      <4>1. need + Len(got) = 2 /\ n = e + Len(got)
        BY <2>4, <3>3, <3>4, <3>5 DEF InStep, RecieverInv
      <4>2. n < e + (2 + z)
        BY <2>5, <4>1
      <4> QED BY <3>3, <3>4, <4>2
    <3>6. CASE phase = "data"
      <4>1. need + Len(got) = z /\ n = e + 2 + Len(got)
        BY <2>4, <3>2, <3>3, <3>4, <3>6 DEF InStep, RecieverInv
      <4>2. n < e + (2 + z)
        BY <2>5, <4>1
      <4> QED BY <3>3, <3>4, <4>2
    <3> QED BY <3>5, <3>6
  <2>9. end[k] + FrameSize(order[k + 1]) <= end[Len(order)]
    <3>1. k + 1 \in 1..Len(order) /\ k + 1 \in 0..Len(order) /\ Len(order) \in 0..Len(order)
          /\ k + 1 <= Len(order) /\ k + 1 - 1 = k
      BY <2>5, <2>7
    <3>2. end[k + 1] = end[k] + FrameSize(order[k + 1])
      BY <2>5, <3>1 DEF Layout
    <3>3. end[k + 1] <= end[Len(order)]
      BY <2>5, <3>1 DEF Layout
    <3> QED BY <3>2, <3>3
  <2>10. end[k] + FrameSize(order[k + 1]) \in Nat /\ end[Len(order)] \in Nat
    <3>1. k + 1 \in 1..Len(order)
      BY <2>5, <2>7
    <3> QED BY <2>5, <3>1, CellFacts DEF Layout
  <2> QED BY <2>6, <2>8, <2>9, <2>10
<1> QED BY <1>1, Inductive, PTL
=============================================================================
