------------------------------ MODULE IPCProofs ------------------------------
(***************************************************************************)
(* Proofs about IPC: the buffers and the socket hold whole frames          *)
(* (IPCInv), and the framing implements the queue of MessageQueue.         *)
(***************************************************************************)
EXTENDS IPC, SequenceTheorems, TLAPS

-----------------------------------------------------------------------------
(* Frames. *)

\* A header is a sequence of HeaderSize bytes.
LEMMA HeaderIsSeq ==
    ASSUME NEW h \in Header
    PROVE  h \in Seq(Byte) /\ Len(h) = HeaderSize
<1>1. HeaderSize \in Nat
  BY IPCAssumption
<1>2. h \in [1 .. HeaderSize -> Byte]
  BY DEF Header
<1>3. h \in Seq(Byte)
  BY <1>1, <1>2, SeqDef
<1>4. DOMAIN h = 1 .. Len(h) /\ Len(h) \in Nat
  BY <1>3, LenProperties
<1> QED
  BY <1>1, <1>2, <1>3, <1>4

\* A frame is its header followed by the payload.
LEMMA FrameShape ==
    ASSUME NEW m \in Messages
    PROVE  /\ Serialize[m] \in Seq(Byte)
           /\ Len(Serialize[m]) \in 0 .. MaxSize
           /\ Htonl[Len(Serialize[m])] \in Seq(Byte)
           /\ Len(Htonl[Len(Serialize[m])]) = HeaderSize
           /\ Frame(m) \in Seq(Byte)
           /\ Len(Frame(m)) = FrameSize(m)
           /\ FrameSize(m) \in Nat \ {0}
           /\ FrameSize(m) <= HeaderSize + MaxSize
           /\ \A j \in 1 .. HeaderSize : Frame(m)[j] = Htonl[Len(Serialize[m])][j]
           /\ \A j \in 1 .. Len(Serialize[m]) :
                 Frame(m)[HeaderSize + j] = Serialize[m][j]
<1> DEFINE p == Serialize[m]
<1> DEFINE h == Htonl[Len(p)]
<1>1. p \in Seq(Byte) /\ Len(p) \in Nat /\ Len(p) <= MaxSize
  BY IPCAssumption, LenProperties
<1>2. Len(p) \in 0 .. MaxSize
  BY <1>1, IPCAssumption
<1>3. h \in Header
  BY <1>2, IPCAssumption
<1>4. h \in Seq(Byte) /\ Len(h) = HeaderSize
  BY <1>3, HeaderIsSeq
<1>5. /\ h \o p \in Seq(Byte)
      /\ Len(h \o p) = Len(h) + Len(p)
      /\ \A i \in 1 .. Len(h) + Len(p) : (h \o p)[i] =
            IF i <= Len(h) THEN h[i] ELSE p[i - Len(h)]
  BY <1>1, <1>4, ConcatProperties
<1>6. HeaderSize \in Nat /\ HeaderSize > 0 /\ MaxSize \in Nat
  BY IPCAssumption
<1> HIDE DEF p, h
<1>7. /\ \A j \in 1 .. HeaderSize : (h \o p)[j] = h[j]
      /\ \A j \in 1 .. Len(p) : (h \o p)[HeaderSize + j] = p[j]
  BY <1>1, <1>4, <1>5, <1>6
<1>8. HeaderSize + Len(p) \in Nat \ {0} /\ HeaderSize + Len(p) <= HeaderSize + MaxSize
  BY <1>1, <1>6
<1> QED
  BY <1>1, <1>2, <1>4, <1>5, <1>7, <1>8 DEF Frame, FrameSize, p, h

\* Where the pieces of a cut sequence are.
LEMMA CutShape ==
    ASSUME NEW s \in Seq(Byte), NEW n \in 0 .. Len(s)
    PROVE  /\ SubSeq(s, 1, n) \in Seq(Byte)
           /\ Len(SubSeq(s, 1, n)) = n
           /\ \A i \in 1 .. n : SubSeq(s, 1, n)[i] = s[i]
           /\ SubSeq(s, n + 1, Len(s)) \in Seq(Byte)
           /\ Len(SubSeq(s, n + 1, Len(s))) = Len(s) - n
           /\ \A i \in 1 .. Len(s) - n : SubSeq(s, n + 1, Len(s))[i] = s[n + i]
<1>1. Len(s) \in Nat /\ \A i \in 1 .. Len(s) : s[i] \in Byte
  BY LenProperties, ElementOfSeq
<1>2. \A i \in 1 .. n : s[i] \in Byte
  BY <1>1
<1>3. \A i \in n + 1 .. Len(s) : s[i] \in Byte
  BY <1>1
<1>4. /\ SubSeq(s, 1, n) \in Seq(Byte)
      /\ Len(SubSeq(s, 1, n)) = IF 1 <= n THEN n - 1 + 1 ELSE 0
      /\ \A i \in 1 .. n - 1 + 1 : SubSeq(s, 1, n)[i] = s[1 + i - 1]
  <2>1. 1 \in Int /\ n \in Int
    BY <1>1
  <2> QED
    BY <1>2, <2>1, SubSeqProperties
<1>5. /\ SubSeq(s, n + 1, Len(s)) \in Seq(Byte)
      /\ Len(SubSeq(s, n + 1, Len(s))) = IF n + 1 <= Len(s) THEN Len(s) - (n + 1) + 1 ELSE 0
      /\ \A i \in 1 .. Len(s) - (n + 1) + 1 :
            SubSeq(s, n + 1, Len(s))[i] = s[(n + 1) + i - 1]
  <2>1. n + 1 \in Int /\ Len(s) \in Int
    BY <1>1
  <2> QED
    BY <1>3, <2>1, SubSeqProperties
<1> QED
  BY <1>1, <1>4, <1>5

\* Cutting and joining again changes nothing.
LEMMA CutJoin ==
    ASSUME NEW s \in Seq(Byte), NEW n \in 0 .. Len(s)
    PROVE  SubSeq(s, 1, n) \o SubSeq(s, n + 1, Len(s)) = s
<1>1. Len(s) \in Nat
  BY LenProperties
<1>2. 1 \in 1 .. Len(s) + 1 /\ n \in 1 - 1 .. Len(s) /\ Len(s) \in n .. Len(s)
  BY <1>1
<1>3. SubSeq(s, 1, n) \o SubSeq(s, n + 1, Len(s)) = SubSeq(s, 1, Len(s))
  BY <1>2, ConcatAdjacentSubSeq
<1> QED
  BY <1>3, SubSeqFull

-----------------------------------------------------------------------------
(* Initially and after each step. *)

LEMMA InitIPCInv == Init => IPCInv
<1> SUFFICES ASSUME Init PROVE IPCInv
  OBVIOUS
<1>1. TypeOK
  <2>1. << >> \in Seq(Byte) /\ << >> \in Seq(Messages) /\ << >> \in Seq(Nat)
    BY EmptySeq
  <2> QED
    BY <2>1 DEF Init, TypeOK
<1>2. Len(sent) = 0 /\ Len(got) = 0 /\ Len(ends) = 0
  BY EmptySeq DEF Init
<1>3. FramesAdjoin
  BY <1>2 DEF FramesAdjoin, End
<1>4. Len(Stream) = 0
  <2>1. << >> \in Seq(Byte) /\ Len(<< >>) = 0
    BY EmptySeq
  <2>2. << >> \o << >> = << >>
    BY <2>1, ConcatEmptySeq
  <2> QED
    BY <2>1, <2>2 DEF Init, Stream
<1>5. StreamWhole
  BY <1>2, <1>4 DEF StreamWhole, End
<1> QED
  BY <1>1, <1>2, <1>3, <1>5 DEF IPCInv, Init

\* What a step that neither sends nor returns a message has to keep.
LEMMA SameStream ==
    ASSUME IPCInv, TypeOK', flushing' => open'["sender"],
           Stream' = Stream, UNCHANGED <<sent, got, ends>>
    PROVE  IPCInv'
<1>1. \A i : End(i)' = End(i)
  BY DEF End
<1> QED
  BY <1>1 DEF IPCInv, FramesAdjoin, StreamWhole

\* The three pieces of the stream.
LEMMA StreamShape ==
    ASSUME NEW a \in Seq(Byte), NEW b \in Seq(Byte), NEW c \in Seq(Byte)
    PROVE  /\ (a \o b) \o c \in Seq(Byte)
           /\ Len((a \o b) \o c) = Len(a) + Len(b) + Len(c)
           /\ (a \o b) \o c = a \o (b \o c)
           /\ \A i \in 1 .. Len(a) : ((a \o b) \o c)[i] = a[i]
<1>1. Len(a) \in Nat /\ Len(b) \in Nat /\ Len(c) \in Nat
  BY LenProperties
<1>2. /\ a \o b \in Seq(Byte) /\ Len(a \o b) = Len(a) + Len(b)
      /\ \A i \in 1 .. Len(a) + Len(b) : (a \o b)[i] =
            IF i <= Len(a) THEN a[i] ELSE b[i - Len(a)]
  BY ConcatProperties
<1>3. /\ (a \o b) \o c \in Seq(Byte) /\ Len((a \o b) \o c) = Len(a \o b) + Len(c)
      /\ \A i \in 1 .. Len(a \o b) + Len(c) : ((a \o b) \o c)[i] =
            IF i <= Len(a \o b) THEN (a \o b)[i] ELSE c[i - Len(a \o b)]
  BY <1>2, ConcatProperties
<1>4. (a \o b) \o c = a \o (b \o c)
  BY ConcatAssociative
<1>5. ASSUME NEW i \in 1 .. Len(a) PROVE ((a \o b) \o c)[i] = a[i]
  <2>1. i \in 1 .. Len(a) + Len(b) /\ i \in 1 .. Len(a \o b) + Len(c)
        /\ i <= Len(a) /\ i <= Len(a \o b)
    BY <1>1, <1>2
  <2> QED
    BY <2>1, <1>2, <1>3
<1> QED
  BY <1>1, <1>2, <1>3, <1>4, <1>5

\* send_message() appends a frame to the stream.
LEMMA SendKeeps ==
    ASSUME IPCInv, NEW m \in Messages, SendMessage(m)
    PROVE  IPCInv'
<1> DEFINE F == Frame(m)
<1>1. /\ sendBuf \in Seq(Byte) /\ socket \in Seq(Byte) /\ recvBuf \in Seq(Byte)
      /\ sent \in Seq(Messages) /\ got \in Seq(Messages) /\ ends \in Seq(Nat)
      /\ open \in [Ends -> BOOLEAN]
  BY DEF IPCInv, TypeOK
<1>a. PICK n \in Nat : n = Len(sent)
  BY <1>1, LenProperties
<1>b. PICK g \in Nat : g = Len(got)
  BY <1>1, LenProperties
<1>2. /\ n \in Nat /\ g \in Nat /\ g <= n
      /\ Len(ends) = n /\ Len(sent) = n /\ Len(got) = g
  BY <1>a, <1>b DEF IPCInv, FramesAdjoin
<1>3. F \in Seq(Byte) /\ Len(F) = FrameSize(m) /\ FrameSize(m) \in Nat \ {0}
  BY FrameShape
<1>4. /\ sendBuf' = sendBuf \o F /\ socket' = socket /\ recvBuf' = recvBuf
      /\ open' = open /\ got' = got /\ flushing' = TRUE /\ open["sender"]
      /\ sent' = Append(sent, m) /\ ends' = Append(ends, End(n) + FrameSize(m))
  BY <1>2 DEF SendMessage
<1>5. \A i \in 0 .. n : End(i) \in Nat
  <2>1. \A i \in 1 .. n : ends[i] \in Nat
    BY <1>1, <1>2, ElementOfSeq
  <2> QED
    BY <2>1, <1>2 DEF End
<1>6. End(n) \in Nat /\ End(g) \in Nat /\ End(n) + FrameSize(m) \in Nat
  <2>1. n \in 0 .. n /\ g \in 0 .. n
    BY <1>2
  <2>2. End(n) \in Nat /\ End(g) \in Nat
    BY <2>1, <1>5
  <2> QED
    BY <2>2, <1>3
<1>7. /\ sent' \in Seq(Messages) /\ Len(sent') = n + 1
      /\ \A i \in 1 .. n : sent'[i] = sent[i]
      /\ sent'[n + 1] = m
  BY <1>1, <1>2, <1>4, AppendProperties
<1>8. /\ ends' \in Seq(Nat) /\ Len(ends') = n + 1
      /\ \A i \in 1 .. n : ends'[i] = ends[i]
      /\ ends'[n + 1] = End(n) + FrameSize(m)
  <2> DEFINE e == End(n) + FrameSize(m)
  <2>1. e \in Nat
    BY <1>6
  <2>2. ends' = Append(ends, e)
    BY <1>4
  <2> HIDE DEF e
  <2>3. /\ ends' \in Seq(Nat) /\ Len(ends') = Len(ends) + 1
        /\ \A i \in 1 .. Len(ends) : ends'[i] = ends[i]
        /\ ends'[Len(ends) + 1] = e
    BY <1>1, <2>1, <2>2, AppendProperties
  <2> QED
    BY <2>3, <1>2 DEF e
<1>9. \A i \in 0 .. n : End(i)' = End(i)
  <2> SUFFICES ASSUME NEW i \in 0 .. n PROVE End(i)' = End(i)
    OBVIOUS
  <2>1. CASE i = 0
    BY <2>1 DEF End
  <2>2. CASE i # 0
    <3>1. i \in 1 .. n
      BY <2>2, <1>2
    <3> QED
      BY <3>1, <2>2, <1>8 DEF End
  <2> QED
    BY <2>1, <2>2
<1>10. End(n + 1)' = End(n) + FrameSize(m)
  BY <1>2, <1>8 DEF End
<1>11. /\ Stream \in Seq(Byte)
       /\ Stream' = Stream \o F
       /\ Len(Stream') = Len(Stream) + FrameSize(m)
       /\ \A i \in 1 .. Len(Stream) + FrameSize(m) :
             Stream'[i] = IF i <= Len(Stream) THEN Stream[i] ELSE F[i - Len(Stream)]
  <2>1. Stream \in Seq(Byte) /\ recvBuf \o socket \in Seq(Byte)
    BY <1>1, ConcatProperties DEF Stream
  <2>2. (recvBuf \o socket) \o (sendBuf \o F) = ((recvBuf \o socket) \o sendBuf) \o F
    <3> DEFINE R == recvBuf \o socket
    <3>1. R \in Seq(Byte) /\ sendBuf \in Seq(Byte) /\ F \in Seq(Byte)
      BY <2>1, <1>1, <1>3
    <3> HIDE DEF R, F
    <3>2. R \o (sendBuf \o F) = (R \o sendBuf) \o F
      BY <3>1, StreamShape
    <3> QED
      BY <3>2 DEF R
  <2>3. Stream' = Stream \o F
    BY <2>2, <1>4 DEF Stream
  <2> QED
    BY <2>1, <2>3, <1>3, ConcatProperties
<1>12. Len(Stream) = End(n) - End(g)
  BY <1>2 DEF IPCInv, StreamWhole
<1>13. TypeOK'
  <2>1. sendBuf' \in Seq(Byte)
    BY <1>1, <1>3, <1>4, ConcatProperties
  <2> QED
    BY <2>1, <1>1, <1>4, <1>7, <1>8 DEF TypeOK
<1>14. FramesAdjoin'
  <2>1. ASSUME NEW i \in 1 .. Len(sent')
        PROVE  End(i)' = End(i - 1)' + FrameSize(sent'[i])
    <3>1. CASE i = n + 1
      <4>1. i - 1 = n /\ n \in 0 .. n
        BY <3>1, <1>2
      <4> QED
        BY <4>1, <3>1, <1>7, <1>9, <1>10
    <3>2. CASE i # n + 1
      <4>1. i \in 1 .. n /\ i \in 0 .. n /\ i - 1 \in 0 .. n
        BY <3>2, <1>2, <1>7
      <4>2. End(i) = End(i - 1) + FrameSize(sent[i])
        BY <1>2, <4>1 DEF IPCInv, FramesAdjoin
      <4> QED
        BY <4>1, <4>2, <1>7, <1>9
    <3> QED
      BY <3>1, <3>2
  <2>2. ASSUME NEW i \in 0 .. Len(sent'), NEW j \in 0 .. Len(sent'), i <= j
        PROVE  End(i)' <= End(j)'
    <3>1. CASE j = n + 1 /\ i = n + 1
      <4>1. End(i)' = End(n) + FrameSize(m) /\ End(j)' = End(n) + FrameSize(m)
        BY <3>1, <1>10
      <4> QED
        BY <4>1, <1>6
    <3>2. CASE j = n + 1 /\ i # n + 1
      <4>1. i \in 0 .. n /\ n \in 0 .. n /\ i <= n
        BY <3>2, <1>2, <1>7
      <4>2. End(i) <= End(n)
        BY <1>2, <4>1 DEF IPCInv, FramesAdjoin
      <4>3. End(i)' = End(i) /\ End(j)' = End(n) + FrameSize(m) /\ End(i) \in Nat
        BY <4>1, <3>2, <1>5, <1>9, <1>10
      <4> QED
        BY <4>2, <4>3, <1>3, <1>6
    <3>3. CASE j # n + 1
      <4>1. i \in 0 .. n /\ j \in 0 .. n
        BY <3>3, <2>2, <1>2, <1>7
      <4>2. End(i) <= End(j)
        BY <1>2, <4>1, <2>2 DEF IPCInv, FramesAdjoin
      <4> QED
        BY <4>1, <4>2, <1>9
    <3> QED
      BY <3>1, <3>2, <3>3
  <2>3. Len(ends') = Len(sent')
    BY <1>7, <1>8
  <2> QED
    BY <2>1, <2>2, <2>3 DEF FramesAdjoin
<1>15. StreamWhole'
  <2>1. Len(Stream') = End(n + 1)' - End(g)'
    <3>1. End(g)' = End(g)
      BY <1>2, <1>9
    <3> QED
      BY <3>1, <1>3, <1>6, <1>10, <1>11, <1>12
  <2>2. ASSUME NEW i \in g + 1 .. n + 1, NEW j \in 1 .. HeaderSize + MaxSize,
               j <= FrameSize(sent'[i])
        PROVE  Stream'[End(i - 1)' - End(g)' + j] = Frame(sent'[i])[j]
    <3>1. End(g)' = End(g) /\ i - 1 \in 0 .. n /\ End(i - 1)' = End(i - 1)
      <4>1. g \in 0 .. n /\ i - 1 \in 0 .. n
        BY <1>2
      <4> QED
        BY <4>1, <1>9
    <3>2. j \in Nat /\ j > 0
      BY IPCAssumption
    <3>3. CASE i = n + 1
      <4>1. i - 1 = n /\ sent'[i] = m
        BY <3>3, <1>2, <1>7
      <4>2. End(i - 1)' - End(g)' + j = Len(Stream) + j
        BY <4>1, <3>1, <1>12
      <4>3. j <= FrameSize(m)
        BY <4>1, <2>2
      <4>4. Len(Stream) \in Nat
        BY <1>11, LenProperties
      <4>5. Stream'[Len(Stream) + j] = F[j]
        <5> DEFINE L == Len(Stream)
        <5>1. L + j \in 1 .. L + FrameSize(m) /\ ~(L + j <= L) /\ L + j - L = j
          <6> HIDE DEF L
          <6> QED
            BY <4>3, <4>4, <3>2, <1>3 DEF L
        <5> QED
          BY <5>1, <1>11
      <4> QED
        BY <4>1, <4>2, <4>5
    <3>4. CASE i # n + 1
      <4>1. i \in g + 1 .. n /\ i \in 1 .. n /\ i \in 0 .. n
        BY <3>4, <1>2
      <4>2. sent'[i] = sent[i]
        BY <4>1, <1>7
      <4>3. j <= FrameSize(sent[i])
        BY <4>2, <2>2
      <4>4. Stream[End(i - 1) - End(g) + j] = Frame(sent[i])[j]
        BY <1>2, <4>1, <4>3 DEF IPCInv, StreamWhole
      <4>5. End(i) = End(i - 1) + FrameSize(sent[i]) /\ End(i) <= End(n)
        <5>1. n \in 0 .. n /\ i <= n
          BY <4>1, <1>2
        <5> QED
          BY <1>2, <5>1, <4>1 DEF IPCInv, FramesAdjoin
      <4>6. End(g) <= End(i - 1)
        <5>1. g \in 0 .. n /\ i - 1 \in 0 .. n /\ g <= i - 1
          BY <4>1, <1>2
        <5> QED
          BY <1>2, <5>1 DEF IPCInv, FramesAdjoin
      <4>7. End(i - 1) \in Nat /\ End(i) \in Nat
        BY <3>1, <4>1, <1>5
      <4>8. sent[i] \in Messages
        BY <1>1, <1>2, <4>1, ElementOfSeq
      <4>9. FrameSize(sent[i]) \in Nat
        BY <4>8, FrameShape
      <4> DEFINE q == End(i - 1) - End(g) + j
      <4>10. q \in 1 .. Len(Stream) + FrameSize(m) /\ q <= Len(Stream)
        <5>1. Len(Stream) >= End(i - 1) + FrameSize(sent[i]) - End(g)
          BY <4>5, <4>6, <4>7, <4>9, <1>6, <1>12
        <5>2. End(i - 1) - End(g) \in Nat /\ Len(Stream) \in Nat
          BY <4>6, <4>7, <1>6, <1>11, LenProperties
        <5> DEFINE o == End(i - 1) - End(g)
        <5>3. Len(Stream) >= o + FrameSize(sent[i])
          BY <5>1, <4>7, <4>9, <1>6
        <5> HIDE DEF o
        <5>4. o + j \in 1 .. Len(Stream) + FrameSize(m) /\ o + j <= Len(Stream)
          BY <5>2, <5>3, <4>3, <4>9, <3>2, <1>3 DEF o
        <5> QED
          BY <5>4 DEF o
      <4>11. Stream'[q] = Stream[q]
        <5> HIDE DEF q
        <5> QED
          BY <4>10, <1>11
      <4> QED
        BY <4>2, <4>4, <4>11, <3>1
    <3> QED
      BY <3>3, <3>4
  <2> QED
    <3>1. Len(got') = g /\ Len(sent') = n + 1
      BY <1>2, <1>4, <1>7
    <3>2. End(Len(sent))' = End(n + 1)' /\ End(Len(got))' = End(g)'
      BY <3>1 DEF End
    <3> QED
      BY <2>1, <2>2, <3>1, <3>2 DEF StreamWhole
<1> QED
  BY <1>2, <1>4, <1>7, <1>13, <1>14, <1>15 DEF IPCInv

\* send() and recv() move bytes along the stream.
LEMMA WriteKeeps ==
    ASSUME IPCInv, NEW n \in 1 .. Capacity, Write(n)
    PROVE  IPCInv'
<1>1. /\ sendBuf \in Seq(Byte) /\ socket \in Seq(Byte) /\ recvBuf \in Seq(Byte)
      /\ sent \in Seq(Messages) /\ got \in Seq(Messages) /\ ends \in Seq(Nat)
      /\ open \in [Ends -> BOOLEAN] /\ flushing \in BOOLEAN
  BY DEF IPCInv, TypeOK
<1> DEFINE front == SubSeq(sendBuf, 1, n)
<1> DEFINE back == SubSeq(sendBuf, n + 1, Len(sendBuf))
<1>2. n \in 0 .. Len(sendBuf)
  <2>1. Len(sendBuf) \in Nat /\ n <= Len(sendBuf) /\ Capacity \in Nat
    BY <1>1, LenProperties, IPCAssumption DEF Write
  <2> QED
    BY <2>1
<1>3. front \in Seq(Byte) /\ back \in Seq(Byte) /\ front \o back = sendBuf
  BY <1>1, <1>2, CutShape, CutJoin
<1>4. /\ socket' = socket \o front /\ sendBuf' = back
      /\ UNCHANGED <<flushing, recvBuf, open, sent, got, ends>>
  BY DEF Write
<1> HIDE DEF front, back
<1>5. TypeOK'
  <2>1. socket' \in Seq(Byte)
    BY <1>1, <1>3, <1>4, ConcatProperties
  <2> QED
    BY <2>1, <1>1, <1>3, <1>4 DEF TypeOK
<1>6. Stream' = Stream
  <2>1. (recvBuf \o (socket \o front)) \o back = ((recvBuf \o socket) \o front) \o back
    BY <1>1, <1>3, StreamShape
  <2>2. recvBuf \o socket \in Seq(Byte)
    BY <1>1, ConcatProperties
  <2>3. ((recvBuf \o socket) \o front) \o back = (recvBuf \o socket) \o (front \o back)
    <3> DEFINE R == recvBuf \o socket
    <3>1. R \in Seq(Byte)
      BY <2>2
    <3> HIDE DEF R
    <3>2. (R \o front) \o back = R \o (front \o back)
      BY <3>1, <1>3, StreamShape
    <3> QED
      BY <3>2 DEF R
  <2> QED
    BY <2>1, <2>3, <1>3, <1>4 DEF Stream
<1>7. flushing' => open'["sender"]
  BY <1>4 DEF IPCInv
<1> QED
  BY <1>4, <1>5, <1>6, <1>7, SameStream

LEMMA ReadKeeps ==
    ASSUME IPCInv, NEW n \in 1 .. Capacity, Read(n)
    PROVE  IPCInv'
<1>1. /\ sendBuf \in Seq(Byte) /\ socket \in Seq(Byte) /\ recvBuf \in Seq(Byte)
      /\ sent \in Seq(Messages) /\ got \in Seq(Messages) /\ ends \in Seq(Nat)
      /\ open \in [Ends -> BOOLEAN] /\ flushing \in BOOLEAN
  BY DEF IPCInv, TypeOK
<1> DEFINE front == SubSeq(socket, 1, n)
<1> DEFINE back == SubSeq(socket, n + 1, Len(socket))
<1>2. n \in 0 .. Len(socket)
  <2>1. Len(socket) \in Nat /\ n <= Len(socket) /\ Capacity \in Nat
    BY <1>1, LenProperties, IPCAssumption DEF Read
  <2> QED
    BY <2>1
<1>3. front \in Seq(Byte) /\ back \in Seq(Byte) /\ front \o back = socket
  BY <1>1, <1>2, CutShape, CutJoin
<1>4. /\ recvBuf' = recvBuf \o front /\ socket' = back
      /\ UNCHANGED <<sendBuf, flushing, open, sent, got, ends>>
  BY DEF Read
<1> HIDE DEF front, back
<1>5. TypeOK'
  <2>1. recvBuf' \in Seq(Byte)
    BY <1>1, <1>3, <1>4, ConcatProperties
  <2> QED
    BY <2>1, <1>1, <1>3, <1>4 DEF TypeOK
<1>6. Stream' = Stream
  <2>1. (recvBuf \o front) \o back = recvBuf \o (front \o back)
    BY <1>1, <1>3, StreamShape
  <2> QED
    BY <2>1, <1>3, <1>4 DEF Stream
<1>7. flushing' => open'["sender"]
  BY <1>4 DEF IPCInv
<1> QED
  BY <1>4, <1>5, <1>6, <1>7, SameStream

\* The first frame in recv_buffer_ is that of the first message which was not
\* returned yet, and it is cut out whole.
LEMMA FirstFrame ==
    ASSUME IPCInv, socket = << >>, IsComplete(recvBuf)
    PROVE  /\ Len(got) < Len(sent)
           /\ sent[Len(got) + 1] \in Messages
           /\ PayloadSize(recvBuf) = Len(Serialize[sent[Len(got) + 1]])
           /\ Payload(recvBuf) = Serialize[sent[Len(got) + 1]]
           /\ FrameSize(sent[Len(got) + 1]) <= Len(recvBuf)
           /\ HeaderSize + PayloadSize(recvBuf) = FrameSize(sent[Len(got) + 1])
<1>1. /\ sendBuf \in Seq(Byte) /\ socket \in Seq(Byte) /\ recvBuf \in Seq(Byte)
      /\ sent \in Seq(Messages) /\ got \in Seq(Messages) /\ ends \in Seq(Nat)
  BY DEF IPCInv, TypeOK
<1>2. /\ Len(sent) \in Nat /\ Len(got) \in Nat /\ Len(got) <= Len(sent)
      /\ Len(recvBuf) \in Nat /\ Len(socket) \in Nat /\ Len(sendBuf) \in Nat
  BY <1>1, LenProperties DEF IPCInv
<1>3. HeaderSize \in Nat /\ HeaderSize > 0 /\ MaxSize \in Nat
  BY IPCAssumption
<1>4. Len(recvBuf) >= HeaderSize /\ Len(recvBuf) >= HeaderSize + PayloadSize(recvBuf)
  BY DEF IsComplete
<1>5. /\ Len(Stream) = Len(recvBuf) + Len(socket) + Len(sendBuf)
      /\ \A i \in 1 .. Len(recvBuf) : Stream[i] = recvBuf[i]
  BY <1>1, StreamShape DEF Stream
<1>6. Len(got) < Len(sent)
  <2>1. Len(Stream) = End(Len(sent)) - End(Len(got))
    BY DEF IPCInv, StreamWhole
  <2>2. Len(Stream) > 0
    BY <1>2, <1>3, <1>4, <1>5
  <2>3. Len(got) # Len(sent)
    <3> SUFFICES ASSUME Len(got) = Len(sent) PROVE FALSE
      OBVIOUS
    <3>1. End(Len(sent)) \in Int
      <4>1. CASE Len(sent) = 0
        BY <4>1 DEF End
      <4>2. CASE Len(sent) # 0
        <5>1. Len(sent) \in 1 .. Len(ends)
          BY <4>2, <1>2 DEF IPCInv, FramesAdjoin
        <5>2. ends[Len(sent)] \in Nat
          BY <5>1, <1>1, ElementOfSeq
        <5> QED
          BY <5>2, <4>2 DEF End
      <4> QED
        BY <4>1, <4>2
    <3>2. End(Len(got)) = End(Len(sent))
      OBVIOUS
    <3> QED
      BY <3>1, <3>2, <2>1, <2>2
  <2> QED
    BY <2>3, <1>2
<1> DEFINE m == sent[Len(got) + 1]
<1>7. m \in Messages
  <2>1. Len(got) + 1 \in 1 .. Len(sent)
    BY <1>2, <1>6
  <2> QED
    BY <2>1, <1>1, ElementOfSeq
<1> DEFINE p == Serialize[m]
<1>8. ASSUME NEW j \in 1 .. HeaderSize + MaxSize, j <= FrameSize(m), j <= Len(recvBuf)
      PROVE  recvBuf[j] = Frame(m)[j]
  <2>1. Len(got) + 1 \in Len(got) + 1 .. Len(sent) /\ Len(got) + 1 - 1 = Len(got)
    BY <1>2, <1>6
  <2>2. Stream[End(Len(got)) - End(Len(got)) + j] = Frame(m)[j]
    BY <2>1, <1>8 DEF IPCInv, StreamWhole
  <2>3. End(Len(got)) \in Int
    <3>1. CASE Len(got) = 0
      BY <3>1 DEF End
    <3>2. CASE Len(got) # 0
      <4>1. Len(got) \in 1 .. Len(ends)
        BY <3>2, <1>2 DEF IPCInv, FramesAdjoin
      <4>2. ends[Len(got)] \in Nat
        BY <4>1, <1>1, ElementOfSeq
      <4> QED
        BY <4>2, <3>2 DEF End
    <3> QED
      BY <3>1, <3>2
  <2>4. End(Len(got)) - End(Len(got)) + j = j /\ j \in 1 .. Len(recvBuf)
    BY <2>3, <1>2, <1>3, <1>8
  <2> QED
    BY <2>2, <2>4, <1>5
<1>9. /\ p \in Seq(Byte) /\ Len(p) \in 0 .. MaxSize
      /\ Htonl[Len(p)] \in Seq(Byte) /\ Len(Htonl[Len(p)]) = HeaderSize
      /\ FrameSize(m) = HeaderSize + Len(p)
      /\ FrameSize(m) <= HeaderSize + MaxSize
      /\ \A j \in 1 .. HeaderSize : Frame(m)[j] = Htonl[Len(p)][j]
      /\ \A j \in 1 .. Len(p) : Frame(m)[HeaderSize + j] = p[j]
  BY <1>7, FrameShape DEF FrameSize
<1> HIDE DEF m, p
<1>10. SubSeq(recvBuf, 1, HeaderSize) = Htonl[Len(p)]
  <2> DEFINE s == SubSeq(recvBuf, 1, HeaderSize)
  <2>1. /\ s \in Seq(Byte) /\ Len(s) = HeaderSize
        /\ \A i \in 1 .. HeaderSize : s[i] = recvBuf[i]
    <3>1. HeaderSize \in 0 .. Len(recvBuf)
      BY <1>2, <1>3, <1>4
    <3> QED
      BY <3>1, <1>1, CutShape
  <2>2. ASSUME NEW i \in 1 .. HeaderSize PROVE s[i] = Htonl[Len(p)][i]
    <3>1. i \in 1 .. HeaderSize + MaxSize /\ i <= FrameSize(m) /\ i <= Len(recvBuf)
      BY <1>2, <1>3, <1>4, <1>9
    <3> QED
      BY <3>1, <2>1, <1>8, <1>9
  <2> HIDE DEF s
  <2>3. s = Htonl[Len(p)]
    BY <2>1, <2>2, <1>9, SeqEqual
  <2> QED
    BY <2>3 DEF s
<1>11. PayloadSize(recvBuf) = Len(p)
  <2>1. \A k \in 0 .. MaxSize : Htonl[k] = Htonl[Len(p)] => k = Len(p)
    BY <1>9, IPCAssumption
  <2>2. \E k \in 0 .. MaxSize : Htonl[k] = SubSeq(recvBuf, 1, HeaderSize)
    BY <1>9, <1>10
  <2>3. \A k \in 0 .. MaxSize : Htonl[k] = SubSeq(recvBuf, 1, HeaderSize) => k = Len(p)
    BY <2>1, <1>10
  <2> QED
    BY <2>2, <2>3 DEF PayloadSize
<1>12. Payload(recvBuf) = p
  <2> DEFINE lo == HeaderSize + 1
  <2> DEFINE hi == HeaderSize + Len(p)
  <2> DEFINE s == SubSeq(recvBuf, lo, hi)
  <2>1. lo \in Int /\ hi \in Int /\ hi - lo + 1 = Len(p) /\ hi <= Len(recvBuf)
        /\ lo >= 1 /\ (lo <= hi <=> Len(p) > 0) /\ Len(p) \in Nat
    BY <1>2, <1>3, <1>4, <1>9, <1>11
  <2>2. \A i \in lo .. hi : recvBuf[i] \in Byte
    <3>1. \A i \in lo .. hi : i \in 1 .. Len(recvBuf)
      BY <2>1, <1>2
    <3> QED
      BY <3>1, <1>1, ElementOfSeq
  <2>3. /\ s \in Seq(Byte)
        /\ Len(s) = IF lo <= hi THEN hi - lo + 1 ELSE 0
        /\ \A i \in 1 .. hi - lo + 1 : s[i] = recvBuf[lo + i - 1]
    <3> HIDE DEF lo, hi
    <3> QED
      BY <2>1, <2>2, SubSeqProperties
  <2>4. Len(s) = Len(p)
    BY <2>1, <2>3
  <2>5. ASSUME NEW i \in 1 .. Len(p) PROVE s[i] = p[i]
    <3>1. s[i] = recvBuf[lo + i - 1]
      BY <2>1, <2>3
    <3>2. /\ HeaderSize + i \in 1 .. HeaderSize + MaxSize
          /\ HeaderSize + i <= FrameSize(m) /\ HeaderSize + i <= Len(recvBuf)
          /\ lo + i - 1 = HeaderSize + i
      <4>1. i \in Nat /\ i >= 1 /\ i <= Len(p) /\ i <= MaxSize
        BY <2>1, <1>3, <1>9
      <4>2. HeaderSize + i <= FrameSize(m)
        BY <4>1, <2>1, <1>3, <1>9
      <4> HIDE DEF s
      <4> QED
        BY <4>1, <4>2, <2>1, <1>2, <1>3
    <3>3. recvBuf[HeaderSize + i] = Frame(m)[HeaderSize + i]
      BY <3>2, <1>8
    <3> QED
      BY <3>1, <3>2, <3>3, <1>9
  <2>6. s = p
    <3> HIDE DEF s
    <3> QED
      BY <2>3, <2>4, <2>5, <1>9, SeqEqual
  <2> QED
    BY <2>6, <1>11 DEF Payload
<1> QED
  BY <1>4, <1>6, <1>7, <1>9, <1>11, <1>12 DEF m, p

\* receive_message() takes the frame of the message it returns off the stream.
LEMMA ReceiveShape ==
    ASSUME IPCInv, ReceiveMessage
    PROVE  /\ Len(got) < Len(sent)
           /\ sent[Len(got) + 1] \in Messages
           /\ got' = Append(got, sent[Len(got) + 1])
           /\ open' = open
           /\ recvBuf' = SubSeq(recvBuf, FrameSize(sent[Len(got) + 1]) + 1, Len(recvBuf))
           /\ FrameSize(sent[Len(got) + 1]) \in 0 .. Len(recvBuf)
           /\ UNCHANGED <<sendBuf, flushing, socket, sent, ends>>
<1> DEFINE m == sent[Len(got) + 1]
<1>1. socket = << >> /\ IsComplete(recvBuf) /\ open["receiver"]
  BY DEF ReceiveMessage
<1>2. /\ Len(got) < Len(sent) /\ m \in Messages
      /\ Payload(recvBuf) = Serialize[m]
      /\ FrameSize(m) <= Len(recvBuf)
      /\ HeaderSize + PayloadSize(recvBuf) = FrameSize(m)
  BY <1>1, FirstFrame
<1> HIDE DEF m
<1>3. Deserialized(Payload(recvBuf)) = {m}
  <2>1. \A x \in Messages : Serialize[x] = Serialize[m] => x = m
    BY <1>2, IPCAssumption
  <2> QED
    BY <2>1, <1>2 DEF Deserialized
<1>4. (CHOOSE x \in {m} : TRUE) = m /\ {m} # {}
  OBVIOUS
<1>5. got' = Append(got, m) /\ open' = [open EXCEPT !["receiver"] = TRUE]
  BY <1>3, <1>4 DEF ReceiveMessage
<1>6. open' = open
  BY <1>1, <1>5 DEF IPCInv, TypeOK
<1>7. recvBuf' = SubSeq(recvBuf, FrameSize(m) + 1, Len(recvBuf))
  BY <1>2 DEF ReceiveMessage, Rest
<1>8. FrameSize(m) \in 0 .. Len(recvBuf)
  <2>1. FrameSize(m) \in Nat
    BY <1>2, FrameShape
  <2>2. Len(recvBuf) \in Nat
    BY LenProperties DEF IPCInv, TypeOK
  <2> QED
    BY <2>1, <2>2, <1>2
<1> QED
  BY <1>2, <1>5, <1>6, <1>7, <1>8 DEF m, ReceiveMessage

LEMMA ReceiveKeeps ==
    ASSUME IPCInv, ReceiveMessage
    PROVE  IPCInv'
<1>1. /\ sendBuf \in Seq(Byte) /\ socket \in Seq(Byte) /\ recvBuf \in Seq(Byte)
      /\ sent \in Seq(Messages) /\ got \in Seq(Messages) /\ ends \in Seq(Nat)
      /\ open \in [Ends -> BOOLEAN] /\ flushing \in BOOLEAN
  BY DEF IPCInv, TypeOK
<1>a. PICK n \in Nat : n = Len(sent)
  BY <1>1, LenProperties
<1>b. PICK g \in Nat : g = Len(got)
  BY <1>1, LenProperties
<1>c. PICK m : m = sent[g + 1]
  OBVIOUS
<1>d. PICK f : f = FrameSize(m)
  OBVIOUS
<1>2. /\ g < n /\ m \in Messages /\ f \in 0 .. Len(recvBuf)
      /\ got' = Append(got, m) /\ open' = open
      /\ recvBuf' = SubSeq(recvBuf, f + 1, Len(recvBuf))
      /\ UNCHANGED <<sendBuf, flushing, socket, sent, ends>>
  BY <1>a, <1>b, <1>c, <1>d, ReceiveShape
<1>3. /\ got' \in Seq(Messages) /\ Len(got') = g + 1
  BY <1>1, <1>2, <1>b, AppendProperties
<1>4. \A i : End(i)' = End(i)
  BY <1>2 DEF End
<1>5. Len(recvBuf) \in Nat /\ f \in Nat
  BY <1>1, <1>2, LenProperties
<1>6. \A i \in 0 .. n : End(i) \in Nat
  <2>1. \A i \in 1 .. n : ends[i] \in Nat
    BY <1>1, <1>a, ElementOfSeq DEF IPCInv, FramesAdjoin
  <2> QED
    BY <2>1 DEF End
<1>7. /\ \A i \in 1 .. n : End(i) = End(i - 1) + FrameSize(sent[i])
      /\ \A i, j \in 0 .. n : i <= j => End(i) <= End(j)
  BY <1>a DEF IPCInv, FramesAdjoin
<1>8. End(g + 1) = End(g) + f
  <2>1. g + 1 \in 1 .. n /\ g + 1 - 1 = g
    BY <1>2
  <2> QED
    BY <2>1, <1>7, <1>c, <1>d
<1>9. /\ Stream' \in Seq(Byte) /\ recvBuf' \in Seq(Byte)
      /\ Len(Stream') = Len(Stream) - f
      /\ Len(Stream') \in Nat
      /\ \A i \in 1 .. Len(Stream') : Stream'[i] = Stream[f + i]
  <2> DEFINE A == SubSeq(recvBuf, 1, f)
  <2> DEFINE B == SubSeq(recvBuf, f + 1, Len(recvBuf))
  <2>1. A \in Seq(Byte) /\ Len(A) = f /\ B \in Seq(Byte) /\ A \o B = recvBuf
    BY <1>1, <1>2, CutShape, CutJoin
  <2>2. Stream' = (B \o socket) \o sendBuf
    BY <1>2 DEF Stream
  <2> HIDE DEF A, B
  <2>3. (A \o B) \o socket = A \o (B \o socket) /\ B \o socket \in Seq(Byte)
    BY <2>1, <1>1, StreamShape, ConcatProperties
  <2> DEFINE C == B \o socket
  <2>4. C \in Seq(Byte)
    BY <2>3
  <2> HIDE DEF C
  <2>5. (A \o C) \o sendBuf = A \o (C \o sendBuf)
    <3>1. A \in Seq(Byte) /\ C \in Seq(Byte) /\ sendBuf \in Seq(Byte)
      BY <2>1, <2>4, <1>1
    <3> QED
      BY <3>1, StreamShape
  <2> DEFINE T == C \o sendBuf
  <2>6. T \in Seq(Byte) /\ Len(T) \in Nat
    BY <2>4, <1>1, ConcatProperties, LenProperties
  <2>7. Stream = A \o T
    BY <2>1, <2>3, <2>5 DEF Stream, C
  <2>8. Stream' = T
    BY <2>2 DEF C
  <2> HIDE DEF T
  <2>9. /\ Len(A \o T) = f + Len(T)
        /\ \A i \in 1 .. f + Len(T) : (A \o T)[i] = IF i <= f THEN A[i] ELSE T[i - f]
    BY <2>1, <2>6, ConcatProperties
  <2>10. ASSUME NEW i \in 1 .. Len(T) PROVE T[i] = (A \o T)[f + i]
    <3>1. f + i \in 1 .. f + Len(T) /\ ~(f + i <= f) /\ f + i - f = i
      BY <2>6, <1>5
    <3>2. PICK k \in Int : k = f + i
      BY <2>6, <1>5
    <3>3. k \in 1 .. f + Len(T) /\ ~(k <= f) /\ k - f = i
      BY <3>2, <2>6, <1>5
    <3>4. (A \o T)[k] = T[i]
      BY <3>3, <2>9
    <3> QED
      BY <3>2, <3>4
  <2>11. recvBuf' \in Seq(Byte)
    BY <2>1, <1>2 DEF B
  <2>12. Len(T) = Len(A \o T) - f
    BY <2>6, <2>9, <1>5
  <2> QED
    BY <2>6, <2>7, <2>8, <2>10, <2>11, <2>12
<1>10. Len(Stream) = End(n) - End(g)
  BY <1>a, <1>b DEF IPCInv, StreamWhole
<1>11. End(n) \in Nat /\ End(g) \in Nat
  <2>1. n \in 0 .. n /\ g \in 0 .. n
    BY <1>2
  <2> QED
    BY <2>1, <1>6
<1>12. Len(Stream') = End(n) - End(g + 1)
  BY <1>5, <1>8, <1>9, <1>10, <1>11
<1>13. ASSUME NEW i \in g + 2 .. n, NEW j \in 1 .. HeaderSize + MaxSize,
              j <= FrameSize(sent[i])
       PROVE  Stream'[End(i - 1) - End(g + 1) + j] = Frame(sent[i])[j]
  <2>1. /\ i \in g + 1 .. n /\ i \in 1 .. n /\ i \in 0 .. n /\ i - 1 \in 0 .. n
        /\ g + 1 \in 0 .. n /\ g + 1 <= i - 1 /\ n \in 0 .. n /\ i <= n
    BY <1>2
  <2>2. Stream[End(i - 1) - End(g) + j] = Frame(sent[i])[j]
    BY <2>1, <1>13, <1>a, <1>b DEF IPCInv, StreamWhole
  <2>3. /\ End(i) = End(i - 1) + FrameSize(sent[i]) /\ End(i) <= End(n)
        /\ End(g + 1) <= End(i - 1)
    BY <2>1, <1>7
  <2>4. End(i - 1) \in Nat /\ End(i) \in Nat /\ End(g + 1) \in Nat
    BY <2>1, <1>6
  <2>5. sent[i] \in Messages
    BY <2>1, <1>1, <1>a, ElementOfSeq
  <2>6. FrameSize(sent[i]) \in Nat
    BY <2>5, FrameShape
  <2>7. j \in Nat /\ j >= 1
    BY IPCAssumption
  <2> DEFINE o == End(i - 1) - End(g + 1)
  <2>8. /\ o \in Nat /\ Len(Stream') >= o + FrameSize(sent[i])
        /\ End(i - 1) - End(g) = f + o
    <3>1. o \in Nat /\ End(i - 1) - End(g) = f + o
      BY <2>3, <2>4, <1>5, <1>8, <1>11
    <3>2. End(n) >= End(i - 1) + FrameSize(sent[i])
      BY <2>3
    <3>3. Len(Stream') >= (End(i - 1) + FrameSize(sent[i])) - End(g + 1)
      BY <3>2, <2>4, <2>6, <1>11, <1>12
    <3> QED
      BY <3>1, <3>3, <2>4, <2>6
  <2> HIDE DEF o
  <2>9. o + j \in 1 .. Len(Stream') /\ f + (o + j) = f + o + j
    BY <2>6, <2>7, <2>8, <1>5, <1>9, <1>13
  <2>10. Stream'[o + j] = Stream[f + (o + j)]
    BY <2>9, <1>9
  <2> QED
    BY <2>2, <2>8, <2>9, <2>10 DEF o
<1>14. TypeOK'
  BY <1>1, <1>2, <1>3, <1>9 DEF TypeOK
<1>15. FramesAdjoin'
  BY <1>2, <1>4, <1>7, <1>a DEF FramesAdjoin, IPCInv
<1>16. StreamWhole'
  <2>1. End(Len(sent))' = End(n) /\ End(Len(got))' = End(g + 1)
        /\ Len(sent') = n /\ sent' = sent /\ g + 1 + 1 = g + 2
    BY <1>2, <1>3, <1>a DEF End
  <2> QED
    BY <2>1, <1>3, <1>4, <1>12, <1>13 DEF StreamWhole
<1>17. Len(got') <= Len(sent')
  BY <1>2, <1>3, <1>a
<1> QED
  BY <1>2, <1>14, <1>15, <1>16, <1>17 DEF IPCInv

LEMMA NextIPCInv ==
    ASSUME IPCInv, [Next]_vars
    PROVE  IPCInv'
<1>1. ASSUME NEW m \in Messages, SendMessage(m) PROVE IPCInv'
  BY <1>1, SendKeeps
<1>2. ASSUME NEW n \in 1 .. Capacity, Write(n) PROVE IPCInv'
  BY <1>2, WriteKeeps
<1>3. ASSUME NEW n \in 1 .. Capacity, Read(n) PROVE IPCInv'
  BY <1>3, ReadKeeps
<1>4. CASE ReceiveMessage
  BY <1>4, ReceiveKeeps
<1>5. ASSUME UNCHANGED <<sendBuf, socket, recvBuf, sent, got, ends>>,
             open' \in [Ends -> BOOLEAN], flushing' \in BOOLEAN,
             flushing' => open'["sender"]
      PROVE  IPCInv'
  <2>1. TypeOK'
    BY <1>5 DEF IPCInv, TypeOK
  <2>2. Stream' = Stream
    BY <1>5 DEF Stream
  <2> QED
    BY <2>1, <2>2, <1>5, SameStream
<1>6. open \in [Ends -> BOOLEAN] /\ flushing \in BOOLEAN /\ (flushing => open["sender"])
  BY DEF IPCInv, TypeOK
<1>7. CASE Flushed
  BY <1>5, <1>6, <1>7 DEF Flushed
<1>8. CASE WouldBlock
  BY <1>5, <1>6, <1>8 DEF WouldBlock, Retained
<1>9. CASE WriteFails
  BY <1>5, <1>6, <1>9 DEF WriteFails
<1>10. CASE EndOfStream
  <2>1. /\ open' = [open EXCEPT !["receiver"] = FALSE] /\ flushing' = flushing
        /\ UNCHANGED <<sendBuf, socket, recvBuf, sent, got, ends>>
    BY <1>10 DEF EndOfStream
  <2>2. open' \in [Ends -> BOOLEAN] /\ open'["sender"] = open["sender"]
    BY <2>1, <1>6 DEF Ends
  <2> QED
    BY <2>1, <2>2, <1>5, <1>6
<1>11. ASSUME NEW e \in Ends, Exit(e) PROVE IPCInv'
  <2>1. /\ open' = [open EXCEPT ![e] = FALSE] /\ flushing' = (flushing /\ e # "sender")
        /\ UNCHANGED <<sendBuf, socket, recvBuf, sent, got, ends>>
    BY <1>11 DEF Exit
  <2>2. /\ open' \in [Ends -> BOOLEAN] /\ flushing' \in BOOLEAN
        /\ e # "sender" => open'["sender"] = open["sender"]
    BY <2>1, <1>6 DEF Ends
  <2> QED
    BY <2>1, <2>2, <1>5, <1>6
<1>12. CASE UNCHANGED vars
  BY <1>5, <1>6, <1>12 DEF vars
<1> QED
  BY <1>1, <1>2, <1>3, <1>4, <1>7, <1>8, <1>9, <1>10, <1>11, <1>12
  DEF Next, SenderStep, ReceiverStep

LEMMA AlwaysIPCInv == Spec => []IPCInv
<1>1. IPCInv /\ [Next]_vars => IPCInv'
  BY NextIPCInv
<1> QED
  BY <1>1, InitIPCInv, PTL DEF Spec

\* Whatever part of the bytes each send() and recv() takes, wherever the ends
\* close, and for all messages and sizes: the channel holds exactly the frames
\* of the messages that were sent and not returned (ipc.cpp, send_message()
\* and receive_message()).
THEOREM StreamIsWhole == Spec => []StreamWhole
<1>1. IPCInv => StreamWhole
  BY DEF IPCInv
<1> QED
  BY <1>1, AlwaysIPCInv, PTL

-----------------------------------------------------------------------------
(* The framing implements a queue. *)

\* Where the elements of a suffix are.
LEMMA SuffixShape ==
    ASSUME NEW s \in Seq(Messages), NEW k \in 1 .. Len(s) + 1
    PROVE  /\ SubSeq(s, k, Len(s)) \in Seq(Messages)
           /\ Len(SubSeq(s, k, Len(s))) = Len(s) - k + 1
           /\ \A i \in 1 .. Len(s) - k + 1 : SubSeq(s, k, Len(s))[i] = s[k + i - 1]
<1>1. Len(s) \in Nat
  BY LenProperties
<1>2. k \in Int /\ Len(s) \in Int /\ \A i \in k .. Len(s) : i \in 1 .. Len(s)
  BY <1>1
<1>3. \A i \in k .. Len(s) : s[i] \in Messages
  BY <1>2, ElementOfSeq
<1>4. /\ SubSeq(s, k, Len(s)) \in Seq(Messages)
      /\ Len(SubSeq(s, k, Len(s))) = IF k <= Len(s) THEN Len(s) - k + 1 ELSE 0
      /\ \A i \in 1 .. Len(s) - k + 1 : SubSeq(s, k, Len(s))[i] = s[k + i - 1]
  BY <1>2, <1>3, SubSeqProperties
<1> QED
  BY <1>1, <1>4

\* send_message() is an enqueue.
LEMMA SendEnqueues ==
    ASSUME NEW s \in Seq(Messages), NEW m \in Messages, NEW k \in 1 .. Len(s) + 1
    PROVE  SubSeq(Append(s, m), k, Len(Append(s, m))) = Append(SubSeq(s, k, Len(s)), m)
<1> DEFINE t == Append(s, m)
<1>1. Len(s) \in Nat
  BY LenProperties
<1>2. /\ t \in Seq(Messages) /\ Len(t) = Len(s) + 1 /\ t[Len(s) + 1] = m
      /\ \A i \in 1 .. Len(s) : t[i] = s[i]
  BY AppendProperties
<1> HIDE DEF t
<1> DEFINE x == SubSeq(t, k, Len(t))
<1> DEFINE y == SubSeq(s, k, Len(s))
<1> DEFINE z == Append(y, m)
<1>3. k \in 1 .. Len(t) + 1 /\ k <= Len(t)
  BY <1>1, <1>2
<1>4. /\ x \in Seq(Messages) /\ Len(x) = Len(t) - k + 1
      /\ \A i \in 1 .. Len(t) - k + 1 : x[i] = t[k + i - 1]
  BY <1>2, <1>3, SuffixShape
<1>5. /\ y \in Seq(Messages) /\ Len(y) = Len(s) - k + 1
      /\ \A i \in 1 .. Len(s) - k + 1 : y[i] = s[k + i - 1]
  BY SuffixShape
<1> HIDE DEF x, y
<1>6. /\ z \in Seq(Messages) /\ Len(z) = Len(y) + 1 /\ z[Len(y) + 1] = m
      /\ \A i \in 1 .. Len(y) : z[i] = y[i]
  <2>1. y \in Seq(Messages)
    BY <1>5
  <2> QED
    BY <2>1, AppendProperties
<1> HIDE DEF z
<1>7. Len(x) = Len(z)
  BY <1>1, <1>2, <1>4, <1>5, <1>6
<1>8. ASSUME NEW i \in 1 .. Len(x) PROVE x[i] = z[i]
  <2>1. i \in 1 .. Len(t) - k + 1 /\ x[i] = t[k + i - 1]
    BY <1>4
  <2>2. CASE i = Len(y) + 1
    <3>1. k + i - 1 = Len(s) + 1
      BY <2>2, <1>1, <1>5
    <3> QED
      BY <3>1, <2>1, <2>2, <1>2, <1>6
  <2>3. CASE i # Len(y) + 1
    <3>1. PICK q \in Int : q = k + i - 1
      BY <2>1, <1>1, <1>2
    <3>2. i \in 1 .. Len(s) - k + 1 /\ i \in 1 .. Len(y) /\ q \in 1 .. Len(s)
      <4>1. k \in Int /\ 1 <= k /\ Len(y) = Len(s) - k + 1
        BY <1>1, <1>5
      <4>2. i \in Int /\ 1 <= i /\ i <= Len(t) - k + 1 /\ Len(t) = Len(s) + 1
        BY <4>1, <2>1, <1>1, <1>2
      <4>3. i <= Len(y)
        BY <4>1, <4>2, <2>3, <1>1
      <4> QED
        BY <4>1, <4>2, <4>3, <3>1, <1>1
    <3>3. x[i] = s[q] /\ y[i] = s[q] /\ z[i] = y[i]
      BY <3>1, <3>2, <2>1, <1>2, <1>5, <1>6
    <3> QED
      BY <3>3
  <2> QED
    BY <2>2, <2>3
<1>9. x = z
  BY <1>4, <1>6, <1>7, <1>8, SeqEqual
<1> QED
  BY <1>9 DEF x, y, z, t

\* receive_message() is a dequeue.
LEMMA ReceiveDequeues ==
    ASSUME NEW s \in Seq(Messages), NEW k \in 1 .. Len(s)
    PROVE  /\ SubSeq(s, k, Len(s)) # << >>
           /\ Head(SubSeq(s, k, Len(s))) = s[k]
           /\ Tail(SubSeq(s, k, Len(s))) = SubSeq(s, k + 1, Len(s))
<1>1. Len(s) \in Nat
  BY LenProperties
<1>2. k \in 1 .. Len(s) + 1 /\ Len(s) \in k .. Len(s)
  BY <1>1
<1>3. Len(SubSeq(s, k, Len(s))) = Len(s) - k + 1
  BY <1>2, SuffixShape
<1>4. SubSeq(s, k, Len(s)) # << >>
  <2>1. Len(SubSeq(s, k, Len(s))) # 0
    BY <1>1, <1>2, <1>3
  <2> QED
    BY <2>1, EmptySeq
<1> QED
  BY <1>2, <1>4, HeadTailOfSubSeq

\* Each step of the framing is a step of the queue, or none.
LEMMA NextRefines ==
    ASSUME IPCInv, [Next]_vars
    PROVE  [Queue!QueueNext]_(Queue!queueVars)
<1>1. /\ sent \in Seq(Messages) /\ got \in Seq(Messages)
      /\ Len(sent) \in Nat /\ Len(got) \in Nat /\ Len(got) <= Len(sent)
      /\ open \in [Ends -> BOOLEAN] /\ (flushing => open["sender"])
  BY LenProperties DEF IPCInv, TypeOK
<1>2. Len(got) + 1 \in 1 .. Len(sent) + 1
  BY <1>1
<1>3. ASSUME UNCHANGED <<sent, got, open>> PROVE UNCHANGED Queue!queueVars
  BY <1>3 DEF Queue!queueVars
<1>4. ASSUME NEW m \in Messages, SendMessage(m) PROVE Queue!SendMessage(m)
  <2>1. sent' = Append(sent, m) /\ got' = got /\ open' = open
    BY <1>4 DEF SendMessage
  <2>2. SubSeq(sent', Len(got') + 1, Len(sent')) =
            Append(SubSeq(sent, Len(got) + 1, Len(sent)), m)
    BY <2>1, <1>1, <1>2, SendEnqueues
  <2> QED
    BY <2>1, <2>2 DEF Queue!SendMessage
<1>5. CASE ReceiveMessage
  <2> DEFINE k == Len(got) + 1
  <2>1. /\ Len(got) < Len(sent) /\ sent[k] \in Messages
        /\ got' = Append(got, sent[k]) /\ open' = open /\ sent' = sent
    BY <1>5, ReceiveShape
  <2>2. open["sender"] /\ open["receiver"]
    BY <1>5 DEF ReceiveMessage
  <2>3. k \in 1 .. Len(sent)
    BY <2>1, <1>1
  <2>4. /\ SubSeq(sent, k, Len(sent)) # << >>
        /\ Head(SubSeq(sent, k, Len(sent))) = sent[k]
        /\ Tail(SubSeq(sent, k, Len(sent))) = SubSeq(sent, k + 1, Len(sent))
    BY <2>3, <1>1, ReceiveDequeues
  <2>5. Len(got') = k
    BY <2>1, <1>1, AppendProperties
  <2>6. Queue!DeliverMessage
    BY <2>1, <2>2, <2>4, <2>5 DEF Queue!DeliverMessage
  <2> QED
    BY <2>6 DEF Queue!QueueNext
<1>6. CASE (\E n \in 1 .. Capacity : Write(n) \/ Read(n)) \/ Flushed \/ WouldBlock
  <2>1. UNCHANGED <<sent, got, open>>
    BY <1>6 DEF Write, Read, Flushed, WouldBlock
  <2> QED
    BY <2>1, <1>3
<1>7. CASE WriteFails \/ EndOfStream
  <2>1. /\ UNCHANGED <<sent, got>>
        /\ ~(open["sender"] /\ open["receiver"]) /\ ~(open'["sender"] /\ open'["receiver"])
    BY <1>1, <1>7 DEF WriteFails, EndOfStream, Ends
  <2> QED
    BY <2>1 DEF Queue!queueVars
<1>8. ASSUME NEW e \in Ends, Exit(e) PROVE Queue!Break
  <2>1. UNCHANGED <<sent, got>> /\ ~(open'["sender"] /\ open'["receiver"])
    BY <1>1, <1>8 DEF Exit, Ends
  <2> QED
    BY <2>1 DEF Queue!Break
<1>9. CASE UNCHANGED vars
  BY <1>3, <1>9 DEF vars
<1> QED
  BY <1>4, <1>5, <1>6, <1>7, <1>8, <1>9
  DEF Next, SenderStep, ReceiverStep, Queue!QueueNext

\* For all messages, sizes and capacities: receive_message() returns what was
\* passed to send_message(), whole, once and in order, until an end closes.
THEOREM IPCImplementsQueue == Spec => ImplementsQueue
<1>1. Init => Queue!QueueInit
  <2> SUFFICES ASSUME Init PROVE Queue!QueueInit
    OBVIOUS
  <2>1. Len(sent) = 0 /\ Len(got) + 1 = 1 /\ got = << >>
    BY EmptySeq DEF Init
  <2>2. SubSeq(sent, 1, 0) = << >>
    BY SubSeqEmpty
  <2>3. open["sender"] /\ open["receiver"]
    BY DEF Init, Ends
  <2> QED
    BY <2>1, <2>2, <2>3 DEF Queue!QueueInit
<1>2. IPCInv /\ [Next]_vars => [Queue!QueueNext]_(Queue!queueVars)
  BY NextRefines
<1> QED
  BY <1>1, <1>2, AlwaysIPCInv, PTL DEF Spec, ImplementsQueue, Queue!QueueSpec
=============================================================================
