--------------------------- MODULE TcConsoleProofs --------------------------
(***************************************************************************)
(* Proofs about TcConsole, for any set of clients, any line lengths, any   *)
(* chunk, log and FIFO size.                                               *)
(***************************************************************************)
EXTENDS TcConsole, SequenceTheorems, TLAPS

-----------------------------------------------------------------------------
(* What taking the head of a FIFO, and joining two, does to its length.    *)
LEMMA TakeHead ==
    ASSUME NEW S, NEW q \in Seq(S), q # <<>>
    PROVE  /\ Head(q) \in S /\ Tail(q) \in Seq(S)
           /\ Len(q) \in Nat \ {0} /\ Len(Tail(q)) = Len(q) - 1
OBVIOUS

LEMMA Join ==
    ASSUME NEW S, NEW q \in Seq(S), NEW r \in Seq(S)
    PROVE  q \o r \in Seq(S) /\ Len(q \o r) = Len(q) + Len(r)
OBVIOUS

LEMMA Add ==
    ASSUME NEW S, NEW q \in Seq(S), NEW e \in S
    PROVE  Append(q, e) \in Seq(S)
OBVIOUS

LEMMA Nothing ==
    ASSUME NEW S
    PROVE  <<>> \in Seq(S) /\ Len(<<>>) = 0
OBVIOUS

(* The log and the FIFO stay within their memory.                          *)
LEMMA StepTyped ==
    ASSUME TypeOK, [Next]_vars
    PROVE  TypeOK'
<1> USE ConsoleConstants
    DEF TypeOK, Bytes, Byte, Chunk, Least, clientVars, serverVars, fifoVars,
        irqVars
<1>1. CASE UNCHANGED vars  BY <1>1 DEF vars
<1>2. ASSUME NEW c \in Clients, Puts(c)  PROVE TypeOK'
  <2>1. len' \in [Clients -> Nat] /\ sent' \in [Clients -> Nat]
    BY <1>2 DEF Puts
  <2>2. line' \in [Clients -> 0 .. MaxLines]
    BY <1>2 DEF Puts
  <2> QED  BY <1>2, <2>1, <2>2 DEF Puts
<1>3. ASSUME NEW c \in Clients, Receive(c)  PROVE TypeOK'
  BY <1>3 DEF Receive
<1>4. CASE EmitByte
  <2> DEFINE b == Byte(cur, sent[cur] + i + 1)
  <2>1. cur \in Clients /\ i + 1 \in 0 .. ChunkMax
    BY <1>4 DEF EmitByte
  <2>2. b \in Bytes
    BY <2>1
  <2>3. log' \in Seq(Bytes) /\ Len(log') <= LogSize - 1
    <3> HIDE DEF b
    <3>1. CASE Len(log) >= LogSize - 1  BY <1>4, <3>1 DEF EmitByte, b
    <3>2. CASE ~(Len(log) >= LogSize - 1)
      <4>1. log' = Append(log, b)  BY <1>4, <3>2 DEF EmitByte, b
      <4> QED  BY <2>2, <3>2, <4>1
    <3> QED  BY <3>1, <3>2
  <2>4. hand' \in Seq(Bytes) /\ Len(hand') <= 1
    <3>1. hand' = <<b>>  BY <1>4 DEF EmitByte
    <3> QED  BY <2>2, <3>1
  <2> QED  BY <1>4, <2>1, <2>3, <2>4 DEF EmitByte
<1>5. CASE Answer
  <2>1. cur \in Clients /\ Chunk(cur) = i  BY <1>5 DEF Answer
  <2>2. sent' \in [Clients -> Nat]
    <3>1. sent' = [sent EXCEPT ![cur] = @ + i]  BY <1>5, <2>1 DEF Answer
    <3> QED  BY <2>1, <3>1
  <2> QED  BY <1>5, <2>2 DEF Answer
<1>6. CASE TestSpace  BY <1>6 DEF TestSpace, Go
<1>7. CASE AckStale  BY <1>7 DEF AckStale, Go, IrqAck
<1>8. CASE EnableTfl  BY <1>8 DEF EnableTfl, Go
<1>9. CASE Wake  BY <1>9 DEF Wake, Go
<1>10. CASE DisableTfl  BY <1>10 DEF DisableTfl, Go
<1>11. CASE AckTaken  BY <1>11 DEF AckTaken, Go, IrqAck
<1>12. CASE WriteTxData
  <2> HIDE DEF Bytes
  <2>1. fifo \o hand \in Seq(Bytes) /\ Len(fifo \o hand) = Len(fifo) + Len(hand)
    BY Join
  <2>2. Len(fifo) \in Nat /\ Len(hand) \in Nat
    OBVIOUS
  <2>3. fifo' \in Seq(Bytes) /\ Len(fifo') <= FifoSize
    BY <1>12, <2>1, <2>2 DEF WriteTxData
  <2>4. hand' \in Seq(Bytes) /\ Len(hand') <= 1
    BY <1>12, Nothing DEF WriteTxData
  <2> QED  BY <1>12, <2>3, <2>4 DEF WriteTxData, Go
<1>13. CASE Drain
  <2> HIDE DEF Bytes
  <2>1. /\ Head(fifo) \in Bytes /\ Tail(fifo) \in Seq(Bytes)
        /\ Len(fifo) \in Nat \ {0} /\ Len(Tail(fifo)) = Len(fifo) - 1
    BY <1>13, TakeHead DEF Drain
  <2>2. wire' \in Seq(Bytes)
    BY <1>13, <2>1, Add DEF Drain
  <2>3. fifo' \in Seq(Bytes) /\ Len(fifo') <= FifoSize
    BY <1>13, <2>1 DEF Drain
  <2> QED  BY <1>13, <2>2, <2>3 DEF Drain
<1>14. CASE Interrupt  BY <1>14 DEF Interrupt
<1>15. CASE BoundReached  BY <1>15 DEF BoundReached, vars
<1> QED
  BY <1>1, <1>2, <1>3, <1>4, <1>5, <1>6, <1>7, <1>8, <1>9,
     <1>10, <1>11, <1>12, <1>13, <1>14, <1>15
  DEF Next, Console, Asclin

(* A wake-up belongs to the wait that armed it.                            *)
LEMMA StepSignals ==
    ASSUME TypeOK, Signals, [Next]_vars
    PROVE  Signals'
<1> USE ConsoleConstants
    DEF TypeOK, Signals, Waiting, Arming, RoomWhenWoken, ToldOfSpace,
        clientVars, serverVars, fifoVars, irqVars
<1>1. CASE UNCHANGED vars  BY <1>1 DEF vars
<1>2. ASSUME NEW c \in Clients, Puts(c)  PROVE Signals'
  BY <1>2 DEF Puts
<1>3. ASSUME NEW c \in Clients, Receive(c)  PROVE Signals'
  BY <1>3 DEF Receive
<1>4. CASE EmitByte  BY <1>4 DEF EmitByte
<1>5. CASE Answer  BY <1>5 DEF Answer
<1>6. CASE TestSpace  BY <1>6 DEF TestSpace, Go
<1>7. CASE AckStale  BY <1>7 DEF AckStale, Go, IrqAck
<1>8. CASE EnableTfl  BY <1>8 DEF EnableTfl, Go
<1>9. CASE Wake  BY <1>9 DEF Wake, Go
<1>10. CASE DisableTfl  BY <1>10 DEF DisableTfl, Go
<1>11. CASE AckTaken  BY <1>11 DEF AckTaken, Go, IrqAck
<1>12. CASE WriteTxData  BY <1>12 DEF WriteTxData, Go
<1>13. CASE Drain
  <2>1. Len(fifo') = Len(fifo) - 1 /\ Len(fifo) \in Nat \ {0}
        /\ fifo' \in Seq(Bytes)
    BY <1>13, TakeHead DEF Drain
  <2>2. Arming /\ Prompt => fifo' # <<>>
    <3> SUFFICES ASSUME Arming, Prompt PROVE fifo' # <<>>
      OBVIOUS
    <3>1. Len(fifo) > 1
      BY <1>13 DEF Drain
    <3>2. Len(fifo') # 0
      BY ONLY <3>1, <2>1
    <3> QED  BY <3>2, Nothing
  <2> QED  BY <1>13, <2>1, <2>2 DEF Drain
<1>14. CASE Interrupt  BY <1>14 DEF Interrupt
<1>15. CASE BoundReached  BY <1>15 DEF BoundReached, vars
<1> QED
  BY <1>1, <1>2, <1>3, <1>4, <1>5, <1>6, <1>7, <1>8, <1>9,
     <1>10, <1>11, <1>12, <1>13, <1>14, <1>15
  DEF Next, Console, Asclin

LEMMA InitTyped == Init => TypeOK /\ Signals
<1> SUFFICES ASSUME Init PROVE TypeOK /\ Signals
  OBVIOUS
<1>1. TypeOK
  <2>1. <<>> \in Seq(Bytes) /\ Len(<<>>) = 0
    BY Nothing
  <2>2. log = <<>> /\ hand = <<>> /\ fifo = <<>> /\ wire = <<>>
    BY DEF Init
  <2>3. /\ log \in Seq(Bytes) /\ Len(log) <= LogSize - 1
        /\ hand \in Seq(Bytes) /\ Len(hand) <= 1
        /\ fifo \in Seq(Bytes) /\ Len(fifo) <= FifoSize
        /\ wire \in Seq(Bytes)
    BY ConsoleConstants, <2>1, <2>2
  <2>4. i \in 0 .. ChunkMax  BY ConsoleConstants DEF Init
  <2>5. /\ line \in [Clients -> 0 .. MaxLines]
        /\ len \in [Clients -> Nat] /\ sent \in [Clients -> Nat]
    BY ConsoleConstants DEF Init
  <2> QED  BY <2>3, <2>4, <2>5 DEF Init, TypeOK
<1>2. Signals
  BY ConsoleConstants
  DEF Init, Signals, Waiting, Arming, RoomWhenWoken, ToldOfSpace
<1> QED  BY <1>1, <1>2

-----------------------------------------------------------------------------
(* The stream of bytes, as sequences.                                      *)

(* A byte that moves from the FIFO to the wire stays where it is.          *)
LEMMA MovedOn ==
    ASSUME NEW S, NEW w \in Seq(S), NEW q \in Seq(S), q # <<>>
    PROVE  Append(w, Head(q)) \o Tail(q) = w \o q
<1> DEFINE h == Head(q)  r == Tail(q)
<1>1. /\ h \in S /\ r \in Seq(S) /\ Len(r) = Len(q) - 1
      /\ \A k \in 1 .. Len(r) : r[k] = q[k + 1]
      /\ h = q[1] /\ Len(q) \in Nat \ {0} /\ Len(w) \in Nat
  BY HeadTailProperties, EmptySeq, LenProperties
<1> HIDE DEF h, r
<1> DEFINE a == Append(w, h)
<1>2. /\ a \in Seq(S) /\ Len(a) = Len(w) + 1
      /\ \A k \in 1 .. Len(w) : a[k] = w[k]
      /\ a[Len(w) + 1] = h
  BY <1>1, AppendProperties
<1> HIDE DEF a
<1>3. /\ a \o r \in Seq(S) /\ w \o q \in Seq(S)
      /\ Len(a \o r) = Len(a) + Len(r) /\ Len(w \o q) = Len(w) + Len(q)
      /\ \A k \in 1 .. Len(a) + Len(r) :
            (a \o r)[k] = IF k <= Len(a) THEN a[k] ELSE r[k - Len(a)]
      /\ \A k \in 1 .. Len(w) + Len(q) :
            (w \o q)[k] = IF k <= Len(w) THEN w[k] ELSE q[k - Len(w)]
  BY <1>1, <1>2, ConcatProperties
<1>4. \A k \in 1 .. Len(a \o r) : (a \o r)[k] = (w \o q)[k]
  <2> SUFFICES ASSUME NEW k \in 1 .. Len(w) + Len(q)
               PROVE  (a \o r)[k] = (w \o q)[k]
    BY <1>1, <1>2, <1>3
  <2>1. CASE k <= Len(w)  BY <2>1, <1>1, <1>2, <1>3
  <2>2. CASE k = Len(w) + 1  BY <2>2, <1>1, <1>2, <1>3
  <2>3. CASE k > Len(w) + 1
    <3>0. Len(a) \in Nat /\ Len(r) \in Nat
      BY <1>1, <1>2
    <3>1. k - Len(a) \in 1 .. Len(r) /\ (k - Len(a)) + 1 = k - Len(w)
      BY <2>3, <1>1, <1>2
    <3>2. r[k - Len(a)] = q[k - Len(w)]
      BY ONLY <3>1, <1>1
    <3>3. (a \o r)[k] = r[k - Len(a)]
      BY <2>3, <3>0, <1>1, <1>2, <1>3
    <3>4. (w \o q)[k] = q[k - Len(w)]
      BY <2>3, <1>1, <1>3
    <3> QED  BY <3>2, <3>3, <3>4
  <2>4. k <= Len(w) \/ k = Len(w) + 1 \/ k > Len(w) + 1
    BY ONLY <1>1, k \in 1 .. Len(w) + Len(q)
  <2> QED  BY <2>1, <2>2, <2>3, <2>4
<1>5. Len(a \o r) = Len(w \o q)  BY <1>1, <1>2, <1>3
<1>6. a \o r = w \o q  BY <1>3, <1>4, <1>5, SeqEqual
<1> QED  BY <1>6 DEF a, h, r

(* The first n elements of a sequence that grows, n fixed.                 *)
LEMMA PrefixGrows ==
    ASSUME NEW S, NEW s \in Seq(S), NEW e \in S, NEW n \in Nat,
           NEW l, l = SubSeq(s, 1, Least(Len(s), n))
    PROVE  /\ Len(l) >= n =>
                 l = SubSeq(Append(s, e), 1, Least(Len(Append(s, e)), n))
           /\ Len(l) < n =>
                 Append(l, e) = SubSeq(Append(s, e), 1,
                                       Least(Len(Append(s, e)), n))
<1> DEFINE a == Append(s, e)
<1>1. /\ a \in Seq(S) /\ Len(a) = Len(s) + 1 /\ Len(s) \in Nat
      /\ \A k \in 1 .. Len(s) : a[k] = s[k]
      /\ \A k \in 1 .. Len(a) : a[k] \in S
      /\ \A k \in 1 .. Len(s) : s[k] \in S
  BY AppendProperties, LenProperties, ElementOfSeq
<1> HIDE DEF a
<1>2. CASE Len(s) < n
  <2>1. l = s  BY <1>1, <1>2, SubSeqFull DEF Least
  <2>2. SubSeq(a, 1, Least(Len(a), n)) = a
    BY <1>1, <1>2, SubSeqFull DEF Least
  <2>3. Len(l) < n /\ Append(l, e) = a
    BY <1>2, <2>1 DEF a
  <2>4. Len(l) < n /\ ~(Len(l) >= n)
    BY ONLY <1>1, <1>2, <2>1
  <2> QED  BY <2>2, <2>3, <2>4 DEF a
<1>3. CASE Len(s) >= n
  <2>1. l = SubSeq(s, 1, n)  BY <1>1, <1>3 DEF Least
  <2>2. Least(Len(a), n) = n  BY <1>1, <1>3 DEF Least
  <2>3. \A k \in 1 .. n : s[k] \in S /\ a[k] \in S /\ a[k] = s[k]
    BY <1>1, <1>3
  <2>4. /\ l \in Seq(S) /\ Len(l) = n
        /\ \A k \in 1 .. n : l[k] = s[k]
    <3>1. Len(SubSeq(s, 1, n)) = IF 1 <= n THEN n - 1 + 1 ELSE 0
      BY <2>3, SubSeqProperties
    <3>2. \A k \in 1 .. n - 1 + 1 : SubSeq(s, 1, n)[k] = s[1 + k - 1]
      BY <2>3, SubSeqProperties
    <3>3. SubSeq(s, 1, n) \in Seq(S)
      BY <2>3, SubSeqProperties
    <3>4. 1 .. n - 1 + 1 = 1 .. n /\ \A k \in 1 .. n : 1 + k - 1 = k
      OBVIOUS
    <3>5. Len(SubSeq(s, 1, n)) = n
      BY <3>1
    <3> QED  BY <2>1, <3>2, <3>3, <3>4, <3>5
  <2>5. /\ SubSeq(a, 1, n) \in Seq(S) /\ Len(SubSeq(a, 1, n)) = n
        /\ \A k \in 1 .. n : SubSeq(a, 1, n)[k] = a[k]
    <3>1. Len(SubSeq(a, 1, n)) = IF 1 <= n THEN n - 1 + 1 ELSE 0
      BY <2>3, SubSeqProperties
    <3>2. \A k \in 1 .. n - 1 + 1 : SubSeq(a, 1, n)[k] = a[1 + k - 1]
      BY <2>3, SubSeqProperties
    <3>3. SubSeq(a, 1, n) \in Seq(S)
      BY <2>3, SubSeqProperties
    <3>4. 1 .. n - 1 + 1 = 1 .. n /\ \A k \in 1 .. n : 1 + k - 1 = k
      OBVIOUS
    <3>5. Len(SubSeq(a, 1, n)) = n
      BY <3>1
    <3> QED  BY <3>2, <3>3, <3>4, <3>5
  <2>6. l = SubSeq(a, 1, n)
    BY <2>3, <2>4, <2>5, SeqEqual
  <2>7. Len(l) >= n /\ ~(Len(l) < n)
    BY ONLY <2>4, n \in Nat
  <2> QED  BY <2>2, <2>6, <2>7 DEF a
<1>4. Len(s) < n \/ Len(s) >= n
  BY ONLY <1>1, n \in Nat
<1> QED  BY <1>2, <1>3, <1>4

-----------------------------------------------------------------------------
(* The bytes of one client in the stream.                                  *)

LEMMA OfGrows ==
    ASSUME NEW s \in Seq(Bytes), NEW e \in Bytes, NEW c
    PROVE  /\ Append(s, e) \in Seq(Bytes)
           /\ Len(s) \in Nat /\ Append(s, e)[Len(s) + 1] = e
           /\ \A k \in 1 .. Len(s) : Append(s, e)[k] = s[k]
           /\ Of(c, s) \subseteq 1 .. Len(s)
           /\ Of(c, Append(s, e)) =
                 Of(c, s) \cup (IF e.by = c THEN {Len(s) + 1} ELSE {})
<1> HIDE DEF Bytes
<1>1. /\ Append(s, e) \in Seq(Bytes) /\ Len(Append(s, e)) = Len(s) + 1
      /\ \A k \in 1 .. Len(s) : Append(s, e)[k] = s[k]
      /\ Append(s, e)[Len(s) + 1] = e /\ Len(s) \in Nat
  BY AppendProperties, LenProperties
<1> DEFINE a == Append(s, e)
<1>2. 1 .. Len(a) = 1 .. Len(s) \cup {Len(s) + 1}
  BY <1>1
<1> HIDE DEF a
<1>3. Of(c, a) = Of(c, s) \cup (IF e.by = c THEN {Len(s) + 1} ELSE {})
  BY <1>1, <1>2 DEF Of, a
<1> QED  BY <1>1, <1>3 DEF a, Of

(* A byte of another client changes nothing for c.                         *)
LEMMA OthersByte ==
    ASSUME NEW s \in Seq(Bytes), NEW e \in Bytes, NEW c, e.by # c
    PROVE  /\ InOrder(c, s) => InOrder(c, Append(s, e))
           /\ Of(c, Append(s, e)) = Of(c, s)
           /\ \A k \in Of(c, s) : Append(s, e)[k] = s[k]
<1> DEFINE a == Append(s, e)
<1>1. /\ Of(c, a) = Of(c, s) /\ Of(c, s) \subseteq 1 .. Len(s)
      /\ \A k \in Of(c, s) : a[k] = s[k]
  <2>1. /\ Of(c, a) = Of(c, s) \cup (IF e.by = c THEN {Len(s) + 1} ELSE {})
        /\ Of(c, s) \subseteq 1 .. Len(s)
        /\ \A k \in 1 .. Len(s) : a[k] = s[k]
    BY OfGrows
  <2> HIDE DEF a
  <2> QED  BY <2>1
<1> HIDE DEF a
<1>2. InOrder(c, s) => InOrder(c, a)
  BY <1>1 DEF InOrder
<1> QED  BY <1>1, <1>2 DEF a

(* A byte of c keeps the order if it is the first of line 1, or follows    *)
(* the last one.                                                           *)
LEMMA OwnByte ==
    ASSUME NEW s \in Seq(Bytes), NEW e \in Bytes, NEW c, e.by = c,
           InOrder(c, s),
           Of(c, s) = {} => e.line = 1 /\ e.n = 1,
           \A k \in Of(c, s) :
              (\A m \in Of(c, s) : m <= k) => Follows(s[k], e)
    PROVE  InOrder(c, Append(s, e))
<1> DEFINE a == Append(s, e)
           N == Len(s) + 1
<1>1. /\ Of(c, a) = Of(c, s) \cup {N} /\ Of(c, s) \subseteq 1 .. Len(s)
      /\ \A k \in 1 .. Len(s) : a[k] = s[k]
      /\ a[N] = e /\ Len(s) \in Nat
  BY OfGrows
<1> HIDE DEF a
<1>2. ASSUME NEW k \in Of(c, a), \A m \in Of(c, a) : k <= m
      PROVE  a[k].line = 1 /\ a[k].n = 1
  <2>1. CASE k = N
    <3>1. Of(c, s) = {}  BY <1>1, <1>2, <2>1
    <3> QED  BY <1>1, <2>1, <3>1
  <2>2. CASE k # N
    <3>1. k \in Of(c, s) /\ \A m \in Of(c, s) : k <= m
      BY <1>1, <1>2, <2>2
    <3> QED  BY <1>1, <3>1 DEF InOrder
  <2> QED  BY <2>1, <2>2
<1>3. ASSUME NEW k \in Of(c, a), NEW j \in 1 .. k - 1, j \in Of(c, a),
             \A m \in Of(c, a) : m <= j \/ k <= m
      PROVE  Follows(a[j], a[k])
  <2>1. j \in Of(c, s) /\ j \in 1 .. Len(s)
    BY <1>1, <1>3
  <2>2. CASE k = N
    <3>1. \A m \in Of(c, s) : m <= j  BY <1>1, <1>3, <2>2
    <3>2. Follows(s[j], e)  BY <2>1, <3>1
    <3> QED  BY <1>1, <2>1, <2>2, <3>2
  <2>3. CASE k # N
    <3>1. /\ k \in Of(c, s) /\ k \in 1 .. Len(s)
          /\ \A m \in Of(c, s) : m <= j \/ k <= m
      BY <1>1, <1>3, <2>3
    <3>2. Follows(s[j], s[k])
      BY <1>3, <2>1, <3>1 DEF InOrder
    <3> QED  BY <1>1, <2>1, <3>1, <3>2
  <2> QED  BY <2>2, <2>3
<1>4. InOrder(c, a)
  BY <1>2, <1>3 DEF InOrder
<1> QED  BY <1>4 DEF a

-----------------------------------------------------------------------------
(* What a step does to the stream: nothing, or one byte is appended.       *)
Emits(b) ==
    /\ EmitByte
    /\ b = Byte(cur, sent[cur] + i + 1)
    /\ Stream' = Append(Stream, b)

LEMMA StreamTyped == TypeOK => Stream \in Seq(Bytes)
<1> SUFFICES ASSUME TypeOK PROVE Stream \in Seq(Bytes)
  OBVIOUS
<1>1. wire \in Seq(Bytes) /\ fifo \in Seq(Bytes) /\ hand \in Seq(Bytes)
  BY DEF TypeOK
<1> HIDE DEF Bytes
<1> QED  BY <1>1, Join DEF Stream

LEMMA StreamStep ==
    ASSUME TypeOK, hand = <<>> <=> apc = "recv", RoomWhenWoken, [Next]_vars
    PROVE  \/ Stream' = Stream /\ ~EmitByte
           \/ \E b \in Bytes : Emits(b)
<1> USE DEF clientVars, serverVars, fifoVars, irqVars
<1>0. wire \in Seq(Bytes) /\ fifo \in Seq(Bytes) /\ hand \in Seq(Bytes)
  BY DEF TypeOK
<1>1. CASE EmitByte
  <2> DEFINE b == Byte(cur, sent[cur] + i + 1)
  <2>1. b \in Bytes
    BY <1>1 DEF EmitByte, TypeOK, Byte, Bytes
  <2>2. hand = <<>> /\ hand' = <<b>> /\ wire' = wire /\ fifo' = fifo
    BY <1>1 DEF EmitByte
  <2>3. Stream = wire \o fifo /\ wire \o fifo \in Seq(Bytes)
    <3> HIDE DEF Bytes
    <3> QED  BY <1>0, <2>2, Join, ConcatEmptySeq DEF Stream
  <2>4. Stream' = (wire \o fifo) \o <<b>>
    BY <2>2 DEF Stream
  <2>5. Stream' = Append(Stream, b)
    <3> HIDE DEF b, Bytes
    <3> QED  BY <2>1, <2>3, <2>4, AppendIsConcat
  <2> QED  BY <1>1, <2>1, <2>5 DEF Emits
<1>2. CASE Drain
  <2>1. fifo # <<>> /\ wire' = Append(wire, Head(fifo))
        /\ fifo' = Tail(fifo) /\ hand' = hand /\ ~EmitByte
    BY <1>2 DEF Drain, EmitByte
  <2>2. wire' \o fifo' = wire \o fifo
    <3> HIDE DEF Bytes
    <3> QED  BY <1>0, <2>1, MovedOn
  <2> QED  BY <2>1, <2>2 DEF Stream
<1>3. CASE WriteTxData
  <2>1. apc = "write" /\ hand' = <<>> /\ wire' = wire /\ ~EmitByte
        /\ fifo' = fifo \o hand
    BY <1>3 DEF WriteTxData, Go, RoomWhenWoken, EmitByte
  <2>2. (wire \o (fifo \o hand)) \o <<>> = (wire \o fifo) \o hand
    <3> HIDE DEF Bytes
    <3>1. /\ fifo \o hand \in Seq(Bytes)
          /\ wire \o (fifo \o hand) \in Seq(Bytes)
      BY <1>0, Join
    <3>2. wire \o (fifo \o hand) = (wire \o fifo) \o hand
      BY <1>0, ConcatAssociative
    <3> QED  BY <3>1, <3>2, ConcatEmptySeq
  <2> QED  BY <2>1, <2>2 DEF Stream
<1>4. CASE \/ \E c \in Clients : Puts(c) \/ Receive(c)
           \/ Answer \/ TestSpace \/ AckStale \/ EnableTfl \/ Wake
           \/ DisableTfl \/ AckTaken \/ Interrupt \/ BoundReached
           \/ UNCHANGED vars
  <2>1. wire' = wire /\ fifo' = fifo /\ hand' = hand
    BY <1>4
       DEF Puts, Receive, Answer, TestSpace, AckStale, EnableTfl, Wake,
           DisableTfl, AckTaken, Interrupt, BoundReached, vars
  <2>2. ~EmitByte
    <3>1. EmitByte => hand = <<>> /\ \E b : hand' = <<b>>
      BY DEF EmitByte
    <3> QED  BY <2>1, <3>1
  <2> QED  BY <2>1, <2>2 DEF Stream
<1> QED  BY <1>1, <1>2, <1>3, <1>4 DEF Next, Console, Asclin

-----------------------------------------------------------------------------
(* The log.                                                                *)
LEMMA LogStep ==
    ASSUME TypeOK, LogIsStream, NEW b \in Bytes, Emits(b)
    PROVE  LogIsStream'
<1> DEFINE n == LogSize - 1
<1>1. n \in Nat  BY ConsoleConstants
<1>2. log = SubSeq(Stream, 1, Least(Len(Stream), n))  BY DEF LogIsStream
<1>3. Stream \in Seq(Bytes)  BY StreamTyped
<1>4. log \in Seq(Bytes)  BY DEF TypeOK
<1>5. log' = IF Len(log) >= n THEN log ELSE Append(log, b)
  BY DEF Emits, EmitByte
<1>6. Stream' = Append(Stream, b)  BY DEF Emits
<1> HIDE DEF n, Bytes
<1>7. Len(log) \in Nat  BY <1>4, LenProperties
<1>8. log' = SubSeq(Stream', 1, Least(Len(Stream'), n))
  <2>1. CASE Len(log) >= n
    BY <1>1, <1>2, <1>3, <1>5, <1>6, <2>1, PrefixGrows
  <2>2. CASE Len(log) < n
    <3>1. log' = Append(log, b)
      BY ONLY <1>1, <1>5, <1>7, <2>2
    <3> QED  BY <1>1, <1>2, <1>3, <1>6, <2>2, <3>1, PrefixGrows
  <2> QED  BY <1>1, <1>7, <2>1, <2>2
<1> QED  BY <1>8 DEF LogIsStream, n

-----------------------------------------------------------------------------
(* The requests of the clients.                                            *)

(* What client c has handed over, and of which line, does not change.      *)
Quiet(c) ==
    line'[c] = line[c] /\ len'[c] = len[c] /\ Emitted(c)' = Emitted(c)

LEMMA QuietOrPuts ==
    ASSUME TypeOK, Handed, [Next]_vars, ~EmitByte, NEW c \in Clients
    PROVE  Quiet(c) \/ Puts(c)
<1> USE ConsoleConstants
    DEF TypeOK, Quiet, Emitted, clientVars, serverVars
<1>1. ASSUME NEW d \in Clients, Puts(d), d # c PROVE Quiet(c)
  BY <1>1 DEF Puts
<1>2. ASSUME NEW d \in Clients, Receive(d) PROVE Quiet(c)
  BY <1>2 DEF Receive
<1>3. CASE Answer
  <2>1. CASE c = cur
    <3>1. sent'[c] = sent[c] + i /\ cur' = Nobody
      BY <1>3, <2>1 DEF Answer
    <3> QED  BY <1>3, <2>1, <3>1 DEF Answer
  <2>2. CASE c # cur  BY <1>3, <2>2 DEF Answer
  <2> QED  BY <2>1, <2>2
<1>4. CASE \/ TestSpace \/ AckStale \/ EnableTfl \/ Wake \/ DisableTfl
           \/ AckTaken \/ WriteTxData \/ Drain \/ Interrupt \/ BoundReached
           \/ UNCHANGED vars
  BY <1>4
     DEF TestSpace, AckStale, EnableTfl, Wake, DisableTfl, AckTaken,
         WriteTxData, Drain, Interrupt, BoundReached, vars
<1> QED  BY <1>1, <1>2, <1>3, <1>4 DEF Next, Console, Asclin

(* The emission of byte b, seen by its client and by the others.           *)
LEMMA EmitEffect ==
    ASSUME TypeOK, Handed, NEW b \in Bytes, Emits(b)
    PROVE  /\ cur \in Clients /\ b.by = cur
           /\ line' = line /\ len' = len /\ sent' = sent /\ cur' = cur
           /\ b = Byte(cur, Emitted(cur) + 1)
           /\ Emitted(cur)' = Emitted(cur) + 1
           /\ Emitted(cur) \in Nat /\ Emitted(cur) < len[cur]
           /\ \A c \in Clients \ {cur} : Emitted(c)' = Emitted(c)
<1>1. /\ cur \in Clients /\ i' = i + 1 /\ i < Chunk(cur)
      /\ line' = line /\ len' = len /\ sent' = sent /\ cur' = cur
      /\ b = Byte(cur, sent[cur] + i + 1)
  BY DEF Emits, EmitByte, TypeOK, clientVars
<1>2. /\ sent[cur] \in Nat /\ len[cur] \in Nat /\ i \in Nat
      /\ sent[cur] < len[cur]
  BY <1>1 DEF TypeOK, Handed
<1>3. i < len[cur] - sent[cur]
  BY <1>1, <1>2, ConsoleConstants DEF Chunk, Least
<1>4. /\ Emitted(cur) = sent[cur] + i /\ Emitted(cur)' = sent[cur] + i + 1
      /\ \A c \in Clients \ {cur} : Emitted(c)' = Emitted(c)
  BY <1>1, <1>2 DEF Emitted
<1>5. b.by = cur  BY <1>1 DEF Byte
<1> QED  BY <1>1, <1>2, <1>3, <1>4, <1>5

LEMMA HandedStep ==
    ASSUME TypeOK, TypeOK', Handed, Delivered, RoomWhenWoken, [Next]_vars
    PROVE  Handed'
<1> USE ConsoleConstants DEF clientVars, serverVars, fifoVars, irqVars
<1>1. hand' = <<>> <=> apc' = "recv"
  <2>1. CASE EmitByte  BY <2>1 DEF EmitByte
  <2>2. CASE ~EmitByte
    BY <2>2
       DEF Handed, TypeOK, Next, Console, Asclin, Puts, Receive, Answer,
           TestSpace, AckStale, EnableTfl, Wake, DisableTfl, AckTaken,
           WriteTxData, Drain, Interrupt, BoundReached, vars, Go
  <2> QED  BY <2>1, <2>2
<1>2. ASSUME NEW c \in Clients
      PROVE  /\ sent'[c] <= len'[c]
             /\ line'[c] = 0 <=> len'[c] = 0
             /\ cur' = c => sent'[c] < len'[c] /\ i' <= Chunk(c)'
  <2> USE DEF TypeOK, Handed, Chunk, Least
  <2>1. ASSUME NEW d \in Clients, Puts(d)
        PROVE  /\ sent'[c] <= len'[c]
               /\ line'[c] = 0 <=> len'[c] = 0
               /\ cur' = c => sent'[c] < len'[c] /\ i' <= Chunk(c)'
    BY <2>1 DEF Puts
  <2>2. ASSUME NEW d \in Clients, Receive(d)
        PROVE  /\ sent'[c] <= len'[c]
               /\ line'[c] = 0 <=> len'[c] = 0
               /\ cur' = c => sent'[c] < len'[c] /\ i' <= Chunk(c)'
    BY <2>2 DEF Receive
  <2>3. CASE EmitByte  BY <2>3 DEF EmitByte
  <2>4. CASE Answer
    <3>1. /\ cur \in Clients /\ cur' = Nobody /\ line' = line /\ len' = len
          /\ sent' = [sent EXCEPT ![cur] = @ + Chunk(cur)]
      BY <2>4 DEF Answer
    <3>2. Chunk(cur) <= len[cur] - sent[cur]
      <4>1. ChunkMax \in Nat /\ len[cur] \in Nat /\ sent[cur] \in Nat
        BY <3>1
      <4> QED  BY ONLY <4>1 DEF Chunk, Least
    <3> HIDE DEF Chunk, Least
    <3> QED  BY <2>4, <3>1, <3>2 DEF Answer
  <2>5. CASE \/ TestSpace \/ AckStale \/ EnableTfl \/ Wake \/ DisableTfl
             \/ AckTaken \/ WriteTxData \/ Drain \/ Interrupt
             \/ BoundReached \/ UNCHANGED vars
    <3>1. UNCHANGED <<line, len, sent, cur, i>>
      BY <2>5
         DEF TestSpace, AckStale, EnableTfl, Wake, DisableTfl, AckTaken,
             WriteTxData, Drain, Interrupt, BoundReached, vars
    <3>2. Chunk(c)' = Chunk(c)
      BY ONLY <3>1 DEF Chunk, Least
    <3> QED  BY <3>1, <3>2
  <2> QED  BY <2>1, <2>2, <2>3, <2>4, <2>5 DEF Next, Console, Asclin
<1>3. ASSUME NEW c \in Clients, Of(c, Stream') = {}
      PROVE  line'[c] <= 1
  <2>1. Of(c, Stream) = {} /\ (Stream' = Stream \/ \E b \in Bytes : Emits(b))
    <3>1. CASE Stream' = Stream  BY <1>3, <3>1
    <3>2. ASSUME NEW b \in Bytes, Emits(b) PROVE Of(c, Stream) = {}
      <4>1. Of(c, Stream) \subseteq Of(c, Stream')
        BY <3>2, StreamTyped, OfGrows DEF Emits
      <4> QED  BY <1>3, <4>1
    <3> QED  BY <3>1, <3>2, StreamStep DEF Handed
  <2>2. line[c] <= 1 /\ Emitted(c) = 0
    BY <2>1 DEF Handed, Delivered, UpToDate
  <2>3. ASSUME NEW b \in Bytes, Emits(b) PROVE line'[c] <= 1
    BY <2>2, <2>3, EmitEffect
  <2>4. CASE Quiet(c)  BY <2>2, <2>4 DEF Quiet
  <2>5. CASE Puts(c)
    <3>1. sent[c] = 0
      <4>1. sent[c] \in Nat /\ i \in Nat
        BY DEF TypeOK
      <4>2. sent[c] + i = 0 \/ sent[c] = 0
        BY <2>2, <4>1 DEF Emitted
      <4> QED  BY <4>1, <4>2
    <3>2. len[c] = 0 /\ line[c] = 0
      BY <2>5, <3>1 DEF Puts, Handed, TypeOK
    <3>3. line'[c] = 1
      BY <2>5, <3>2 DEF Puts, TypeOK
    <3> QED  BY <3>3
  <2> QED  BY <2>1, <2>3, <2>4, <2>5, QuietOrPuts, StreamStep DEF Handed
<1> QED  BY <1>1, <1>2, <1>3 DEF Handed

LEMMA DeliveredStep ==
    ASSUME TypeOK, TypeOK', Handed, Delivered, RoomWhenWoken, [Next]_vars
    PROVE  Delivered'
<1> SUFFICES ASSUME NEW c \in Clients
             PROVE  InOrder(c, Stream') /\ UpToDate(c, Stream)'
  BY DEF Delivered
<1>0. InOrder(c, Stream) /\ UpToDate(c, Stream) /\ Stream \in Seq(Bytes)
  BY StreamTyped DEF Delivered
<1>1. ASSUME NEW b \in Bytes, Emits(b), cur # c
      PROVE  InOrder(c, Stream') /\ UpToDate(c, Stream)'
  <2>1. /\ b.by # c /\ Stream' = Append(Stream, b)
        /\ line' = line /\ len' = len /\ Emitted(c)' = Emitted(c)
    BY <1>1, EmitEffect DEF Emits
  <2>2. /\ InOrder(c, Stream') /\ Of(c, Stream') = Of(c, Stream)
        /\ \A k \in Of(c, Stream) : Stream'[k] = Stream[k]
    BY <1>0, <2>1, OthersByte
  <2> QED  BY <1>0, <2>1, <2>2 DEF UpToDate, Byte
<1>2. ASSUME NEW b \in Bytes, Emits(b), cur = c
      PROVE  InOrder(c, Stream') /\ UpToDate(c, Stream)'
  <2> DEFINE N == Len(Stream) + 1
             e == Emitted(c)
  <2>1. /\ b.by = c /\ Stream' = Append(Stream, b)
        /\ line' = line /\ len' = len /\ Emitted(c)' = e + 1
        /\ b = Byte(c, e + 1) /\ e \in Nat /\ e < len[c]
        /\ line[c] \in Nat /\ len[c] \in Nat
    <3>1. /\ b.by = c /\ line' = line /\ len' = len /\ Emitted(c)' = e + 1
          /\ b = Byte(c, e + 1) /\ e \in Nat /\ e < len[c]
      BY <1>2, EmitEffect
    <3>2. line[c] \in Nat /\ len[c] \in Nat
      BY DEF TypeOK
    <3>3. Stream' = Append(Stream, b)
      BY <1>2 DEF Emits
    <3> HIDE DEF e
    <3> QED  BY <3>1, <3>2, <3>3
  <2>2. /\ Of(c, Stream') = Of(c, Stream) \cup {N}
        /\ Of(c, Stream) \subseteq 1 .. Len(Stream) /\ Len(Stream) \in Nat
        /\ Stream'[N] = b
    BY <1>0, <2>1, OfGrows
  <2>3. b.line = line[c] /\ b.n = e + 1 /\ b.of = len[c]
    BY <2>1 DEF Byte
  <2>4. Of(c, Stream) = {} => b.line = 1 /\ b.n = 1
    <3> SUFFICES ASSUME Of(c, Stream) = {} PROVE b.line = 1 /\ b.n = 1
      OBVIOUS
    <3>1. e = 0 /\ line[c] <= 1  BY <1>0 DEF UpToDate, Handed
    <3>2. line[c] # 0  BY <2>1 DEF Handed
    <3> QED  BY <2>1, <2>3, <3>1, <3>2
  <2>5. ASSUME NEW k \in Of(c, Stream), \A m \in Of(c, Stream) : m <= k
        PROVE  Follows(Stream[k], b)
    <3>1. CASE e > 0
      <4>1. Stream[k] = Byte(c, e)  BY <1>0, <2>5, <3>1 DEF UpToDate
      <4>2. Stream[k].n = e /\ Stream[k].of = len[c]
            /\ Stream[k].line = line[c]
        BY <4>1 DEF Byte
      <4> QED  BY <2>1, <2>3, <4>2 DEF Follows
    <3>2. CASE ~(e > 0)
      <4>1. Stream[k].n = Stream[k].of /\ Stream[k].line + 1 = line[c]
        BY <1>0, <2>5, <3>2 DEF UpToDate
      <4>2. Stream[k] \in Bytes
        <5> HIDE DEF Bytes
        <5> QED  BY <1>0, <2>2, <2>5, ElementOfSeq
      <4>3. Stream[k].of \in Nat
        BY <4>2 DEF Bytes
      <4> QED  BY <2>1, <2>3, <3>2, <4>1, <4>3 DEF Follows
    <3> QED  BY <3>1, <3>2
  <2>6. InOrder(c, Stream')
    BY <1>0, <2>1, <2>4, <2>5, OwnByte
  <2>7. UpToDate(c, Stream)'
    <3>1. ASSUME NEW k \in Of(c, Stream'), \A m \in Of(c, Stream') : m <= k
          PROVE  Stream'[k] = Byte(c, e + 1)
      <4>1. k = N  BY <2>2, <3>1
      <4> QED  BY <2>1, <2>2, <4>1
    <3>2. Byte(c, e + 1)' = Byte(c, e + 1)'
      OBVIOUS
    <3>3. \A n : Byte(c, n) = [by |-> c, line |-> line'[c], n |-> n, of |-> len'[c]]
      BY <2>1 DEF Byte
    <3>4. e + 1 > 0 /\ Of(c, Stream') # {}
      BY <2>1, <2>2
    <3> HIDE DEF e
    <3> QED  BY <2>1, <3>1, <3>3, <3>4 DEF UpToDate, Byte
  <2> QED  BY <2>6, <2>7
<1>3. CASE Stream' = Stream /\ Quiet(c)
  BY <1>0, <1>3 DEF Quiet, UpToDate, Byte
<1>4. CASE Stream' = Stream /\ Puts(c)
  <2>1. /\ sent[c] = len[c] /\ line'[c] = line[c] + 1 /\ sent'[c] = 0
        /\ cur' = cur /\ len[c] \in Nat /\ line[c] \in Nat /\ i' = i
    BY <1>4 DEF Puts, TypeOK, serverVars
  <2>2. cur # c  BY <2>1 DEF Handed
  <2>3. Emitted(c) = len[c] /\ Emitted(c)' = 0
    BY <2>1, <2>2 DEF Emitted
  <2>4. ASSUME NEW k \in Of(c, Stream), \A m \in Of(c, Stream) : m <= k
        PROVE  Stream[k].n = Stream[k].of /\ Stream[k].line + 1 = line'[c]
    <3>1. CASE len[c] > 0
      <4>1. Stream[k] = Byte(c, len[c])
        BY <1>0, <2>3, <2>4, <3>1 DEF UpToDate
      <4> QED  BY <2>1, <4>1 DEF Byte
    <3>2. CASE len[c] = 0
      <4>1. line[c] = 0  BY <3>2 DEF Handed
      <4>2. Stream[k].line + 1 = line[c]
        BY <1>0, <2>3, <2>4, <3>2 DEF UpToDate
      <4>3. Stream[k] \in Bytes
        <5>1. k \in 1 .. Len(Stream)  BY DEF Of
        <5> HIDE DEF Bytes
        <5> QED  BY <1>0, <5>1, ElementOfSeq
      <4>4. Stream[k].line \in Nat
        BY <4>3 DEF Bytes
      <4> QED  BY <4>1, <4>2, <4>4
    <3> QED  BY <2>1, <3>1, <3>2
  <2>5. UpToDate(c, Stream)'
    BY <1>4, <2>3, <2>4 DEF UpToDate
  <2> QED  BY <1>0, <1>4, <2>5
<1> QED
  BY <1>1, <1>2, <1>3, <1>4, StreamStep, QuietOrPuts DEF Handed

-----------------------------------------------------------------------------
LEMMA InitIInv == Init => IInv
<1> SUFFICES ASSUME Init PROVE IInv
  OBVIOUS
<1>1. TypeOK /\ Signals  BY InitTyped
<1>2. Stream = <<>>
  <2>1. wire = <<>> /\ fifo = <<>> /\ hand = <<>>  BY DEF Init
  <2>2. <<>> \o <<>> = <<>>
    BY EmptySeq, ConcatEmptySeq
  <2> QED  BY <2>1, <2>2 DEF Stream
<1>3. Len(Stream) = 0 /\ \A c : Of(c, Stream) = {}
  BY <1>2 DEF Of
<1>4. Handed
  BY <1>3, ConsoleConstants DEF Init, Handed
<1>5. Delivered
  BY <1>3, ConsoleConstants DEF Init, Delivered, InOrder, UpToDate, Emitted
<1>6. LogIsStream
  <2>1. Least(Len(Stream), LogSize - 1) = 0
    BY <1>3, ConsoleConstants DEF Least
  <2>2. SubSeq(Stream, 1, 0) = <<>>
    BY SubSeqEmpty
  <2> QED  BY <2>1, <2>2 DEF Init, LogIsStream
<1> QED  BY <1>1, <1>4, <1>5, <1>6 DEF IInv

LEMMA StepIInv == IInv /\ [Next]_vars => IInv'
<1> SUFFICES ASSUME IInv, [Next]_vars PROVE IInv'
  OBVIOUS
<1>1. TypeOK' /\ Signals'  BY StepTyped, StepSignals DEF IInv
<1>2. ASSUME AckDrops PROVE Handed' /\ Delivered' /\ LogIsStream'
  <2>1. TypeOK /\ Handed /\ Delivered /\ LogIsStream /\ RoomWhenWoken
    BY <1>2 DEF IInv, Signals
  <2>2. Handed' /\ Delivered'
    BY <1>1, <2>1, HandedStep, DeliveredStep
  <2>3. CASE Stream' = Stream /\ ~EmitByte
    <3>1. log' = log
      BY <2>3
         DEF Next, Console, Asclin, Puts, Receive, Answer, TestSpace,
             AckStale, EnableTfl, Wake, DisableTfl, AckTaken, WriteTxData,
             Drain, Interrupt, BoundReached, vars, serverVars
    <3> QED  BY <2>1, <2>2, <2>3, <3>1 DEF LogIsStream
  <2>4. ASSUME NEW b \in Bytes, Emits(b) PROVE LogIsStream'
    BY <2>1, <2>4, LogStep
  <2> QED  BY <2>1, <2>2, <2>3, <2>4, StreamStep DEF Handed
<1> QED  BY <1>1, <1>2 DEF IInv

(* The strengthened invariant of the console holds throughout.             *)
THEOREM ConsoleInvariance == Spec => []IInv
<1> QED  BY InitIInv, StepIInv, PTL DEF Spec

(* As long as acknowledging drops the request of a byte that left in the   *)
(* meantime, no byte of any line is lost, repeated or out of order between *)
(* console_write and the wire.                                             *)
THEOREM BytesDelivered ==
    ASSUME AckDrops
    PROVE  Spec => []Delivered
<1>1. IInv => Delivered  BY DEF IInv
<1> QED  BY <1>1, ConsoleInvariance, PTL

(* And the RAM log is what went out, up to its size.                       *)
THEOREM LogFaithful ==
    ASSUME AckDrops
    PROVE  Spec => []LogIsStream
<1>1. IInv => LogIsStream  BY DEF IInv
<1> QED  BY <1>1, ConsoleInvariance, PTL

-----------------------------------------------------------------------------
(* The variables keep their types, FIFO and log within their memory.       *)
THEOREM ConsoleTyped == Spec => []TypeOK
<1>1. IInv => TypeOK  BY DEF IInv
<1> QED  BY <1>1, ConsoleInvariance, PTL

(* A byte written after a wait always finds room, as long as               *)
(* ulmk_irq_ack drops the request of a byte that left in the meantime.     *)
THEOREM WokenFindsRoom ==
    ASSUME AckDrops
    PROVE  Spec => []RoomWhenWoken
<1>1. IInv => RoomWhenWoken  BY DEF IInv, Signals
<1> QED  BY <1>1, ConsoleInvariance, PTL

(* A server waiting while there is room will be told so, as long as the    *)
(* FIFO does not run dry between the test of its level and the enabling.   *)
THEOREM SpaceIsTold ==
    ASSUME Prompt
    PROVE  Spec => []ToldOfSpace
<1>1. IInv => ToldOfSpace  BY DEF IInv, Signals
<1> QED  BY <1>1, ConsoleInvariance, PTL
=============================================================================
