------------------------- MODULE ZreTransferProofs -------------------------
(***************************************************************************)
(* Theorems about ZreTransfer: what file_transfer.py reports complete is   *)
(* what was sent.  Line(s) puts the queues between two programs one after  *)
(* the other: commands, DEALER, ROUTER.  Every step leaves of it what was, *)
(* a part of it, or more at its end (LineStep), and the rest follows from  *)
(* the numbers of what is on it.                                           *)
(***************************************************************************)
EXTENDS ZreTransfer, SequenceTheorems, TLAPS

(* Sequences *)

\* An item of a sequence is of its set.
LEMMA ItemOf ==
    ASSUME NEW S, NEW q \in Seq(S), NEW i \in 1..Len(q)
    PROVE  q[i] \in S
BY ElementOfSeq

\* Two sequences in a row, and three, in either grouping.
LEMMA PairIs ==
    ASSUME NEW S, NEW a \in Seq(S), NEW b \in Seq(S), NEW q, q = a \o b
    PROVE  /\ q \in Seq(S) /\ Len(q) = Len(a) + Len(b)
           /\ \A i \in 1..Len(a) + Len(b) : q[i] = IF i <= Len(a) THEN a[i] ELSE b[i - Len(a)]
BY ConcatProperties

LEMMA Regroup ==
    ASSUME NEW S, NEW a \in Seq(S), NEW b \in Seq(S), NEW c \in Seq(S)
    PROVE  (a \o b) \o c = a \o (b \o c)
BY ConcatAssociative

\* What Append and Tail make of a sequence.
LEMMA AppendIs ==
    ASSUME NEW S, NEW q \in Seq(S), NEW m \in S
    PROVE  /\ Append(q, m) \in Seq(S) /\ Len(Append(q, m)) = Len(q) + 1
           /\ \A i \in 1..Len(q) : Append(q, m)[i] = q[i]
           /\ Append(q, m)[Len(q) + 1] = m
BY AppendProperties

LEMMA TailIs ==
    ASSUME NEW S, NEW q \in Seq(S), q # <<>>
    PROVE  /\ Tail(q) \in Seq(S) /\ Len(q) \in Nat \ {0} /\ Len(Tail(q)) = Len(q) - 1
           /\ \A i \in 1..Len(q) - 1 : Tail(q)[i] = q[i + 1]
           /\ Head(q) = q[1] /\ Head(q) \in S
<1>1. Tail(q) \in Seq(S) /\ Len(Tail(q)) = Len(q) - 1 /\ Head(q) = q[1] /\ Head(q) \in S
  BY HeadTailProperties
<1>2. Len(q) \in Nat \ {0}
  BY EmptySeq, LenProperties
<1>3. \A i \in 1..Len(q) - 1 : Tail(q)[i] = q[i + 1]
  BY <1>1, <1>2, HeadTailProperties
<1> QED
  BY <1>1, <1>2, <1>3

\* Three sequences in a row.
LEMMA RowIs ==
    ASSUME NEW S, NEW a \in Seq(S), NEW b \in Seq(S), NEW c \in Seq(S)
    PROVE  /\ a \o b \o c \in Seq(S)
           /\ Len(a \o b \o c) = Len(a) + Len(b) + Len(c)
           /\ \A i \in 1..Len(a) : (a \o b \o c)[i] = a[i]
           /\ \A i \in 1..Len(b) : (a \o b \o c)[Len(a) + i] = b[i]
           /\ \A i \in 1..Len(c) : (a \o b \o c)[Len(a) + Len(b) + i] = c[i]
<1>0. Len(a) \in Nat /\ Len(b) \in Nat /\ Len(c) \in Nat
  BY LenProperties
<1>a. PICK d : d = a \o b
  OBVIOUS
<1>1. /\ d \in Seq(S) /\ Len(d) = Len(a) + Len(b)
      /\ \A i \in 1..Len(a) + Len(b) : d[i] = IF i <= Len(a) THEN a[i] ELSE b[i - Len(a)]
  BY <1>a, PairIs
<1>b. PICK q : q = d \o c
  OBVIOUS
<1>2. /\ q \in Seq(S) /\ Len(q) = Len(d) + Len(c)
      /\ \A i \in 1..Len(d) + Len(c) : q[i] = IF i <= Len(d) THEN d[i] ELSE c[i - Len(d)]
  <2>1. d \in Seq(S)
    BY <1>1
  <2> QED
    BY <1>b, <2>1, PairIs
<1>3. ASSUME NEW i \in 1..Len(a) PROVE q[i] = a[i]
  <2>1. i \in 1..Len(d) + Len(c) /\ i <= Len(d) /\ i \in 1..Len(a) + Len(b) /\ i <= Len(a)
    BY <1>0, <1>1, <1>3
  <2> QED
    BY <1>1, <1>2, <2>1
<1>4. \A i \in 1..Len(b) : q[Len(a) + i] = b[i]
  BY <1>0, <1>1, <1>2
<1>5. ASSUME NEW i \in 1..Len(c) PROVE q[Len(a) + Len(b) + i] = c[i]
  <2>1. /\ Len(a) + Len(b) + i \in 1..Len(d) + Len(c) /\ ~(Len(a) + Len(b) + i <= Len(d))
        /\ Len(a) + Len(b) + i - Len(d) = i
    BY <1>0, <1>1, <1>5
  <2> QED
    BY <1>2, <2>1
<1>6. q \in Seq(S) /\ Len(q) = Len(a) + Len(b) + Len(c)
  BY <1>1, <1>2
<1> QED
  BY <1>a, <1>b, <1>3, <1>4, <1>5, <1>6

-----------------------------------------------------------------------------
(* Parts of a line *)

\* r is what is left of q when some of it is lost after the first k items.
Left(r, q, k) ==
    /\ k + Len(r) <= Len(q)
    /\ \A i \in 1..Len(r) : r[i] = q[i + k]

\* A row that loses its first item, all of its first part, or all but that.
LEMMA RowParts ==
    ASSUME NEW S, NEW a \in Seq(S), NEW b \in Seq(S), NEW c \in Seq(S)
    PROVE  /\ Left(a \o <<>> \o <<>>, a \o b \o c, 0)
           /\ Left(<<>> \o b \o c, a \o b \o c, Len(a))
           /\ a # <<>> => /\ Left(Tail(a) \o b \o c, a \o b \o c, 1)
                          /\ a \o b \o c # <<>> /\ (a \o b \o c)[1] = Head(a)
<1>0. Len(a) \in Nat /\ Len(b) \in Nat /\ Len(c) \in Nat /\ <<>> \in Seq(S) /\ Len(<<>>) = 0
  BY LenProperties, EmptySeq
<1> DEFINE q == a \o b \o c
           x == a \o <<>> \o <<>>
           y == <<>> \o b \o c
           z == Tail(a) \o b \o c
<1>1. /\ q \in Seq(S) /\ Len(q) = Len(a) + Len(b) + Len(c)
      /\ \A i \in 1..Len(a) : q[i] = a[i]
      /\ \A i \in 1..Len(b) : q[Len(a) + i] = b[i]
      /\ \A i \in 1..Len(c) : q[Len(a) + Len(b) + i] = c[i]
  BY RowIs
<1>2. Len(x) = Len(a) /\ \A i \in 1..Len(a) : x[i] = a[i]
  BY <1>0, RowIs
<1>3. /\ Len(y) = Len(b) + Len(c)
      /\ \A i \in 1..Len(b) : y[i] = b[i]
      /\ \A i \in 1..Len(c) : y[Len(b) + i] = c[i]
  <2>1. /\ Len(y) = 0 + Len(b) + Len(c)
        /\ \A i \in 1..Len(b) : y[0 + i] = b[i]
        /\ \A i \in 1..Len(c) : y[0 + Len(b) + i] = c[i]
    BY <1>0, RowIs
  <2> QED
    BY <1>0, <2>1
<1> HIDE DEF q, x, y, z
<1>4. Left(x, q, 0)
  BY <1>0, <1>1, <1>2 DEF Left
<1>5. Left(y, q, Len(a))
  <2>1. ASSUME NEW i \in 1..Len(y) PROVE y[i] = q[i + Len(a)]
    <3>1. CASE i <= Len(b)
      BY <1>0, <1>1, <1>3, <2>1, <3>1
    <3>2. CASE i > Len(b)
      <4>1. PICK j \in 1..Len(c) : i = Len(b) + j
        <5>1. i - Len(b) \in 1..Len(c) /\ i = Len(b) + (i - Len(b))
          BY <1>0, <1>3, <2>1, <3>2
        <5> QED
          BY <5>1
      <4>2. y[Len(b) + j] = c[j] /\ q[Len(a) + Len(b) + j] = c[j]
        BY <1>1, <1>3, <4>1
      <4>3. i + Len(a) = Len(a) + Len(b) + j
        BY <1>0, <4>1
      <4> QED
        BY <4>1, <4>2, <4>3
    <3> QED
      BY <1>0, <2>1, <3>1, <3>2
  <2> QED
    BY <1>0, <1>1, <1>3, <2>1 DEF Left
<1>6. ASSUME a # <<>> PROVE Left(z, q, 1) /\ q # <<>> /\ q[1] = Head(a)
  <2>1. /\ Tail(a) \in Seq(S) /\ Len(a) \in Nat \ {0} /\ Len(Tail(a)) = Len(a) - 1
        /\ \A i \in 1..Len(a) - 1 : Tail(a)[i] = a[i + 1]
        /\ Head(a) = a[1]
    BY <1>6, TailIs
  <2> DEFINE t == Tail(a)
  <2> HIDE DEF t
  <2>2. /\ Len(z) = Len(t) + Len(b) + Len(c)
        /\ \A i \in 1..Len(t) : z[i] = t[i]
        /\ \A i \in 1..Len(b) : z[Len(t) + i] = b[i]
        /\ \A i \in 1..Len(c) : z[Len(t) + Len(b) + i] = c[i]
    BY <2>1, RowIs DEF z, t
  <2>3. Len(t) = Len(a) - 1 /\ \A i \in 1..Len(a) - 1 : t[i] = a[i + 1]
    BY <2>1 DEF t
  <2>4. ASSUME NEW i \in 1..Len(z) PROVE z[i] = q[i + 1]
    <3>1. CASE i <= Len(t)
      BY <1>0, <1>1, <2>1, <2>2, <2>3, <2>4, <3>1
    <3>2. CASE i > Len(t) /\ i <= Len(t) + Len(b)
      <4>1. PICK j \in 1..Len(b) : i = Len(t) + j
        <5>1. i - Len(t) \in 1..Len(b) /\ i = Len(t) + (i - Len(t))
          BY <1>0, <2>1, <2>2, <2>3, <2>4, <3>2
        <5> QED
          BY <5>1
      <4>2. z[Len(t) + j] = b[j] /\ q[Len(a) + j] = b[j]
        BY <1>1, <2>2, <4>1
      <4>3. i + 1 = Len(a) + j
        BY <1>0, <2>1, <2>3, <4>1
      <4> QED
        BY <4>1, <4>2, <4>3
    <3>3. CASE i > Len(t) + Len(b)
      <4>1. PICK j \in 1..Len(c) : i = Len(t) + Len(b) + j
        <5>1. /\ i - (Len(t) + Len(b)) \in 1..Len(c)
              /\ i = Len(t) + Len(b) + (i - (Len(t) + Len(b)))
          BY <1>0, <2>1, <2>2, <2>3, <2>4, <3>3
        <5> QED
          BY <5>1
      <4>2. z[Len(t) + Len(b) + j] = c[j] /\ q[Len(a) + Len(b) + j] = c[j]
        BY <1>1, <2>2, <4>1
      <4>3. i + 1 = Len(a) + Len(b) + j
        BY <1>0, <2>1, <2>3, <4>1
      <4> QED
        BY <4>1, <4>2, <4>3
    <3> QED
      BY <1>0, <2>1, <2>3, <2>4, <3>1, <3>2, <3>3
  <2>5. q # <<>> /\ q[1] = a[1]
    BY <1>0, <1>1, <2>1
  <2> QED
    BY <1>0, <1>1, <2>1, <2>2, <2>3, <2>4, <2>5 DEF Left
<1> QED
  BY <1>4, <1>5, <1>6 DEF q, x, y, z

\* An item that moves from one part of a row to the next is where it was.
LEMMA PairShift ==
    ASSUME NEW S, NEW x \in Seq(S), NEW y \in Seq(S), y # <<>>
    PROVE  Append(x, Head(y)) \o Tail(y) = x \o y
<1>1. /\ Head(y) \in S /\ Tail(y) \in Seq(S) /\ y = <<Head(y)>> \o Tail(y)
  BY HeadTailProperties
<1>2. Append(x, Head(y)) = x \o <<Head(y)>>
  BY <1>1, AppendIsConcat
<1>3. <<Head(y)>> \in Seq(S)
  BY <1>1
<1>4. (x \o <<Head(y)>>) \o Tail(y) = x \o (<<Head(y)>> \o Tail(y))
  BY <1>1, <1>3, ConcatAssociative
<1> QED
  BY <1>1, <1>2, <1>4

LEMMA LastShift ==
    ASSUME NEW a \in Seq(Message), NEW b \in Seq(Message), NEW c \in Seq(Message), c # <<>>
    PROVE  a \o Append(b, Head(c)) \o Tail(c) = a \o b \o c
<1>1. \A u, v \in Seq(Message) : (a \o u) \o v = a \o (u \o v)
  <2>1. ASSUME NEW u \in Seq(Message), NEW v \in Seq(Message) PROVE (a \o u) \o v = a \o (u \o v)
    BY Regroup
  <2> QED
    BY <2>1
<1>2. Append(b, Head(c)) \in Seq(Message) /\ Tail(c) \in Seq(Message)
  BY HeadTailProperties, AppendProperties
<1>3. Append(b, Head(c)) \o Tail(c) = b \o c
  BY PairShift
<1>4. a \o Append(b, Head(c)) \o Tail(c) = a \o (Append(b, Head(c)) \o Tail(c))
  BY <1>1, <1>2, Zenon
<1>5. a \o (b \o c) = a \o b \o c
  BY <1>1
<1> QED
  BY <1>3, <1>4, <1>5, Zenon

-----------------------------------------------------------------------------
(* Messages and types *)

LEMMA Numbers ==
    ASSUME NEW s \in Sender
    PROVE  /\ Start(s) \in Message /\ Number(Start(s)) = 1 /\ Whispered(Start(s))
           /\ End(s) \in Message /\ Number(End(s)) = Chunks + 2 /\ Whispered(End(s))
           /\ Hello(s) \in Message /\ Number(Hello(s)) = 0 /\ ~Whispered(Hello(s))
           /\ \A i \in 1..Chunks : /\ Chunk(s, i) \in Message /\ Whispered(Chunk(s, i))
                                   /\ Number(Chunk(s, i)) = i + 1
<1>1. Chunks \in Nat \ {0} /\ s \in Node
  BY SizeAssumption DEF Node
<1> QED
  BY <1>1 DEF Start, End, Hello, Chunk, Message, Number, Whispered

\* A word is told by its number.
LEMMA WordOf ==
    ASSUME NEW s \in Sender, NEW m \in Words(s)
    PROVE  /\ m \in Message /\ Whispered(m) /\ m.from = s
           /\ Number(m) \in 1..Chunks + 2 /\ m # Hello(s)
           /\ Number(m) = 1 => m = Start(s)
           /\ Number(m) = Chunks + 2 => m = End(s)
           /\ Number(m) \in 2..Chunks + 1 => m = Chunk(s, Number(m) - 1)
<1>1. Chunks \in Nat \ {0}
  BY SizeAssumption
<1>2. CASE m = Start(s)
  <2>1. m.from = s
    BY <1>2 DEF Start
  <2> QED
    BY <1>1, <1>2, <2>1, Numbers
<1>3. CASE m = End(s)
  <2>1. m.from = s
    BY <1>3 DEF End
  <2> QED
    BY <1>1, <1>3, <2>1, Numbers
<1>4. ASSUME NEW i \in 1..Chunks, m = Chunk(s, i)
      PROVE  /\ m \in Message /\ Whispered(m) /\ m.from = s /\ Number(m) = i + 1
  BY <1>4, Numbers DEF Chunk
<1>5. ASSUME NEW i \in 1..Chunks, m = Chunk(s, i)
      PROVE  /\ m # Hello(s) /\ Number(m) \in 2..Chunks + 1 /\ Number(m) - 1 = i
  BY <1>1, <1>4, <1>5, Numbers
<1> QED
  BY <1>1, <1>2, <1>3, <1>4, <1>5 DEF Words

LEMMA WhispersAre ==
    ASSUME NEW s \in Sender
    PROVE  /\ Whispers(s) \in Seq(Message) /\ Len(Whispers(s)) = Chunks + 2
           /\ Whispers(s) # <<>> /\ Whispers(s)[1] = Start(s)
           /\ \A i \in 1..Chunks + 2 :
                 Whispers(s)[i] \in Words(s) /\ Number(Whispers(s)[i]) = i
<1>0. Chunks \in Nat \ {0}
  BY SizeAssumption
<1>a. PICK a, b, c : a = <<Start(s)>> /\ b = File(s) /\ c = <<End(s)>>
  OBVIOUS
<1>b. PICK q : q = a \o b \o c
  OBVIOUS
<1>1. a \in Seq(Message) /\ Len(a) = 1 /\ a[1] = Start(s)
  BY <1>a, Numbers
<1>2. c \in Seq(Message) /\ Len(c) = 1 /\ c[1] = End(s)
  BY <1>a, Numbers
<1>3. b \in Seq(Message) /\ Len(b) = Chunks /\ \A i \in 1..Chunks : b[i] = Chunk(s, i)
  BY <1>0, <1>a, Numbers DEF File
<1>4. /\ q \in Seq(Message) /\ Len(q) = Len(a) + Len(b) + Len(c)
      /\ \A i \in 1..Len(a) : q[i] = a[i]
      /\ \A i \in 1..Len(b) : q[Len(a) + i] = b[i]
      /\ \A i \in 1..Len(c) : q[Len(a) + Len(b) + i] = c[i]
  <2>1. a \in Seq(Message) /\ b \in Seq(Message) /\ c \in Seq(Message)
    BY <1>1, <1>2, <1>3
  <2>2. /\ a \o b \o c \in Seq(Message) /\ Len(a \o b \o c) = Len(a) + Len(b) + Len(c)
        /\ \A i \in 1..Len(a) : (a \o b \o c)[i] = a[i]
        /\ \A i \in 1..Len(b) : (a \o b \o c)[Len(a) + i] = b[i]
        /\ \A i \in 1..Len(c) : (a \o b \o c)[Len(a) + Len(b) + i] = c[i]
    BY <2>1, RowIs, SMTT(30)
  <2> QED
    BY <1>b, <2>2, Zenon
<1>5. /\ Len(q) = Chunks + 2 /\ q[1] = Start(s) /\ q[Chunks + 2] = End(s)
      /\ \A i \in 1..Chunks : q[1 + i] = Chunk(s, i)
  <2>1. q[1] = a[1] /\ q[Len(a) + Len(b) + 1] = c[1]
    BY <1>0, <1>1, <1>2, <1>4
  <2>2. Len(a) + Len(b) + 1 = Chunks + 2
    BY <1>0, <1>1, <1>3
  <2> QED
    BY <1>0, <1>1, <1>2, <1>3, <1>4, <2>1, <2>2
<1>6. ASSUME NEW i \in 1..Chunks + 2 PROVE q[i] \in Words(s) /\ Number(q[i]) = i
  <2>1. CASE i = 1
    BY <1>5, <2>1, Numbers DEF Words
  <2>2. CASE i = Chunks + 2
    BY <1>5, <2>2, Numbers DEF Words
  <2>3. CASE i \in 2..Chunks + 1
    <3>1. i - 1 \in 1..Chunks /\ 1 + (i - 1) = i
      BY <1>0, <2>3
    <3>2. q[1 + (i - 1)] = Chunk(s, i - 1)
      BY <1>5, <3>1
    <3>3. Number(Chunk(s, i - 1)) = (i - 1) + 1
      BY <3>1, Numbers
    <3> QED
      BY <1>0, <3>1, <3>2, <3>3 DEF Words
  <2> QED
    BY <1>0, <1>6, <2>1, <2>2, <2>3
<1>7. q # <<>>
  BY <1>0, <1>4, <1>5, EmptySeq
<1>8. q = Whispers(s)
  BY <1>a, <1>b DEF Whispers
<1> QED
  BY <1>4, <1>5, <1>6, <1>7, <1>8

LEMMA EmitTypes ==
    ASSUME events \in Seq(Message), NEW e \in Message, Emit(e)
    PROVE  events' \in Seq(Message)
BY AppendProperties DEF Emit

LEMMA TypesInit == Init => QueueTypes
<1> SUFFICES ASSUME Init PROVE QueueTypes
  OBVIOUS
<1>1. <<>> \in Seq(Message)
  BY EmptySeq
<1> QED
  BY <1>1 DEF Init, QueueTypes, Node

LEMMA TypesStep == QueueTypes /\ Next => QueueTypes'
<1> SUFFICES ASSUME QueueTypes, Next PROVE QueueTypes'
  OBVIOUS
<1> USE DEF QueueTypes
<1>0. Receiver \in Node /\ Sender \subseteq Node /\ Receiver \notin Sender /\ <<>> \in Seq(Message)
  BY NodeAssumption, EmptySeq DEF Node
<1>1. ASSUME NEW s \in Sender, Meet(s) PROVE QueueTypes'
  <2>1. <<Hello(s)>> \in Seq(Message)
    BY Numbers
  <2> QED
    BY <1>1, <2>1 DEF Meet, queue, disk
<1>2. ASSUME NEW s \in Sender, SendFile(s) PROVE QueueTypes'
  <2>1. Whispers(s) \in Seq(Message)
    BY WhispersAre
  <2> QED
    BY <1>2, <2>1 DEF SendFile, queue, disk, net
<1>3. ASSUME NEW s \in Sender, Execute(s) PROVE QueueTypes'
  <2>1. /\ Head(api[s]) \in Message /\ Tail(api[s]) \in Seq(Message)
        /\ Append(pipe[s], Head(api[s])) \in Seq(Message)
    BY <1>3, HeadTailProperties, AppendProperties DEF Execute
  <2>2. api' \in [Sender -> Seq(Message)]
    BY <1>3, <2>1 DEF Execute
  <2>3. /\ pipe' \in [Sender -> Seq(Message)]
        /\ dealer' \in [Sender -> {None, "open", "cut"}]
    BY <1>0, <1>3, <2>1 DEF Execute, Close
  <2>4. UNCHANGED <<loop, flag, gone, inbox, ready, events, asked>>
    BY <1>3 DEF Execute, queue
  <2> QED
    BY <2>2, <2>3, <2>4
<1>4. ASSUME NEW s \in Sender, Ship(s) PROVE QueueTypes'
  <2>1. /\ Head(pipe[s]) \in Message /\ Tail(pipe[s]) \in Seq(Message)
        /\ Append(inbox[s], Head(pipe[s])) \in Seq(Message)
    BY <1>4, HeadTailProperties, AppendProperties DEF Ship
  <2> QED
    BY <1>0, <1>4, <2>1 DEF Ship, queue, disk
<1>5. ASSUME NEW s \in Sender, Forget(s) PROVE QueueTypes'
  BY <1>0, <1>5 DEF Forget, Close, queue, disk
<1>6. ASSUME NEW s \in Sender, FinishSend(s) PROVE QueueTypes'
  <2>1. /\ pipe' \in [Sender -> Seq(Message)]
        /\ dealer' \in [Sender -> {None, "open", "cut"}]
    BY <1>0, <1>6 DEF FinishSend, Close
  <2>2. /\ loop' \in [Node -> {"running", "cancelled", "raised"}]
        /\ \A n \in Node : loop'[n] = "running" <=> n \in flag'
        /\ gone' \cap flag' = {} /\ loop'[Receiver] = loop[Receiver]
    <3>1. s \in Node /\ s # Receiver
      BY <1>0
    <3> QED
      BY <1>0, <1>6, <3>1 DEF FinishSend, Teardown
  <2>3. UNCHANGED <<api, inbox, ready, events, asked>>
    BY <1>6 DEF FinishSend, queue
  <2> QED
    BY <2>1, <2>2, <2>3
<1>7. ASSUME NEW s \in Sender, TakeFrame(s) PROVE QueueTypes'
  <2>1. Head(inbox[s]) \in Message /\ Tail(inbox[s]) \in Seq(Message)
    BY <1>7, HeadTailProperties DEF TakeFrame
  <2>2. events' \in Seq(Message)
    BY <1>7, <2>1, EmitTypes DEF TakeFrame, queue
  <2> QED
    BY <1>0, <1>7, <2>1, <2>2 DEF TakeFrame, disk
<1>8. ASSUME NEW s \in Sender, Exit(s) PROVE QueueTypes'
  <2>1. Gone(s) \in Message
    BY <1>0, SizeAssumption DEF Gone, Message
  <2>2. events' \in Seq(Message)
    BY <1>8, <2>1, EmitTypes DEF Exit
  <2> QED
    BY <1>0, <1>8, <2>2 DEF Exit, disk
<1>9. ASSUME Read PROVE QueueTypes'
  <2>1. Tail(events) \in Seq(Message)
    BY <1>9, HeadTailProperties DEF Read
  <2> QED
    BY <1>9, <2>1 DEF Read, net
<1>10. ASSUME EndOfEvents PROVE QueueTypes'
  BY <1>10 DEF EndOfEvents, net, queue, disk
<1>11. ASSUME Quit PROVE QueueTypes'
  <2>1. /\ loop' \in [Node -> {"running", "cancelled", "raised"}]
        /\ \A n \in Node : loop'[n] = "running" <=> n \in flag'
        /\ gone' \cap flag' = {}
    BY <1>0, <1>11 DEF Quit, Teardown
  <2>2. inbox' \in [Sender -> Seq(Message)] /\ ready' = {}
    BY <1>0, <1>11 DEF Quit
  <2>3. UNCHANGED <<api, pipe, dealer, events, asked>>
    BY <1>11 DEF Quit, queue
  <2> QED
    BY <2>1, <2>2, <2>3
<1>12. ASSUME NEW n \in Node, Collide(n) PROVE QueueTypes'
  <2>1. Collision \in Message
    BY <1>0, SizeAssumption DEF Collision, Message
  <2>2. events' \in Seq(Message)
    BY <1>12, <2>1, EmitTypes DEF Collide, queue
  <2>3. /\ loop' \in [Node -> {"running", "cancelled", "raised"}]
        /\ \A m \in Node : loop'[m] = "running" <=> m \in flag'
        /\ gone' \cap flag' = {}
    BY <1>12 DEF Collide
  <2>4. CASE n = Receiver
    <3>1. inbox' \in [Sender -> Seq(Message)] /\ ready' = {}
      BY <1>0, <1>12, <2>4 DEF Collide
    <3>2. UNCHANGED <<api, pipe, dealer, asked>>
      BY <1>12, <2>4 DEF Collide
    <3> QED
      BY <2>2, <2>3, <3>1, <3>2
  <2>5. CASE n # Receiver
    <3>1. /\ pipe' \in [Sender -> Seq(Message)]
          /\ dealer' \in [Sender -> {None, "open", "cut"}]
      BY <1>0, <1>12, <2>5 DEF Collide, Close
    <3>2. UNCHANGED <<api, inbox, ready, asked>> /\ loop'[Receiver] = loop[Receiver]
      BY <1>0, <1>12, <2>5 DEF Collide
    <3> QED
      BY <2>2, <2>3, <3>1, <3>2
  <2> QED
    BY <2>4, <2>5
<1> QED
  BY <1>1, <1>2, <1>3, <1>4, <1>5, <1>6, <1>7, <1>8, <1>9, <1>10, <1>11, <1>12 DEF Next

-----------------------------------------------------------------------------
(* The line of a sender *)

Silent(s) ==
    /\ inbox'[s] = inbox[s] /\ pipe'[s] = pipe[s] /\ dealer'[s] = dealer[s]
    /\ api'[s] = api[s]

LEMMA LineTypes ==
    ASSUME QueueTypes, NEW s \in Sender
    PROVE  Line(s) \in Seq(Message)
<1>1. inbox[s] \in Seq(Message) /\ pipe[s] \in Seq(Message) /\ api[s] \in Seq(Message)
  BY DEF QueueTypes
<1>2. (IF dealer[s] = "open" THEN api[s] ELSE <<>>) \in Seq(Message)
  BY <1>1, EmptySeq
<1> QED
  BY <1>1, <1>2, RowIs DEF Line

\* Of an empty line all parts are.
LEMMA LineEmpty ==
    ASSUME QueueTypes, NEW s \in Sender, Line(s) = <<>>
    PROVE  inbox[s] = <<>> /\ pipe[s] = <<>>
<1> DEFINE c == IF dealer[s] = "open" THEN api[s] ELSE <<>>
<1>1. inbox[s] \in Seq(Message) /\ pipe[s] \in Seq(Message) /\ api[s] \in Seq(Message)
  BY DEF QueueTypes
<1>2. c \in Seq(Message)
  BY <1>1, EmptySeq
<1> HIDE DEF c
<1>3. Len(inbox[s] \o pipe[s] \o c) = Len(inbox[s]) + Len(pipe[s]) + Len(c)
  BY <1>1, <1>2, RowIs
<1>4. inbox[s] \o pipe[s] \o c = <<>>
  BY DEF Line, c
<1>5. Len(inbox[s]) \in Nat /\ Len(pipe[s]) \in Nat /\ Len(c) \in Nat
  BY <1>1, <1>2, LenProperties
<1>6. Len(inbox[s]) + Len(pipe[s]) + Len(c) = 0
  BY <1>3, <1>4, EmptySeq
<1>7. Len(inbox[s]) = 0 /\ Len(pipe[s]) = 0
  <2>1. \A x, y, z \in Nat : x + y + z = 0 => x = 0 /\ y = 0
    OBVIOUS
  <2> QED
    BY <1>5, <1>6, <2>1
<1> QED
  BY <1>1, <1>7, EmptySeq

LEMMA LeftAll ==
    ASSUME NEW q \in Seq(Message)
    PROVE  Left(q, q, 0)
BY LenProperties DEF Left

\* What a step makes of the line of s, and who is ready after it.
Kept(s) == Left(Line(s)', Line(s), 0) /\ (s \in ready' => s \in ready)
Halved(s) == s \notin ready' /\ \E k \in Nat : Left(Line(s)', Line(s), k)
Taken(s) ==
    TakeFrame(s) /\ Line(s) # <<>> /\ Line(s)[1] = Head(inbox[s]) /\ Left(Line(s)', Line(s), 1)
Met(s) == Meet(s) /\ Line(s) = <<>> /\ Line(s)' = <<Hello(s)>> /\ s \notin asked' \cup ready'
Spoke(s) ==
    /\ s \notin asked /\ asked' = asked \cup {s} /\ ready' = ready
    /\ Line(s)' = Line(s) \o Whispers(s)

\* Where a connection is closed, what the ROUTER has of it is left.
LEMMA CloseLeaves ==
    ASSUME QueueTypes, NEW s \in Sender,
           inbox'[s] = inbox[s], pipe'[s] = <<>>, dealer'[s] # "open"
    PROVE  Left(Line(s)', Line(s), 0)
<1> DEFINE c == IF dealer[s] = "open" THEN api[s] ELSE <<>>
<1>1. inbox[s] \in Seq(Message) /\ pipe[s] \in Seq(Message) /\ api[s] \in Seq(Message)
  BY DEF QueueTypes
<1>2. c \in Seq(Message)
  BY <1>1, EmptySeq
<1> HIDE DEF c
<1>3. Left(inbox[s] \o <<>> \o <<>>, inbox[s] \o pipe[s] \o c, 0)
  BY <1>1, <1>2, RowParts
<1>4. Line(s) = inbox[s] \o pipe[s] \o c
  BY DEF Line, c
<1>5. Line(s)' = inbox[s] \o <<>> \o <<>>
  BY DEF Line
<1> QED
  BY <1>3, <1>4, <1>5

\* Where the ROUTER is closed, what it had is lost.
LEMMA LossLeaves ==
    ASSUME QueueTypes, NEW s \in Sender,
           inbox'[s] = <<>>, pipe'[s] = pipe[s], dealer'[s] = dealer[s], api'[s] = api[s]
    PROVE  \E k \in Nat : Left(Line(s)', Line(s), k)
<1> DEFINE c == IF dealer[s] = "open" THEN api[s] ELSE <<>>
<1>1. inbox[s] \in Seq(Message) /\ pipe[s] \in Seq(Message) /\ api[s] \in Seq(Message)
  BY DEF QueueTypes
<1>2. c \in Seq(Message)
  BY <1>1, EmptySeq
<1> HIDE DEF c
<1>3. Left(<<>> \o pipe[s] \o c, inbox[s] \o pipe[s] \o c, Len(inbox[s]))
  BY <1>1, <1>2, RowParts
<1>4. Line(s) = inbox[s] \o pipe[s] \o c
  BY DEF Line, c
<1>5. Line(s)' = <<>> \o pipe[s] \o c
  BY DEF Line, c
<1>6. Len(inbox[s]) \in Nat
  BY <1>1, LenProperties
<1> QED
  BY <1>3, <1>4, <1>5, <1>6

LEMMA SilentKeeps ==
    ASSUME QueueTypes, NEW s \in Sender, Silent(s)
    PROVE  Left(Line(s)', Line(s), 0)
<1>1. Line(s)' = Line(s)
  BY DEF Silent, Line
<1> QED
  BY <1>1, LineTypes, LeftAll

LEMMA LineStep ==
    ASSUME QueueTypes, NEW s \in Sender, Greeting(s), Next
    PROVE  Kept(s) \/ Halved(s) \/ Taken(s) \/ Met(s) \/ Spoke(s)
<1> DEFINE c == IF dealer[s] = "open" THEN api[s] ELSE <<>>
           Goal == Kept(s) \/ Halved(s) \/ Taken(s) \/ Met(s) \/ Spoke(s)
<1>0. /\ inbox[s] \in Seq(Message) /\ pipe[s] \in Seq(Message) /\ api[s] \in Seq(Message)
      /\ inbox \in [Sender -> Seq(Message)] /\ pipe \in [Sender -> Seq(Message)]
      /\ api \in [Sender -> Seq(Message)]
      /\ dealer \in [Sender -> {None, "open", "cut"}] /\ dealer[s] \in {None, "open", "cut"}
      /\ None \notin {"open", "cut"} /\ Receiver \notin Sender
      /\ c \in Seq(Message) /\ <<>> \in Seq(Message)
  BY NoneAssumption, NodeAssumption, EmptySeq DEF QueueTypes
<1>00. Line(s) = inbox[s] \o pipe[s] \o c
  BY DEF Line
<1> HIDE DEF c
<1>T. inbox[s] \in Seq(Message) /\ pipe[s] \in Seq(Message) /\ api[s] \in Seq(Message) /\ c \in Seq(Message)
  BY <1>0
<1>K. ASSUME Silent(s), s \in ready' => s \in ready PROVE Goal
  BY <1>K, SilentKeeps DEF Kept
<1>1. ASSUME NEW x \in Sender, Meet(x) PROVE Goal
  <2>1. CASE x = s
    <3>1. /\ inbox'[s] = inbox[s] /\ api'[s] = api[s] /\ pipe'[s] = <<Hello(s)>>
          /\ dealer'[s] = "open" /\ ready' = ready /\ asked' = asked
          /\ dealer[s] = None /\ loop[s] = "running" /\ loop[Receiver] = "running"
      BY <1>0, <1>1, <2>1 DEF Meet, Polls, QueueTypes, Node
    <3>2. Line(s) = <<>> /\ s \notin asked \cup ready /\ api[s] = <<>>
      BY <3>1 DEF Greeting
    <3>3. inbox[s] = <<>>
      BY <3>2, LineEmpty
    <3>4. Line(s)' = <<>> \o <<Hello(s)>> \o <<>>
      BY <3>1, <3>2, <3>3 DEF Line
    <3>5. <<Hello(s)>> \in Seq(Message)
      BY Numbers
    <3>6. Line(s)' = <<Hello(s)>>
      BY <3>4, <3>5, ConcatEmptySeq
    <3> QED
      BY <1>1, <2>1, <3>1, <3>2, <3>6 DEF Met
  <2>2. CASE x # s
    <3>1. Silent(s) /\ ready' = ready
      BY <1>0, <1>1, <2>2 DEF Meet, Silent
    <3> QED
      BY <3>1, <1>K
  <2> QED
    BY <2>1, <2>2
<1>2. ASSUME NEW x \in Sender, SendFile(x) PROVE Goal
  <2>0. /\ inbox' = inbox /\ pipe' = pipe /\ dealer' = dealer /\ ready' = ready
        /\ asked' = asked \cup {x} /\ x \notin asked
        /\ api' = [api EXCEPT ![x] = Whispers(x)]
    BY <1>2 DEF SendFile, net
  <2>1. CASE x = s /\ dealer[s] = "open"
    <3>1. api[s] = <<>> /\ api'[s] = Whispers(s)
      BY <1>0, <2>0, <2>1 DEF Greeting
    <3>2. Line(s) = inbox[s] \o pipe[s] \o <<>> /\ Line(s)' = inbox[s] \o pipe[s] \o Whispers(s)
      BY <2>0, <2>1, <3>1 DEF Line
    <3>3. inbox[s] \o pipe[s] \in Seq(Message)
      BY <1>0, ConcatProperties
    <3>4. Line(s)' = Line(s) \o Whispers(s)
      BY <3>2, <3>3, ConcatEmptySeq
    <3> QED
      BY <2>0, <2>1, <3>4 DEF Spoke
  <2>2. CASE x = s /\ dealer[s] # "open"
    <3>1. Line(s)' = Line(s)
      BY <2>0, <2>2 DEF Line
    <3> QED
      BY <2>0, <3>1, LineTypes, LeftAll DEF Kept
  <2>3. CASE x # s
    <3>1. Silent(s)
      BY <1>0, <2>0, <2>3 DEF Silent
    <3> QED
      BY <2>0, <3>1, <1>K
  <2> QED
    BY <2>1, <2>2, <2>3
<1>3. ASSUME NEW x \in Sender, Execute(x) PROVE Goal
  <2>0. ready' = ready /\ inbox' = inbox
    BY <1>3 DEF Execute
  <2>1. CASE x # s
    <3>1. Silent(s)
      BY <1>0, <1>3, <2>1 DEF Execute, Close, Silent
    <3> QED
      BY <2>0, <3>1, <1>K
  <2>2. ASSUME x = s, dealer[s] = "open", pipe' = [pipe EXCEPT ![s] = Append(@, Head(api[s]))],
               dealer' = dealer
        PROVE  Goal
    <3>1. api[s] # <<>> /\ api'[s] = Tail(api[s]) /\ pipe'[s] = Append(pipe[s], Head(api[s]))
      BY <1>0, <1>3, <2>2 DEF Execute
    <3>2. Line(s)' = inbox[s] \o pipe'[s] \o api'[s]
      BY <2>0, <2>2 DEF Line
    <3>3. Line(s) = inbox[s] \o pipe[s] \o api[s]
      BY <2>2 DEF Line
    <3>4. inbox[s] \o pipe'[s] \o api'[s] = inbox[s] \o pipe[s] \o api[s]
      <4>1. \A u, v, w \in Seq(Message) :
               w # <<>> => u \o Append(v, Head(w)) \o Tail(w) = u \o v \o w
        BY LastShift
      <4>2. inbox[s] \o Append(pipe[s], Head(api[s])) \o Tail(api[s]) = inbox[s] \o pipe[s] \o api[s]
        BY <1>T, <3>1, <4>1, Zenon
      <4> QED
        BY <3>1, <4>2
    <3>5. Line(s)' = Line(s)
      BY <3>2, <3>3, <3>4
    <3> QED
      BY <2>0, <3>5, LineTypes, LeftAll DEF Kept
  <2>3. ASSUME x = s, Close(s, "cut") PROVE Goal
    <3>1. inbox'[s] = inbox[s] /\ pipe'[s] = <<>> /\ dealer'[s] # "open"
      BY <1>0, <2>0, <2>3 DEF Close
    <3> QED
      BY <2>0, <3>1, CloseLeaves DEF Kept
  <2>4. ASSUME x = s, dealer[s] # "open", dealer' = dealer, pipe' = pipe PROVE Goal
    <3>1. Line(s)' = Line(s)
      BY <2>0, <2>4 DEF Line
    <3> QED
      BY <2>0, <3>1, LineTypes, LeftAll DEF Kept
  <2> QED
    BY <1>3, <2>1, <2>2, <2>3, <2>4 DEF Execute
<1>4. ASSUME NEW x \in Sender, Ship(x) PROVE Goal
  <2>0. ready' = ready /\ dealer' = dealer /\ api' = api
    BY <1>4 DEF Ship
  <2>1. CASE x # s
    <3>1. Silent(s)
      BY <1>0, <1>4, <2>0, <2>1 DEF Ship, Silent
    <3> QED
      BY <2>0, <3>1, <1>K
  <2>2. CASE x = s
    <3>1. /\ pipe[s] # <<>> /\ pipe'[s] = Tail(pipe[s])
          /\ inbox'[s] = Append(inbox[s], Head(pipe[s]))
      BY <1>0, <1>4, <2>2 DEF Ship
    <3>2. Line(s)' = inbox'[s] \o pipe'[s] \o c
      BY <2>0 DEF Line, c
    <3>3. inbox'[s] \o pipe'[s] = inbox[s] \o pipe[s]
      BY <1>T, <3>1, PairShift
    <3>4. Line(s)' = Line(s)
      BY <1>00, <3>2, <3>3
    <3> QED
      BY <2>0, <3>4, LineTypes, LeftAll DEF Kept
  <2> QED
    BY <2>1, <2>2
<1>5. ASSUME NEW x \in Sender, Forget(x) \/ FinishSend(x) PROVE Goal
  <2>0. ready' = ready /\ inbox' = inbox /\ api' = api /\ Close(x, None)
    BY <1>5 DEF Forget, FinishSend
  <2>1. CASE x # s
    <3>1. Silent(s)
      BY <1>0, <2>0, <2>1 DEF Close, Silent
    <3> QED
      BY <2>0, <3>1, <1>K
  <2>2. CASE x = s
    <3>1. inbox'[s] = inbox[s] /\ pipe'[s] = <<>> /\ dealer'[s] # "open"
      BY <1>0, <2>0, <2>2 DEF Close
    <3> QED
      BY <2>0, <3>1, CloseLeaves DEF Kept
  <2> QED
    BY <2>1, <2>2
<1>6. ASSUME NEW x \in Sender, TakeFrame(x) PROVE Goal
  <2>0. /\ pipe' = pipe /\ dealer' = dealer /\ api' = api /\ inbox[x] # <<>>
        /\ inbox' = [inbox EXCEPT ![x] = Tail(@)] /\ ready' \subseteq ready \cup {x}
    BY <1>6 DEF TakeFrame
  <2>1. CASE x # s
    <3>1. Silent(s)
      BY <1>0, <2>0, <2>1 DEF Silent
    <3> QED
      BY <2>0, <2>1, <3>1, <1>K
  <2>2. CASE x = s
    <3>1. Line(s)' = Tail(inbox[s]) \o pipe[s] \o c
      BY <1>0, <2>0, <2>2 DEF Line, c
    <3>2. /\ Left(Tail(inbox[s]) \o pipe[s] \o c, inbox[s] \o pipe[s] \o c, 1)
          /\ inbox[s] \o pipe[s] \o c # <<>>
          /\ (inbox[s] \o pipe[s] \o c)[1] = Head(inbox[s])
      <4>1. inbox[s] # <<>>
        BY <2>0, <2>2
      <4> QED
        BY <1>T, <4>1, RowParts
    <3>3. /\ Left(Line(s)', Line(s), 1) /\ Line(s) # <<>> /\ Line(s)[1] = Head(inbox[s])
      BY <1>00, <3>1, <3>2
    <3>4. TakeFrame(s)
      BY <1>6, <2>2
    <3> QED
      BY <3>3, <3>4 DEF Taken
  <2> QED
    BY <2>1, <2>2
<1>7. ASSUME NEW x \in Sender, Exit(x) PROVE Goal
  <2>1. Silent(s) /\ ready' \subseteq ready
    BY <1>7 DEF Exit, Silent
  <2> QED
    BY <2>1, <1>K
<1>8. ASSUME Read \/ EndOfEvents PROVE Goal
  <2>1. Silent(s) /\ ready' = ready
    BY <1>8 DEF Read, EndOfEvents, Silent, net
  <2> QED
    BY <2>1, <1>K
<1>9. ASSUME Quit \/ Collide(Receiver) PROVE Goal
  <2>1. /\ inbox'[s] = <<>> /\ pipe' = pipe /\ dealer' = dealer /\ api' = api /\ ready' = {}
    BY <1>9 DEF Quit, Collide
  <2> QED
    BY <2>1, LossLeaves DEF Halved
<1>10. ASSUME NEW n \in Node, n # Receiver, Collide(n) PROVE Goal
  <2>0. /\ n \in Sender /\ Close(n, None) /\ inbox' = inbox /\ ready' = ready /\ api' = api
    BY <1>10 DEF Collide, Node
  <2>1. CASE n # s
    <3>1. Silent(s)
      BY <1>0, <2>0, <2>1 DEF Close, Silent
    <3> QED
      BY <2>0, <3>1, <1>K
  <2>2. CASE n = s
    <3>1. inbox'[s] = inbox[s] /\ pipe'[s] = <<>> /\ dealer'[s] # "open"
      BY <1>0, <2>0, <2>2 DEF Close
    <3> QED
      BY <2>0, <3>1, CloseLeaves DEF Kept
  <2> QED
    BY <2>1, <2>2
<1> QED
  BY <1>1, <1>2, <1>3, <1>4, <1>5, <1>6, <1>7, <1>8, <1>9, <1>10 DEF Next, Node

-----------------------------------------------------------------------------
(* Nothing is missing from a line but at its end *)

LEMMA SeamlessLeft ==
    ASSUME NEW s \in Sender, NEW q \in Seq(Message), NEW r \in Seq(Message), NEW k \in Nat,
           Seamless(q, s), Left(r, q, k)
    PROVE  Seamless(r, s)
<1>0. Len(q) \in Nat /\ Len(r) \in Nat
  BY LenProperties
<1>1. ASSUME NEW i \in 1..Len(r) PROVE r[i] \in Words(s) \cup {Hello(s)}
  <2>1. i + k \in 1..Len(q) /\ r[i] = q[i + k]
    BY <1>0, <1>1 DEF Left
  <2> QED
    BY <2>1 DEF Seamless
<1>2. ASSUME NEW i \in 1..Len(r) - 1 PROVE Number(r[i + 1]) = Number(r[i]) + 1
  <2>1. /\ i + k \in 1..Len(q) - 1 /\ i \in 1..Len(r) /\ i + 1 \in 1..Len(r)
        /\ (i + 1) + k = (i + k) + 1
    BY <1>0, <1>2 DEF Left
  <2>2. r[i] = q[i + k] /\ r[i + 1] = q[(i + k) + 1]
    BY <2>1 DEF Left
  <2>3. Number(q[(i + k) + 1]) = Number(q[i + k]) + 1
    BY <2>1 DEF Seamless
  <2> QED
    BY <2>2, <2>3
<1> QED
  BY <1>1, <1>2 DEF Seamless

\* Only the first item of a line can be a HELLO.
LEMMA HelloLeads ==
    ASSUME NEW s \in Sender, NEW q \in Seq(Message), Seamless(q, s), NEW i \in 2..Len(q)
    PROVE  q[i] # Hello(s) /\ Number(q[i]) # 0 /\ Number(q[i]) = Number(q[i - 1]) + 1
<1>0. Len(q) \in Nat /\ i \in 1..Len(q) /\ i - 1 \in 1..Len(q) - 1 /\ (i - 1) + 1 = i
  BY LenProperties
<1>1. Number(q[i]) = Number(q[i - 1]) + 1 /\ q[i - 1] \in Words(s) \cup {Hello(s)}
  BY <1>0 DEF Seamless
<1>2. Number(q[i - 1]) \in Nat
  BY <1>1, WordOf, Numbers, SizeAssumption
<1>3. Number(q[i]) # 0
  BY <1>1, <1>2
<1> QED
  BY <1>1, <1>3, Numbers

\* Who greeted and said nothing can speak.
LEMMA SeamlessSpoke ==
    ASSUME NEW s \in Sender, NEW q \in Seq(Message), Seamless(q, s),
           \A i \in 1..Len(q) : q[i] = Hello(s)
    PROVE  /\ q \o Whispers(s) \in Seq(Message) /\ Seamless(q \o Whispers(s), s)
           /\ q \o Whispers(s) # <<>>
           /\ (q \o Whispers(s))[1] = IF q = <<>> THEN Start(s) ELSE q[1]
<1> DEFINE w == Whispers(s)
           r == q \o w
<1>0. Chunks \in Nat \ {0} /\ Len(q) \in Nat
  BY SizeAssumption, LenProperties
<1>1. /\ w \in Seq(Message) /\ Len(w) = Chunks + 2 /\ w[1] = Start(s)
      /\ \A i \in 1..Chunks + 2 : w[i] \in Words(s) /\ Number(w[i]) = i
  BY WhispersAre
<1> HIDE DEF w
<1>2. /\ r \in Seq(Message) /\ Len(r) = Len(q) + (Chunks + 2)
      /\ \A i \in 1..Len(q) + (Chunks + 2) : r[i] = IF i <= Len(q) THEN q[i] ELSE w[i - Len(q)]
  BY <1>1, ConcatProperties
<1> HIDE DEF r
<1>3. Len(q) \in {0, 1}
  <2>1. ASSUME Len(q) >= 2 PROVE FALSE
    <3>1. 2 \in 2..Len(q) /\ 2 \in 1..Len(q)
      BY <1>0, <2>1
    <3> QED
      BY <3>1, HelloLeads
  <2>2. \A x \in Nat : ~(x >= 2) => x \in {0, 1}
    OBVIOUS
  <2> QED
    BY <1>0, <2>1, <2>2
<1>4. CASE Len(q) = 0
  <2>1. q = <<>>
    BY <1>4, EmptySeq
  <2>2. Len(r) = Chunks + 2 /\ \A i \in 1..Chunks + 2 : r[i] = w[i]
    BY <1>0, <1>2, <1>4
  <2>3. r # <<>> /\ r[1] = Start(s)
    BY <1>0, <1>1, <1>2, <2>2, EmptySeq
  <2>4. Seamless(r, s)
    BY <1>0, <1>1, <2>2 DEF Seamless
  <2> QED
    BY <1>2, <2>1, <2>3, <2>4 DEF r, w
<1>5. CASE Len(q) = 1
  <2>1. q # <<>> /\ q[1] = Hello(s)
    <3>1. 1 \in 1..Len(q)
      BY <1>5
    <3>2. Len(<<>>) = 0
      BY EmptySeq
    <3> QED
      BY <1>5, <3>1, <3>2
  <2>2. Len(r) = Chunks + 3 /\ r[1] = Hello(s) /\ \A i \in 1..Chunks + 2 : r[i + 1] = w[i]
    BY <1>0, <1>2, <1>5, <2>1
  <2>3. r # <<>>
    BY <1>0, <1>2, <2>2, EmptySeq
  <2>4. ASSUME NEW i \in 1..Len(r) PROVE r[i] \in Words(s) \cup {Hello(s)} /\ Number(r[i]) = i - 1
    <3>1. CASE i = 1
      BY <2>2, <3>1, Numbers
    <3>2. CASE i # 1
      <4>1. i - 1 \in 1..Chunks + 2 /\ (i - 1) + 1 = i
        BY <1>0, <2>2, <2>4, <3>2
      <4>2. r[(i - 1) + 1] = w[i - 1]
        BY <2>2, <4>1
      <4> QED
        BY <1>1, <4>1, <4>2
    <3> QED
      BY <3>1, <3>2
  <2>5. ASSUME NEW i \in 1..Len(r) - 1 PROVE Number(r[i + 1]) = Number(r[i]) + 1
    <3>1. i \in 1..Len(r) /\ i + 1 \in 1..Len(r)
      BY <1>0, <2>2, <2>5
    <3>2. Number(r[i]) = i - 1 /\ Number(r[i + 1]) = (i + 1) - 1
      BY <2>4, <3>1
    <3> QED
      BY <1>0, <2>2, <2>5, <3>2
  <2>6. Seamless(r, s)
    BY <2>4, <2>5 DEF Seamless
  <2> QED
    BY <1>2, <2>1, <2>2, <2>3, <2>6 DEF r, w
<1> QED
  BY <1>3, <1>4, <1>5

\* What takes a sender's right to greet is never undone.
LEMMA GreetFrame ==
    ASSUME QueueTypes, Next, NEW s \in Sender
    PROVE  /\ s \notin asked' => s \notin asked /\ (api[s] = <<>> => api'[s] = <<>>)
           /\ s \in ready' /\ s \notin ready => TakeFrame(s)
           /\ dealer'[s] = None /\ loop'[s] = "running" /\ loop'[Receiver] = "running" =>
                 /\ dealer[s] = None /\ loop[s] = "running" /\ loop[Receiver] = "running"
                 /\ s \in asked' => s \in asked
                 /\ ~Met(s) /\ ~Spoke(s)
<1> DEFINE Goal ==
             /\ s \notin asked' => s \notin asked /\ (api[s] = <<>> => api'[s] = <<>>)
             /\ s \in ready' /\ s \notin ready => TakeFrame(s)
             /\ dealer'[s] = None /\ loop'[s] = "running" /\ loop'[Receiver] = "running" =>
                   /\ dealer[s] = None /\ loop[s] = "running" /\ loop[Receiver] = "running"
                   /\ s \in asked' => s \in asked
<1>0. /\ inbox \in [Sender -> Seq(Message)] /\ pipe \in [Sender -> Seq(Message)]
      /\ api \in [Sender -> Seq(Message)]
      /\ dealer \in [Sender -> {None, "open", "cut"}]
      /\ loop \in [Node -> {"running", "cancelled", "raised"}]
      /\ s \in Node /\ Receiver \in Node /\ Receiver \notin Sender /\ Sender \subseteq Node
      /\ \A n \in Node : loop[n] = "running" <=> n \in flag
      /\ gone \cap flag = {} /\ None \notin {"open", "cut"}
  BY NodeAssumption, NoneAssumption DEF QueueTypes, Node
<1>1. ASSUME NEW x \in Sender, Meet(x) PROVE Goal
  <2>1. loop' = loop /\ asked' = asked /\ api' = api /\ ready' = ready
    BY <1>1 DEF Meet
  <2>2. dealer'[s] = None => dealer[s] = None
    BY <1>0, <1>1 DEF Meet
  <2> QED
    BY <2>1, <2>2
<1>2. ASSUME NEW x \in Sender, SendFile(x) PROVE Goal
  <2>1. loop' = loop /\ dealer' = dealer /\ ready' = ready /\ asked' = asked \cup {x}
    BY <1>2 DEF SendFile, net
  <2>2. x # s => api'[s] = api[s]
    BY <1>0, <1>2 DEF SendFile
  <2>3. dealer[x] # None
    BY <1>2 DEF SendFile
  <2> QED
    BY <2>1, <2>2, <2>3
<1>3. ASSUME NEW x \in Sender, Execute(x) PROVE Goal
  <2>1. loop' = loop /\ asked' = asked /\ ready' = ready
    BY <1>3 DEF Execute
  <2>2. dealer'[s] = None => dealer[s] = None
    BY <1>0, <1>3 DEF Execute, Close
  <2>3. api[s] = <<>> => api'[s] = <<>>
    BY <1>0, <1>3 DEF Execute
  <2> QED
    BY <2>1, <2>2, <2>3
<1>4. ASSUME NEW x \in Sender, Ship(x) PROVE Goal
  BY <1>4 DEF Ship
<1>5. ASSUME NEW x \in Sender, Forget(x) PROVE Goal
  <2>1. loop' = loop /\ asked' = asked /\ api' = api /\ ready' = ready /\ loop[Receiver] # "running"
    BY <1>0, <1>5 DEF Forget
  <2> QED
    BY <2>1
<1>6. ASSUME NEW x \in Sender, FinishSend(x) PROVE Goal
  <2>1. asked' = asked /\ api' = api /\ ready' = ready
    BY <1>6 DEF FinishSend
  <2>2. /\ loop'[x] # "running"
        /\ \A n \in Node : n # x => loop'[n] = loop[n]
        /\ x # s => dealer'[s] = dealer[s]
    BY <1>0, <1>6 DEF FinishSend, Teardown, Close
  <2> QED
    BY <1>0, <2>1, <2>2
<1>7. ASSUME NEW x \in Sender, TakeFrame(x) PROVE Goal
  <2>1. /\ loop' = loop /\ asked' = asked /\ api' = api /\ dealer' = dealer
        /\ ready' \subseteq ready \cup {x}
    BY <1>7 DEF TakeFrame
  <2> QED
    BY <1>7, <2>1
<1>8. ASSUME NEW x \in Sender, Exit(x) PROVE Goal
  BY <1>8 DEF Exit
<1>9. ASSUME Read \/ EndOfEvents PROVE Goal
  BY <1>9 DEF Read, EndOfEvents, net
<1>10. ASSUME Quit PROVE Goal
  <2>1. asked' = asked /\ api' = api /\ dealer' = dealer /\ ready' = {} /\ loop'[Receiver] # "running"
    BY <1>0, <1>10 DEF Quit, Teardown
  <2> QED
    BY <2>1
<1>11. ASSUME NEW n \in Node, Collide(n) PROVE Goal
  <2>1. /\ asked' = asked /\ api' = api /\ ready' \subseteq ready
        /\ loop'[n] # "running" /\ \A m \in Node : m # n => loop'[m] = loop[m]
    BY <1>0, <1>11 DEF Collide
  <2>2. n # s => dealer'[s] = dealer[s]
    BY <1>0, <1>11 DEF Collide, Close
  <2> QED
    BY <1>0, <2>1, <2>2
<1>12. Goal
  BY <1>1, <1>2, <1>3, <1>4, <1>5, <1>6, <1>7, <1>8, <1>9, <1>10, <1>11 DEF Next
<1>13. ASSUME Met(s) PROVE dealer'[s] # None
  BY <1>0, <1>13 DEF Met, Meet
<1>14. ASSUME Spoke(s) PROVE s \in asked' /\ s \notin asked
  BY <1>14 DEF Spoke
<1> QED
  BY <1>12, <1>13, <1>14

LEMMA CarriedStep == QueueTypes /\ QueueTypes' /\ Carried /\ Next => Carried'
<1> SUFFICES ASSUME QueueTypes, QueueTypes', Carried, Next, NEW s \in Sender
             PROVE  (Seamless(Line(s), s) /\ Greeting(s))'
  BY DEF Carried
<1>0. Seamless(Line(s), s) /\ Greeting(s)
  BY DEF Carried
<1>1. Line(s) \in Seq(Message)
  BY LineTypes
<1>2. Line(s)' \in Seq(Message)
  <2>1. inbox'[s] \in Seq(Message) /\ pipe'[s] \in Seq(Message) /\ api'[s] \in Seq(Message)
    BY DEF QueueTypes
  <2>2. (IF dealer'[s] = "open" THEN api'[s] ELSE <<>>) \in Seq(Message)
    BY <2>1, EmptySeq
  <2> QED
    BY <2>1, <2>2, RowIs DEF Line
<1>3. Kept(s) \/ Halved(s) \/ Taken(s) \/ Met(s) \/ Spoke(s)
  BY <1>0, LineStep
<1>4. PICK q \in Seq(Message) : q = Line(s)
  BY <1>1
<1>5. PICK r \in Seq(Message) : r = Line(s)'
  BY <1>2
<1>6. /\ s \notin asked => api[s] = <<>> /\ \A i \in 1..Len(q) : q[i] = Hello(s)
      /\ s \in ready /\ q # <<>> => q[1] # Hello(s)
      /\ dealer[s] = None /\ loop[s] = "running" /\ loop[Receiver] = "running" =>
            q = <<>> /\ s \notin asked \cup ready
  BY <1>0, <1>4 DEF Greeting
<1>7. Len(q) \in Nat /\ Len(r) \in Nat
  BY LenProperties
<1>8. Seamless(q, s)
  BY <1>0, <1>4
<1>9. /\ s \notin asked' => s \notin asked /\ (api[s] = <<>> => api'[s] = <<>>)
      /\ s \in ready' /\ s \notin ready => TakeFrame(s)
      /\ dealer'[s] = None /\ loop'[s] = "running" /\ loop'[Receiver] = "running" =>
            /\ dealer[s] = None /\ loop[s] = "running" /\ loop[Receiver] = "running"
            /\ s \in asked' => s \in asked
            /\ ~Met(s) /\ ~Spoke(s)
  BY GreetFrame
<1> SUFFICES /\ Seamless(r, s)
             /\ s \notin asked' => \A i \in 1..Len(r) : r[i] = Hello(s)
             /\ s \in ready' /\ r # <<>> => r[1] # Hello(s)
             /\ dealer'[s] = None /\ loop'[s] = "running" /\ loop'[Receiver] = "running" =>
                   r = <<>> /\ s \notin asked' \cup ready'
  <2>1. Greeting(s)' <=>
          /\ s \notin asked' => api'[s] = <<>> /\ \A i \in 1..Len(r) : r[i] = Hello(s)
          /\ s \in ready' /\ r # <<>> => r[1] # Hello(s)
          /\ dealer'[s] = None /\ loop'[s] = "running" /\ loop'[Receiver] = "running" =>
                r = <<>> /\ s \notin asked' \cup ready'
    BY <1>5 DEF Greeting
  <2>2. Seamless(Line(s), s)' <=> Seamless(r, s)
    BY <1>5 DEF Seamless, Number, Words, Hello, Start, End, Chunk
  <2> QED
    BY <1>6, <1>9, <2>1, <2>2
<1>10. ASSUME NEW k \in Nat, Left(r, q, k)
       PROVE  /\ Seamless(r, s)
              /\ s \notin asked' => \A i \in 1..Len(r) : r[i] = Hello(s)
              /\ q = <<>> => r = <<>>
              /\ k = 0 /\ r # <<>> => q # <<>> /\ r[1] = q[1]
              /\ k # 0 /\ r # <<>> => r[1] # Hello(s)
  <2>1. Seamless(r, s)
    BY <1>8, <1>10, SeamlessLeft
  <2>2. ASSUME s \notin asked', NEW i \in 1..Len(r) PROVE r[i] = Hello(s)
    <3>1. i + k \in 1..Len(q) /\ r[i] = q[i + k]
      BY <1>7, <1>10, <2>2 DEF Left
    <3> QED
      BY <1>6, <1>9, <2>2, <3>1
  <2>3. q = <<>> => r = <<>>
    BY <1>7, <1>10, EmptySeq DEF Left
  <2>4. ASSUME r # <<>> PROVE 1 + k \in 1..Len(q) /\ r[1] = q[1 + k]
    <3>1. Len(r) >= 1
      BY <1>7, <2>4, EmptySeq
    <3> QED
      BY <1>7, <1>10, <3>1 DEF Left
  <2>5. ASSUME k # 0, r # <<>> PROVE r[1] # Hello(s)
    <3>1. 1 + k \in 2..Len(q)
      BY <1>7, <1>10, <2>4, <2>5
    <3> QED
      BY <1>8, <2>4, <2>5, <3>1, HelloLeads
  <2>6. ASSUME k = 0, r # <<>> PROVE q # <<>> /\ r[1] = q[1]
    BY <1>7, <2>4, <2>6, EmptySeq
  <2> QED
    BY <2>1, <2>2, <2>3, <2>5, <2>6
<1>11. CASE Kept(s)
  <2>1. Left(r, q, 0) /\ (s \in ready' => s \in ready)
    BY <1>4, <1>5, <1>11 DEF Kept
  <2> QED
    BY <1>6, <1>9, <1>10, <2>1
<1>12. CASE Halved(s)
  <2>1. PICK k \in Nat : Left(r, q, k)
    BY <1>4, <1>5, <1>12 DEF Halved
  <2>2. s \notin ready'
    BY <1>12 DEF Halved
  <2> QED
    BY <1>6, <1>9, <1>10, <2>1, <2>2
<1>13. CASE Taken(s)
  <2>1. Left(r, q, 1) /\ q # <<>>
    BY <1>4, <1>5, <1>13 DEF Taken
  <2>2. dealer'[s] = None /\ loop'[s] = "running" /\ loop'[Receiver] = "running" => FALSE
    BY <1>6, <1>9, <2>1
  <2> QED
    BY <1>6, <1>9, <1>10, <2>1, <2>2
<1>14. CASE Met(s)
  <2>1. r = <<Hello(s)>> /\ s \notin asked' \cup ready'
    BY <1>5, <1>14 DEF Met
  <2>2. Len(r) = 1 /\ r[1] = Hello(s)
    BY <2>1
  <2>3. Seamless(r, s)
    BY <2>2 DEF Seamless
  <2> QED
    BY <1>9, <1>14, <2>1, <2>2, <2>3
<1>15. CASE Spoke(s)
  <2>1. s \notin asked /\ s \in asked' /\ ready' = ready /\ r = q \o Whispers(s)
    BY <1>4, <1>5, <1>15 DEF Spoke
  <2>2. /\ Seamless(r, s)
        /\ r[1] = IF q = <<>> THEN Start(s) ELSE q[1]
    BY <1>6, <1>8, <2>1, SeamlessSpoke
  <2>3. Start(s) # Hello(s)
    BY Numbers
  <2> QED
    BY <1>6, <1>9, <1>15, <2>1, <2>2, <2>3
<1> QED
  BY <1>3, <1>11, <1>12, <1>13, <1>14, <1>15

LEMMA CarriedInit == Init => Carried
<1> SUFFICES ASSUME Init, NEW s \in Sender PROVE Seamless(Line(s), s) /\ Greeting(s)
  BY DEF Carried
<1>1. /\ inbox[s] = <<>> /\ pipe[s] = <<>> /\ api[s] = <<>>
      /\ asked = {} /\ ready = {}
  BY DEF Init
<1>2. Line(s) = <<>> \o <<>> \o <<>>
  BY <1>1 DEF Line
<1>3. <<>> \in Seq(Message)
  BY EmptySeq
<1>4. Line(s) = <<>>
  BY <1>2, <1>3, ConcatEmptySeq
<1>5. Len(<<>>) = 0
  BY EmptySeq
<1> QED
  BY <1>1, <1>4, <1>5 DEF Seamless, Greeting

-----------------------------------------------------------------------------
(* The event queue of the receiver *)

LEMMA WaitingOther ==
    ASSUME NEW s \in Sender, NEW q \in Seq(Message), NEW r \in Nat, NEW t \in Nat,
           Waiting(q, s, r, t), NEW m \in Message, ~Whispered(m)
    PROVE  Waiting(Append(q, m), s, r, t)
<1>1. PICK a : a = Append(q, m)
  OBVIOUS
<1>2. /\ Len(q) \in Nat /\ Len(a) = Len(q) + 1 /\ a[Len(q) + 1] = m
      /\ \A i \in 1..Len(q) : a[i] = q[i]
  BY <1>1, AppendIs, LenProperties
<1>3. ASSUME NEW i \in 1..Len(a), Whispered(a[i]) PROVE i \in 1..Len(q) /\ a[i] = q[i]
  <2>1. i = Len(q) + 1 \/ i \in 1..Len(q)
    BY <1>2, <1>3
  <2> QED
    BY <1>2, <1>3, <2>1
<1>4. ASSUME NEW k \in r..t - 1
      PROVE  \E i \in 1..Len(a) : Whispered(a[i]) /\ Number(a[i]) = k
  <2>1. PICK i \in 1..Len(q) : Whispered(q[i]) /\ Number(q[i]) = k
    BY DEF Waiting
  <2>2. i \in 1..Len(a) /\ a[i] = q[i]
    BY <1>2, <2>1
  <2> QED
    BY <2>1, <2>2
<1>5. ASSUME NEW i \in 1..Len(a), Whispered(a[i])
      PROVE  a[i] \in Words(s) /\ Number(a[i]) \in r..t - 1
  BY <1>3, <1>5 DEF Waiting
<1>6. ASSUME NEW i \in 1..Len(a), NEW j \in 1..Len(a), Whispered(a[i]), Whispered(a[j]), i < j
      PROVE  Number(a[i]) < Number(a[j])
  <2>1. i \in 1..Len(q) /\ j \in 1..Len(q) /\ a[i] = q[i] /\ a[j] = q[j]
    BY <1>3, <1>6
  <2> QED
    BY <1>6, <2>1 DEF Waiting
<1>7. Waiting(a, s, r, t)
  BY <1>4, <1>5, <1>6 DEF Waiting
<1> QED
  BY <1>1, <1>7

LEMMA WaitingNext ==
    ASSUME NEW s \in Sender, NEW q \in Seq(Message), NEW r \in Nat, NEW t \in Nat, r <= t,
           Waiting(q, s, r, t), NEW m \in Words(s), Number(m) = t
    PROVE  Waiting(Append(q, m), s, r, t + 1)
<1>1. PICK a : a = Append(q, m)
  OBVIOUS
<1>2. m \in Message /\ Whispered(m)
  BY WordOf
<1>3. /\ Len(q) \in Nat /\ Len(a) = Len(q) + 1 /\ a[Len(q) + 1] = m
      /\ \A i \in 1..Len(q) : a[i] = q[i]
  BY <1>1, <1>2, AppendIs, LenProperties
<1>4. ASSUME NEW i \in 1..Len(a)
      PROVE  \/ i \in 1..Len(q) /\ a[i] = q[i]
             \/ i = Len(q) + 1 /\ a[i] = m
  BY <1>3, <1>4
<1>5. ASSUME NEW i \in 1..Len(q), Whispered(q[i])
      PROVE  q[i] \in Words(s) /\ Number(q[i]) \in r..t - 1
  BY <1>5 DEF Waiting
<1>6. ASSUME NEW i \in 1..Len(a), Whispered(a[i])
      PROVE  a[i] \in Words(s) /\ Number(a[i]) \in r..(t + 1) - 1
  <2>1. CASE i \in 1..Len(q) /\ a[i] = q[i]
    BY <1>5, <1>6, <2>1
  <2>2. CASE i = Len(q) + 1 /\ a[i] = m
    BY <2>2
  <2> QED
    BY <1>4, <2>1, <2>2
<1>7. ASSUME NEW i \in 1..Len(a), NEW j \in 1..Len(a), Whispered(a[i]), Whispered(a[j]), i < j
      PROVE  Number(a[i]) < Number(a[j])
  <2>1. i \in 1..Len(q) /\ a[i] = q[i]
    BY <1>3, <1>4, <1>7
  <2>2. CASE j \in 1..Len(q) /\ a[j] = q[j]
    BY <1>7, <2>1, <2>2 DEF Waiting
  <2>3. CASE j = Len(q) + 1 /\ a[j] = m
    BY <1>5, <1>7, <2>1, <2>3
  <2> QED
    BY <1>4, <2>2, <2>3
<1>8. ASSUME NEW k \in r..(t + 1) - 1
      PROVE  \E i \in 1..Len(a) : Whispered(a[i]) /\ Number(a[i]) = k
  <2>1. CASE k = t
    <3>1. Len(q) + 1 \in 1..Len(a)
      BY <1>3
    <3> QED
      BY <1>2, <1>3, <2>1, <3>1
  <2>2. CASE k # t
    <3>1. k \in r..t - 1
      BY <1>8, <2>2
    <3>2. PICK i \in 1..Len(q) : Whispered(q[i]) /\ Number(q[i]) = k
      BY <3>1 DEF Waiting
    <3>3. i \in 1..Len(a) /\ a[i] = q[i]
      BY <1>3, <3>2
    <3> QED
      BY <3>2, <3>3
  <2> QED
    BY <2>1, <2>2
<1>9. Waiting(a, s, r, t + 1)
  BY <1>6, <1>7, <1>8 DEF Waiting
<1> QED
  BY <1>1, <1>9

\* What the program reads is the next whisper, if it is one.
LEMMA WaitingTail ==
    ASSUME NEW s \in Sender, NEW q \in Seq(Message), NEW r \in Nat, NEW t \in Nat, q # <<>>,
           Waiting(q, s, r, t)
    PROVE  /\ ~Whispered(Head(q)) => Waiting(Tail(q), s, r, t)
           /\ Whispered(Head(q)) =>
                 /\ Head(q) \in Words(s) /\ Number(Head(q)) = r /\ r < t
                 /\ Waiting(Tail(q), s, r + 1, t)
<1>1. PICK a : a = Tail(q)
  OBVIOUS
<1>2. /\ Len(q) \in Nat \ {0} /\ Len(a) = Len(q) - 1 /\ Head(q) = q[1]
      /\ \A i \in 1..Len(q) - 1 : a[i] = q[i + 1]
  BY <1>1, TailIs
<1>3. ASSUME NEW i \in 1..Len(a) PROVE i + 1 \in 2..Len(q) /\ i + 1 \in 1..Len(q) /\ a[i] = q[i + 1]
  BY <1>2, <1>3
<1>4. ASSUME NEW i \in 1..Len(a), NEW j \in 1..Len(a), Whispered(a[i]), Whispered(a[j]), i < j
      PROVE  Number(a[i]) < Number(a[j])
  <2>1. /\ i + 1 \in 1..Len(q) /\ j + 1 \in 1..Len(q) /\ i + 1 < j + 1
        /\ a[i] = q[i + 1] /\ a[j] = q[j + 1]
    BY <1>2, <1>3, <1>4
  <2> QED
    BY <1>4, <2>1 DEF Waiting
<1>5. ASSUME NEW i \in 1..Len(a), Whispered(a[i])
      PROVE  a[i] \in Words(s) /\ Number(a[i]) \in r..t - 1
  BY <1>3, <1>5 DEF Waiting
<1>6. ASSUME NEW k \in r..t - 1, Whispered(q[1]) => Number(q[1]) # k
      PROVE  \E i \in 1..Len(a) : Whispered(a[i]) /\ Number(a[i]) = k
  <2>1. PICK i \in 1..Len(q) : Whispered(q[i]) /\ Number(q[i]) = k
    BY DEF Waiting
  <2>2. i # 1
    BY <1>6, <2>1
  <2>3. i - 1 \in 1..Len(a) /\ a[i - 1] = q[(i - 1) + 1] /\ (i - 1) + 1 = i
    BY <1>2, <2>1, <2>2
  <2> QED
    BY <2>1, <2>3
<1>7. ASSUME ~Whispered(q[1]) PROVE Waiting(a, s, r, t)
  BY <1>4, <1>5, <1>6, <1>7 DEF Waiting
<1>8. ASSUME Whispered(q[1])
      PROVE  q[1] \in Words(s) /\ Number(q[1]) = r /\ r < t /\ Waiting(a, s, r + 1, t)
  <2>1. 1 \in 1..Len(q)
    BY <1>2
  <2>2. q[1] \in Words(s) /\ Number(q[1]) \in r..t - 1
    BY <1>8, <2>1 DEF Waiting
  <2>3. r \in r..t - 1
    BY <2>2
  <2>4. PICK i \in 1..Len(q) : Whispered(q[i]) /\ Number(q[i]) = r
    BY <2>3 DEF Waiting
  <2>5. ASSUME i # 1 PROVE FALSE
    <3>1. 1 < i
      BY <2>4, <2>5
    <3>2. Number(q[1]) < Number(q[i])
      BY <1>8, <2>1, <2>4, <3>1 DEF Waiting
    <3> QED
      BY <2>2, <2>4, <3>2
  <2>6. Number(q[1]) = r
    BY <2>4, <2>5
  <2>7. ASSUME NEW j \in 1..Len(a), Whispered(a[j])
        PROVE  a[j] \in Words(s) /\ Number(a[j]) \in (r + 1)..t - 1
    <3>1. j + 1 \in 1..Len(q) /\ 1 < j + 1 /\ a[j] = q[j + 1]
      BY <1>2, <1>3, <2>7
    <3>2. Number(q[1]) < Number(q[j + 1])
      BY <1>8, <2>1, <2>7, <3>1 DEF Waiting
    <3>3. a[j] \in Words(s) /\ Number(a[j]) \in r..t - 1
      BY <1>5, <2>7
    <3> QED
      BY <2>6, <3>1, <3>2, <3>3
  <2>8. ASSUME NEW k \in (r + 1)..t - 1
        PROVE  \E j \in 1..Len(a) : Whispered(a[j]) /\ Number(a[j]) = k
    <3>1. k \in r..t - 1 /\ Number(q[1]) # k
      BY <2>6, <2>8
    <3> QED
      BY <1>6, <3>1
  <2>9. Waiting(a, s, r + 1, t)
    BY <1>4, <2>7, <2>8 DEF Waiting
  <2> QED
    BY <2>2, <2>3, <2>6, <2>9
<1> QED
  BY <1>1, <1>2, <1>7, <1>8

-----------------------------------------------------------------------------
(* What the program reports *)

\* Of one that reads a whisper.
LEMMA ReadWord ==
    ASSUME QueueTypes, NEW s \in Sender, NEW r \in 1..Chunks + 2, Progress(s, r),
           Read, Head(events) \in Words(s), Number(Head(events)) = r
    PROVE  Progress(s, r + 1)'
<1>0. Chunks \in Nat \ {0} /\ Chunks + 3 = (Chunks + 2) + 1
  BY SizeAssumption
<1>1. PICK e : e = Head(events)
  OBVIOUS
<1>2. /\ e \in Words(s) /\ Number(e) = r
      /\ CASE e.type = "FILE_START" -> file' = <<>> /\ UNCHANGED results
           [] e.type = "CHUNK" /\ file # None ->
                file' = Append(file, e) /\ UNCHANGED results
           [] e.type = "FILE_END" /\ file # None ->
                /\ file' = None
                /\ results' = results \cup {<<e.from, file>>}
           [] OTHER -> UNCHANGED disk
  BY <1>1 DEF Read
<1>3. CASE r = 1
  <2>1. e = Start(s)
    BY <1>2, <1>3, WordOf
  <2>2. file' = <<>> /\ results' = results
    BY <1>2, <2>1 DEF Start
  <2>3. results = {}
    BY <1>0, <1>3 DEF Progress
  <2>4. Part(s, 0) = <<>>
    BY DEF Part
  <2>5. r + 1 = 2 /\ (r + 1) - 2 = 0 /\ 2 \in 2..Chunks + 2
    BY <1>0, <1>3
  <2>6. r + 1 \in 2..Chunks + 2 /\ file' = Part(s, (r + 1) - 2) /\ results' = {}
    BY <2>2, <2>3, <2>4, <2>5
  <2> QED
    BY <2>6 DEF Progress, Part, Chunk
<1>4. CASE r \in 2..Chunks + 1
  <2>1. e = Chunk(s, r - 1)
    BY <1>2, <1>4, WordOf
  <2>2. file = Part(s, r - 2) /\ results = {}
    BY <1>0, <1>4 DEF Progress
  <2>3. r - 2 \in 0..Chunks /\ r - 1 = (r - 2) + 1 /\ (r + 1) - 2 = r - 1
    BY <1>0, <1>4
  <2>4. file # None
    BY <2>2, <2>3, PartAssumption
  <2>5. file' = Append(file, e) /\ results' = results
    BY <1>2, <2>1, <2>4 DEF Chunk
  <2>6. Append(Part(s, r - 2), Chunk(s, r - 1)) = Part(s, r - 1)
    <3>1. ASSUME NEW n \in Nat PROVE Append(Part(s, n), Chunk(s, n + 1)) = Part(s, n + 1)
      <4>1. PICK S : S = {Chunk(s, i) : i \in 1..n + 1}
        OBVIOUS
      <4>2. \A i \in 1..n + 1 : Chunk(s, i) \in S
        BY <4>1
      <4>3. /\ Part(s, n) \in Seq(S) /\ Len(Part(s, n)) = n
            /\ \A i \in 1..n : Part(s, n)[i] = Chunk(s, i)
        BY <4>2 DEF Part
      <4>4. /\ Part(s, n + 1) \in Seq(S) /\ Len(Part(s, n + 1)) = n + 1
            /\ \A i \in 1..n + 1 : Part(s, n + 1)[i] = Chunk(s, i)
        BY <4>2 DEF Part
      <4>5. PICK a : a = Append(Part(s, n), Chunk(s, n + 1))
        OBVIOUS
      <4>6. Chunk(s, n + 1) \in S
        BY <4>2
      <4>7. /\ a \in Seq(S) /\ Len(a) = n + 1 /\ a[n + 1] = Chunk(s, n + 1)
            /\ \A i \in 1..n : a[i] = Part(s, n)[i]
        BY <4>3, <4>5, <4>6, AppendIs
      <4>8. \A i \in 1..Len(a) : a[i] = Part(s, n + 1)[i]
        <5>1. ASSUME NEW i \in 1..Len(a) PROVE a[i] = Part(s, n + 1)[i]
          <6>1. i = n + 1 \/ i \in 1..n
            BY <4>7, <5>1
          <6> QED
            BY <4>3, <4>4, <4>7, <6>1
        <5> QED
          BY <5>1
      <4>9. a = Part(s, n + 1)
        BY <4>4, <4>7, <4>8, SeqEqual
      <4> QED
        BY <4>5, <4>9
    <3>2. PICK n \in Nat : n = r - 2
      BY <2>3
    <3> QED
      BY <2>3, <3>1, <3>2
  <2>7. r + 1 \in 2..Chunks + 2 /\ file' = Part(s, (r + 1) - 2) /\ results' = {}
    BY <1>0, <1>4, <2>1, <2>2, <2>3, <2>5, <2>6
  <2> QED
    BY <2>7 DEF Progress, Part, Chunk
<1>5. CASE r = Chunks + 2
  <2>1. e = End(s)
    BY <1>2, <1>5, WordOf
  <2>2. file = Part(s, Chunks) /\ results = {}
    <3>1. r - 2 = Chunks
      BY <1>0, <1>5
    <3> QED
      BY <1>0, <1>5, <3>1 DEF Progress
  <2>3. file # None
    BY <1>0, <2>2, PartAssumption
  <2>4. e.type = "FILE_END" /\ e.from = s
    BY <2>1 DEF End
  <2>5. file' = None /\ results' = results \cup {<<s, file>>}
    BY <1>2, <2>3, <2>4
  <2>6. File(s) = Part(s, Chunks)
    BY DEF File, Part
  <2>7. r + 1 = Chunks + 3 /\ file' = None /\ results' = {<<s, File(s)>>}
    BY <1>0, <1>5, <2>2, <2>5, <2>6
  <2> QED
    BY <2>7 DEF Progress, File, Chunk
<1> QED
  BY <1>0, <1>3, <1>4, <1>5

\* What else it reads changes nothing.
LEMMA ReadOther ==
    ASSUME Read, ~Whispered(Head(events))
    PROVE  UNCHANGED disk
BY DEF Read, Whispered

LEMMA ProgressSame ==
    ASSUME UNCHANGED disk, NEW s \in Sender, NEW r, Progress(s, r)
    PROVE  Progress(s, r)'
BY DEF disk, Progress, Part, File, Chunk

\* Before a sender is asked for a file, all it has on its way is its HELLO.
LEMMA HeadOf ==
    ASSUME QueueTypes, Carried, NEW x \in Sender, inbox[x] # <<>>
    PROVE  /\ Line(x) # <<>> /\ Line(x)[1] = Head(inbox[x])
           /\ Head(inbox[x]) \in Words(x) \cup {Hello(x)}
           /\ x \notin asked => Head(inbox[x]) = Hello(x)
<1>1. inbox[x] \in Seq(Message) /\ pipe[x] \in Seq(Message) /\ api[x] \in Seq(Message)
  BY DEF QueueTypes
<1>2. PICK c : c = IF dealer[x] = "open" THEN api[x] ELSE <<>>
  OBVIOUS
<1>3. c \in Seq(Message)
  BY <1>1, <1>2, EmptySeq
<1>4. inbox[x] \o pipe[x] \o c # <<>> /\ (inbox[x] \o pipe[x] \o c)[1] = Head(inbox[x])
  BY <1>1, <1>3, RowParts
<1>5. Line(x) # <<>> /\ Line(x)[1] = Head(inbox[x])
  BY <1>2, <1>4 DEF Line
<1>6. 1 \in 1..Len(Line(x))
  <2>1. Len(Line(x)) \in Nat \ {0}
    BY <1>5, LineTypes, EmptySeq
  <2> QED
    BY <2>1
<1> QED
  BY <1>5, <1>6 DEF Carried, Seamless, Greeting

LEMMA TakeLeaves ==
    ASSUME QueueTypes, NEW s \in Sender, TakeFrame(s)
    PROVE  Left(Line(s)', Line(s), 1)
<1>1. inbox[s] \in Seq(Message) /\ pipe[s] \in Seq(Message) /\ api[s] \in Seq(Message)
  BY DEF QueueTypes
<1>2. PICK c : c = IF dealer[s] = "open" THEN api[s] ELSE <<>>
  OBVIOUS
<1>3. c \in Seq(Message)
  BY <1>1, <1>2, EmptySeq
<1>4. /\ pipe' = pipe /\ dealer' = dealer /\ api' = api /\ inbox[s] # <<>>
      /\ inbox'[s] = Tail(inbox[s])
  BY DEF TakeFrame, QueueTypes
<1>5. Left(Tail(inbox[s]) \o pipe[s] \o c, inbox[s] \o pipe[s] \o c, 1)
  BY <1>1, <1>3, <1>4, RowParts
<1>6. Line(s) = inbox[s] \o pipe[s] \o c
  BY <1>2 DEF Line
<1>7. Line(s)' = Tail(inbox[s]) \o pipe[s] \o c
  BY <1>2, <1>4 DEF Line
<1> QED
  BY <1>5, <1>6, <1>7

\* What becomes of the events, but in a step that takes a message of s.
LEMMA EventStep ==
    ASSUME QueueTypes, Carried, Next, NEW s \in Sender, asked \subseteq {s}, ~dropped', ~TakeFrame(s)
    PROVE  \/ Read
           \/ events' = events /\ UNCHANGED disk
           \/ /\ \E m \in Message : ~Whispered(m) /\ events' = Append(events, m)
              /\ UNCHANGED disk
<1> DEFINE Goal == \/ Read
                   \/ events' = events /\ UNCHANGED disk
                   \/ /\ \E m \in Message : ~Whispered(m) /\ events' = Append(events, m)
                      /\ UNCHANGED disk
<1>0. Receiver \in Node /\ Sender \subseteq Node /\ Chunks \in Nat
  BY SizeAssumption DEF Node
<1>1. ASSUME NEW x \in Sender, Meet(x) \/ SendFile(x) \/ Execute(x) \/ Ship(x) \/ Forget(x) \/ FinishSend(x)
      PROVE  Goal
  <2>1. UNCHANGED queue /\ UNCHANGED disk
    BY <1>1 DEF Meet, SendFile, Execute, Ship, Forget, FinishSend
  <2> QED
    BY <2>1 DEF queue
<1>2. ASSUME NEW x \in Sender, TakeFrame(x) PROVE Goal
  <2>1. x # s /\ x \notin asked /\ inbox[x] # <<>> /\ UNCHANGED disk
    BY <1>2 DEF TakeFrame
  <2>2. Head(inbox[x]) = Hello(x)
    BY <2>1, HeadOf
  <2>3. Hello(x) \in Message /\ ~Whispered(Hello(x))
    BY Numbers
  <2>4. events' = events \/ events' = Append(events, Hello(x))
    BY <1>2, <2>2 DEF TakeFrame, Emit, queue
  <2> QED
    BY <2>1, <2>3, <2>4
<1>3. ASSUME NEW x \in Sender, Exit(x) PROVE Goal
  <2>1. Gone(x) \in Message /\ ~Whispered(Gone(x))
    BY <1>0 DEF Gone, Message, Whispered
  <2>2. events' = Append(events, Gone(x)) /\ UNCHANGED disk
    BY <1>3 DEF Exit, Emit
  <2> QED
    BY <2>1, <2>2
<1>4. ASSUME EndOfEvents \/ Quit PROVE Goal
  BY <1>4 DEF EndOfEvents, Quit, queue
<1>5. ASSUME NEW n \in Node, Collide(n) PROVE Goal
  <2>1. Collision \in Message /\ ~Whispered(Collision)
    BY <1>0 DEF Collision, Message, Whispered
  <2>2. (events' = events \/ events' = Append(events, Collision)) /\ UNCHANGED disk
    BY <1>5 DEF Collide, Emit, queue
  <2> QED
    BY <2>1, <2>2
<1> QED
  BY <1>1, <1>2, <1>3, <1>4, <1>5 DEF Next

LEMMA HistoryGrows ==
    ASSUME QueueTypes, Next
    PROVE  asked \subseteq asked' /\ (dropped => dropped')
<1>1. asked \subseteq asked'
  BY GreetFrame DEF QueueTypes
<1>2. ASSUME dropped PROVE dropped'
  BY <1>2 DEF Next, Meet, SendFile, Execute, Ship, Forget, FinishSend, TakeFrame, Exit, Read,
     EndOfEvents, Quit, Collide, Emit, queue
<1> QED
  BY <1>1, <1>2

-----------------------------------------------------------------------------
(* A file is whole *)

\* What is at the head of a line that lost its first k items.
LEMMA LeftHead ==
    ASSUME NEW s \in Sender, NEW q \in Seq(Message), NEW r \in Seq(Message), NEW k \in Nat,
           Seamless(q, s), Left(r, q, k), r # <<>>
    PROVE  /\ q # <<>>
           /\ k = 0 => r[1] = q[1]
           /\ k # 0 => r[1] # Hello(s)
           /\ k = 1 => Number(r[1]) = Number(q[1]) + 1
<1>0. Len(q) \in Nat /\ Len(r) \in Nat
  BY LenProperties
<1>1. Len(r) >= 1
  BY <1>0, EmptySeq
<1>2. 1 + k \in 1..Len(q) /\ r[1] = q[1 + k]
  BY <1>0, <1>1 DEF Left
<1>3. q # <<>>
  BY <1>0, <1>2, EmptySeq
<1>4. ASSUME k # 0
      PROVE  q[1 + k] # Hello(s) /\ Number(q[1 + k]) = Number(q[(1 + k) - 1]) + 1
  <2>1. 1 + k \in 2..Len(q)
    BY <1>0, <1>2, <1>4
  <2> QED
    BY <2>1, HelloLeads
<1>5. k = 0 => 1 + k = 1
  OBVIOUS
<1>6. k = 1 => (1 + k) - 1 = 1
  OBVIOUS
<1> QED
  BY <1>2, <1>3, <1>4, <1>5, <1>6

LEMMA LineNext ==
    ASSUME QueueTypes', NEW s \in Sender
    PROVE  Line(s)' \in Seq(Message)
<1>1. inbox'[s] \in Seq(Message) /\ pipe'[s] \in Seq(Message) /\ api'[s] \in Seq(Message)
  BY DEF QueueTypes
<1>2. (IF dealer'[s] = "open" THEN api'[s] ELSE <<>>) \in Seq(Message)
  BY <1>1, EmptySeq
<1> QED
  BY <1>1, <1>2, RowIs DEF Line

\* A step that takes no message of s.
LEMMA ResumesSame ==
    ASSUME QueueTypes, QueueTypes', Carried, Next, NEW s \in Sender, NEW t, asked' \subseteq {s},
           ~TakeFrame(s), Resumes(s, t)
    PROVE  Resumes(s, t)'
<1>0. Seamless(Line(s), s) /\ Greeting(s)
  BY DEF Carried
<1>1. Line(s) \in Seq(Message) /\ Line(s)' \in Seq(Message)
  BY LineTypes, LineNext
<1>2. PICK q \in Seq(Message) : q = Line(s)
  BY <1>1
<1>3. PICK r \in Seq(Message) : r = Line(s)'
  BY <1>1
<1>4. Seamless(q, s) /\ asked \subseteq asked'
  BY <1>0, <1>2, HistoryGrows
<1>5. /\ q # <<>> /\ s \in ready => Number(q[1]) = t
      /\ q # <<>> /\ q[1] = Hello(s) => t = 1
      /\ asked = {} => t = 1
  BY <1>2 DEF Resumes
<1> SUFFICES /\ r # <<>> /\ s \in ready' => Number(r[1]) = t
             /\ r # <<>> /\ r[1] = Hello(s) => t = 1
             /\ asked' = {} => t = 1
  BY <1>3 DEF Resumes, Number, Hello
<1>6. asked' = {} => t = 1
  BY <1>4, <1>5
<1>7. CASE Kept(s)
  <2>1. Left(r, q, 0) /\ (s \in ready' => s \in ready)
    BY <1>2, <1>3, <1>7 DEF Kept
  <2>2. r # <<>> => q # <<>> /\ r[1] = q[1]
    BY <1>4, <2>1, LeftHead
  <2> QED
    BY <1>5, <1>6, <2>1, <2>2
<1>8. CASE Halved(s)
  <2>1. PICK k \in Nat : Left(r, q, k)
    BY <1>2, <1>3, <1>8 DEF Halved
  <2>2. s \notin ready'
    BY <1>8 DEF Halved
  <2>3. r # <<>> => q # <<>> /\ (k = 0 => r[1] = q[1]) /\ (k # 0 => r[1] # Hello(s))
    BY <1>4, <2>1, LeftHead
  <2> QED
    BY <1>5, <1>6, <2>2, <2>3
<1>9. CASE Met(s)
  <2>1. asked' = {} /\ s \notin ready'
    BY <1>9 DEF Met
  <2> QED
    BY <1>6, <2>1
<1>10. CASE Spoke(s)
  <2>1. s \notin asked /\ asked' = asked \cup {s} /\ ready' = ready /\ r = q \o Whispers(s)
    BY <1>2, <1>3, <1>10 DEF Spoke
  <2>2. t = 1
    BY <1>5, <2>1
  <2>3. \A i \in 1..Len(q) : q[i] = Hello(s)
    BY <1>0, <1>2, <2>1 DEF Greeting
  <2>4. r[1] = IF q = <<>> THEN Start(s) ELSE q[1]
    BY <1>4, <2>1, <2>3, SeamlessSpoke
  <2>5. Number(Start(s)) = 1
    BY Numbers
  <2> QED
    BY <1>5, <1>6, <2>1, <2>2, <2>4, <2>5
<1>11. ~Taken(s)
  BY DEF Taken
<1> QED
  BY <1>0, <1>7, <1>8, <1>9, <1>10, <1>11, LineStep

LEMMA WaitingOf ==
    ASSUME NEW s \in Sender, NEW r, NEW t, NEW q, q = events', Waiting(q, s, r, t)
    PROVE  Waiting(events, s, r, t)'
BY DEF Waiting, Whispered, Number, Words, Start, End, Chunk

\* A step that takes one: HELLO makes s ready, and a whisper of a ready peer is the
\* one the events go on with.
LEMMA TakeGoesOn ==
    ASSUME QueueTypes, QueueTypes', Carried, NEW s \in Sender,
           NEW r \in 1..Chunks + 3, NEW t \in 1..Chunks + 3,
           asked \subseteq {s}, ~dropped, ~dropped', TakeFrame(s),
           r <= t, Waiting(events, s, r, t), Resumes(s, t)
    PROVE  \E u \in 1..Chunks + 3 : r <= u /\ Waiting(events, s, r, u)' /\ Resumes(s, u)'
<1>0. Chunks \in Nat \ {0} /\ r \in Nat /\ t \in Nat
  BY SizeAssumption
<1>1. PICK q \in Seq(Message) : q = Line(s)
  BY LineTypes
<1>2. PICK l \in Seq(Message) : l = Line(s)'
  BY LineNext
<1>3. PICK m : m = Head(inbox[s])
  OBVIOUS
<1>4. Seamless(q, s) /\ Left(l, q, 1)
  BY <1>1, <1>2, TakeLeaves DEF Carried
<1>5. /\ q # <<>> /\ q[1] = m /\ m \in Words(s) \cup {Hello(s)}
      /\ s \notin asked => m = Hello(s)
  BY <1>1, <1>3, HeadOf DEF TakeFrame
<1>6. /\ q # <<>> /\ s \in ready => Number(q[1]) = t
      /\ q # <<>> /\ q[1] = Hello(s) => t = 1
      /\ asked = {} => t = 1
  BY <1>1 DEF Resumes
<1>7. l # <<>> => l[1] # Hello(s) /\ Number(l[1]) = Number(m) + 1
  BY <1>4, <1>5, LeftHead
<1>8. /\ asked' = asked
      /\ IF m.type = "HELLO" /\ s \notin ready
         THEN ready' = ready \cup {s} ELSE UNCHANGED ready
      /\ IF (m.type = "HELLO") # (s \in ready)
         THEN Emit(m) ELSE UNCHANGED queue
  BY <1>3 DEF TakeFrame
<1>9. ASSUME NEW u \in 1..Chunks + 3,
             l # <<>> /\ s \in ready' => Number(l[1]) = u,
             asked = {} => u = 1
      PROVE  Resumes(s, u)'
  <2>1. Resumes(s, u)' <=>
          /\ l # <<>> /\ s \in ready' => Number(l[1]) = u
          /\ l # <<>> /\ l[1] = Hello(s) => u = 1
          /\ asked' = {} => u = 1
    BY <1>2 DEF Resumes, Number, Hello
  <2> QED
    BY <1>7, <1>8, <1>9, <2>1
<1>10. events \in Seq(Message)
  BY DEF QueueTypes
<1>11. PICK d : d = events'
  OBVIOUS
<1>12. CASE m = Hello(s)
  <2>1. m.type = "HELLO" /\ Number(m) = 0 /\ m \in Message /\ ~Whispered(m)
    BY <1>12, Numbers DEF Hello
  <2>2. t = 1
    BY <1>5, <1>6, <1>12
  <2>3. s \notin ready
    BY <1>1, <1>5, <1>12 DEF Carried, Greeting
  <2>4. d = Append(events, m)
    BY <1>8, <1>11, <2>1, <2>3 DEF Emit
  <2>5. Waiting(d, s, r, t)
    BY <1>0, <1>10, <2>1, <2>4, WaitingOther
  <2>6. Waiting(events, s, r, t)'
    BY <1>11, <2>5, WaitingOf
  <2>7. l # <<>> => Number(l[1]) = 1
    BY <1>7, <2>1
  <2>8. Resumes(s, t)'
    BY <1>9, <2>2, <2>7
  <2> QED
    BY <2>6, <2>8
<1>13. CASE m # Hello(s) /\ s \notin ready
  <2>1. m \in Words(s)
    BY <1>5, <1>13
  <2>2. m.type # "HELLO"
    BY <2>1, WordOf DEF Whispered
  <2>3. ready' = ready /\ d = events
    BY <1>8, <1>11, <1>13, <2>2 DEF queue
  <2>4. Waiting(events, s, r, t)'
    BY <1>11, <2>3, WaitingOf
  <2>5. Resumes(s, t)'
    BY <1>6, <1>9, <1>13, <2>3
  <2> QED
    BY <2>4, <2>5
<1>14. CASE m # Hello(s) /\ s \in ready
  <2>1. m \in Words(s)
    BY <1>5, <1>14
  <2>2. m.type # "HELLO" /\ Number(m) \in 1..Chunks + 2
    BY <2>1, WordOf DEF Whispered
  <2>3. Number(m) = t /\ asked # {}
    BY <1>5, <1>6, <1>14
  <2>4. d = Append(events, m)
    BY <1>8, <1>11, <1>14, <2>2 DEF Emit
  <2>5. Waiting(d, s, r, t + 1)
    BY <1>0, <1>10, <2>1, <2>3, <2>4, WaitingNext
  <2>6. Waiting(events, s, r, t + 1)'
    BY <1>11, <2>5, WaitingOf
  <2>7. t + 1 \in 1..Chunks + 3 /\ r <= t + 1
    BY <1>0, <2>2, <2>3
  <2>8. Resumes(s, t + 1)'
    BY <1>7, <1>9, <2>3, <2>7
  <2> QED
    BY <2>6, <2>7, <2>8
<1> QED
  BY <1>12, <1>13, <1>14

\* What is read, and what else is put behind the events.
LEMMA EventsGoOn ==
    ASSUME QueueTypes, Carried, Next, NEW s \in Sender,
           NEW r \in 1..Chunks + 3, NEW t \in 1..Chunks + 3,
           asked \subseteq {s}, ~dropped', ~TakeFrame(s),
           r <= t, Progress(s, r), Waiting(events, s, r, t)
    PROVE  \E u \in 1..Chunks + 3 : u <= t /\ Progress(s, u)' /\ Waiting(events, s, u, t)'
<1>0. Chunks \in Nat \ {0} /\ r \in Nat /\ t \in Nat /\ events \in Seq(Message)
  BY SizeAssumption DEF QueueTypes
<1>1. PICK d : d = events'
  OBVIOUS
<1>2. CASE Read
  <2>1. events # <<>> /\ d = Tail(events)
    BY <1>1, <1>2 DEF Read
  <2>2. /\ ~Whispered(Head(events)) => Waiting(Tail(events), s, r, t)
        /\ Whispered(Head(events)) =>
              /\ Head(events) \in Words(s) /\ Number(Head(events)) = r /\ r < t
              /\ Waiting(Tail(events), s, r + 1, t)
    BY <1>0, <2>1, WaitingTail
  <2>3. CASE Whispered(Head(events))
    <3>1. r \in 1..Chunks + 2 /\ r + 1 \in 1..Chunks + 3 /\ r + 1 <= t
      BY <1>0, <2>2, <2>3
    <3>2. Progress(s, r + 1)'
      BY <1>2, <2>2, <2>3, <3>1, ReadWord
    <3>3. Waiting(d, s, r + 1, t)
      BY <2>1, <2>2, <2>3
    <3>4. Waiting(events, s, r + 1, t)'
      BY <1>1, <3>3, WaitingOf
    <3> QED
      BY <3>1, <3>2, <3>4
  <2>4. CASE ~Whispered(Head(events))
    <3>1. Waiting(d, s, r, t)
      BY <2>1, <2>2, <2>4
    <3>2. Waiting(events, s, r, t)'
      BY <1>1, <3>1, WaitingOf
    <3>3. Progress(s, r)'
      BY <1>2, <2>4, ReadOther, ProgressSame
    <3> QED
      BY <3>2, <3>3
  <2> QED
    BY <2>3, <2>4
<1>3. CASE d = events /\ UNCHANGED disk
  <2>1. Waiting(events, s, r, t)' /\ Progress(s, r)'
    BY <1>1, <1>3, WaitingOf, ProgressSame
  <2> QED
    BY <2>1
<1>4. ASSUME NEW m \in Message, ~Whispered(m), d = Append(events, m), UNCHANGED disk
      PROVE  Waiting(events, s, r, t)' /\ Progress(s, r)'
  <2>1. Waiting(d, s, r, t)
    BY <1>0, <1>4, WaitingOther
  <2> QED
    BY <1>1, <1>4, <2>1, WaitingOf, ProgressSame
<1>5. \/ Read
      \/ d = events /\ UNCHANGED disk
      \/ (\E m \in Message : ~Whispered(m) /\ d = Append(events, m)) /\ UNCHANGED disk
  BY <1>1, EventStep
<1> QED
  BY <1>2, <1>3, <1>4, <1>5

LEMMA SequelInit == Init => Sequel
<1> SUFFICES ASSUME Init, NEW s \in Sender
             PROVE  \E r, t \in 1..Chunks + 3 :
                       r <= t /\ Progress(s, r) /\ Waiting(events, s, r, t) /\ Resumes(s, t)
  BY DEF Sequel
<1>0. Chunks \in Nat \ {0} /\ 1 \in 1..Chunks + 3
  BY SizeAssumption
<1>1. /\ inbox[s] = <<>> /\ pipe[s] = <<>> /\ api[s] = <<>>
      /\ events = <<>> /\ file = None /\ results = {}
  BY DEF Init
<1>2. Line(s) = <<>> \o <<>> \o <<>>
  BY <1>1 DEF Line
<1>3. <<>> \in Seq(Message) /\ Len(<<>>) = 0
  BY EmptySeq
<1>4. Line(s) = <<>>
  BY <1>2, <1>3, ConcatEmptySeq
<1>5. Resumes(s, 1)
  BY <1>4 DEF Resumes
<1>6. Waiting(events, s, 1, 1)
  BY <1>1, <1>3 DEF Waiting
<1>7. Progress(s, 1)
  BY <1>1 DEF Progress
<1> QED
  BY <1>0, <1>5, <1>6, <1>7

LEMMA SequelStep == QueueTypes /\ QueueTypes' /\ Carried /\ Sequel /\ Next => Sequel'
<1> SUFFICES ASSUME QueueTypes, QueueTypes', Carried, Sequel, Next, NEW s \in Sender,
                    asked' \subseteq {s}, ~dropped'
             PROVE  \E r, t \in 1..Chunks + 3 :
                       r <= t /\ Progress(s, r)' /\ Waiting(events, s, r, t)' /\ Resumes(s, t)'
  BY DEF Sequel
<1>1. asked \subseteq {s} /\ ~dropped
  BY HistoryGrows
<1>2. PICK r \in 1..Chunks + 3, t \in 1..Chunks + 3 :
         r <= t /\ Progress(s, r) /\ Waiting(events, s, r, t) /\ Resumes(s, t)
  BY <1>1 DEF Sequel
<1>3. CASE TakeFrame(s)
  <2>1. PICK u \in 1..Chunks + 3 : r <= u /\ Waiting(events, s, r, u)' /\ Resumes(s, u)'
    BY <1>1, <1>2, <1>3, TakeGoesOn
  <2>2. Progress(s, r)'
    BY <1>2, <1>3, ProgressSame DEF TakeFrame
  <2> QED
    BY <2>1, <2>2
<1>4. CASE ~TakeFrame(s)
  <2>1. PICK u \in 1..Chunks + 3 : u <= t /\ Progress(s, u)' /\ Waiting(events, s, u, t)'
    BY <1>1, <1>2, <1>4, EventsGoOn
  <2>2. Resumes(s, t)'
    BY <1>2, <1>4, ResumesSame
  <2> QED
    BY <2>1, <2>2
<1> QED
  BY <1>3, <1>4

\* A part of a file is a beginning of it.
LEMMA PartIsPrefix ==
    ASSUME NEW s \in Sender, NEW i \in 0..Chunks
    PROVE  IsPrefix(Part(s, i), File(s))
<1>0. Chunks \in Nat
  BY SizeAssumption
<1>1. PICK p, f : p = Part(s, i) /\ f = File(s)
  OBVIOUS
<1>2. /\ Len(p) = i /\ Len(f) = Chunks
      /\ DOMAIN p = 1..i /\ p = [j \in 1..i |-> Chunk(s, j)]
      /\ \A j \in 1..i : f[j] = Chunk(s, j)
  BY <1>0, <1>1 DEF Part, File
<1>3. SubSeq(f, 1, i) = [j \in 1..i |-> Chunk(s, j)]
  <2>1. f \in Seq({Chunk(s, j) : j \in 1..Chunks})
    BY <1>0, <1>1 DEF File
  <2>2. /\ SubSeq(f, 1, i) \in Seq({Chunk(s, j) : j \in 1..Chunks})
        /\ Len(SubSeq(f, 1, i)) = i
        /\ \A j \in 1..i : SubSeq(f, 1, i)[j] = f[j]
    BY <1>0, <1>2, <2>1, SubSeqProperties
  <2>3. p \in Seq({Chunk(s, j) : j \in 1..Chunks})
    BY <1>0, <1>1 DEF Part
  <2>4. Len(p) = Len(SubSeq(f, 1, i)) /\ \A j \in 1..Len(p) : p[j] = SubSeq(f, 1, i)[j]
    BY <1>2, <2>2
  <2>5. p = SubSeq(f, 1, i)
    BY <2>2, <2>3, <2>4, SeqEqual
  <2> QED
    BY <1>2, <2>5
<1> QED
  BY <1>0, <1>1, <1>2, <1>3 DEF IsPrefix

LEMMA SequelSays == Sequel => Whole
<1> SUFFICES ASSUME Sequel, NEW s \in Sender, asked = {s}, ~dropped
             PROVE  /\ \A r \in results : r = <<s, File(s)>>
                    /\ file # None => IsPrefix(file, File(s))
  BY DEF Whole
<1>0. Chunks \in Nat
  BY SizeAssumption
<1>1. PICK r \in 1..Chunks + 3 : Progress(s, r)
  BY DEF Sequel
<1>2. \A x \in results : x = <<s, File(s)>>
  BY <1>1 DEF Progress
<1>3. ASSUME file # None PROVE IsPrefix(file, File(s))
  <2>1. r \in 2..Chunks + 2 /\ file = Part(s, r - 2)
    BY <1>1, <1>3 DEF Progress
  <2>2. r - 2 \in 0..Chunks
    BY <1>0, <2>1
  <2> QED
    BY <2>1, <2>2, PartIsPrefix
<1> QED
  BY <1>2, <1>3

\* What file_transfer.py reports complete is the file that was sent, and what it has
\* written is the beginning of it, if one node sends and no event was dropped: neither
\* a DEALER that is full (send_encoded), a departure nor a UUID collision leaves a gap.
THEOREM WholeHolds == Spec => []Whole
<1> DEFINE Inv == QueueTypes /\ Carried /\ Sequel
<1>1. Init => Inv
  BY TypesInit, CarriedInit, SequelInit
<1>2. Inv /\ [Next]_vars => Inv'
  <2>1. ASSUME Inv, Next PROVE Inv'
    <3>1. QueueTypes'
      BY <2>1, TypesStep
    <3>2. Carried'
      BY <2>1, <3>1, CarriedStep
    <3> QED
      BY <2>1, <3>1, <3>2, SequelStep
  <2>2. ASSUME Inv, UNCHANGED vars PROVE Inv'
    <3>1. QueueTypes'
      BY <2>2 DEF QueueTypes, vars
    <3>0. /\ UNCHANGED <<loop, dealer, pipe, inbox, api, ready, asked, dropped, disk>>
          /\ events' = events
      BY <2>2 DEF vars, disk
    <3>4. \A s \in Sender : Line(s)' = Line(s)
      BY <3>0 DEF Line
    <3>2. Carried'
      <4>1. ASSUME NEW s \in Sender PROVE Seamless(Line(s), s)' /\ Greeting(s)'
        <5>1. PICK q : q = Line(s)
          OBVIOUS
        <5>2. Line(s)' = q /\ Seamless(q, s) /\ Greeting(s)
          BY <2>2, <3>4, <5>1 DEF Carried
        <5>3. Seamless(Line(s), s)'
          BY <5>2 DEF Seamless, Number, Words, Hello, Start, End, Chunk
        <5>4. Greeting(s)'
          BY <3>0, <5>1, <5>2 DEF Greeting, Hello
        <5> QED
          BY <5>3, <5>4
      <4> QED
        BY <4>1 DEF Carried
    <3>3. Sequel'
      <4>1. ASSUME NEW s \in Sender, asked' \subseteq {s}, ~dropped'
            PROVE  \E r, t \in 1..Chunks + 3 :
                      r <= t /\ Progress(s, r)' /\ Waiting(events, s, r, t)' /\ Resumes(s, t)'
        <5>1. asked \subseteq {s} /\ ~dropped
          BY <3>0, <4>1
        <5>2. PICK r \in 1..Chunks + 3, t \in 1..Chunks + 3 :
                 r <= t /\ Progress(s, r) /\ Waiting(events, s, r, t) /\ Resumes(s, t)
          BY <2>2, <5>1 DEF Sequel
        <5>3. Progress(s, r)'
          BY <3>0, <5>2, ProgressSame
        <5>4. Waiting(events, s, r, t)'
          BY <3>0, <5>2, WaitingOf
        <5>5. PICK q : q = Line(s)
          OBVIOUS
        <5>6. Line(s)' = q
          BY <3>4, <5>5
        <5>7. Resumes(s, t)'
          BY <3>0, <5>2, <5>5, <5>6 DEF Resumes, Number, Hello
        <5> QED
          BY <5>2, <5>3, <5>4, <5>7
      <4> QED
        BY <4>1 DEF Sequel
    <3> QED
      BY <3>1, <3>2, <3>3
  <2> QED
    BY <2>1, <2>2
<1>3. Inv => Whole
  BY SequelSays
<1> HIDE DEF Inv
<1> QED
  BY <1>1, <1>2, <1>3, PTL DEF Spec

=============================================================================
