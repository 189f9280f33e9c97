-------------------------- MODULE ZreGossipProofs --------------------------
(***************************************************************************)
(* Theorems about ZreGossip, for every number of nodes and every budget of *)
(* restarts, hub crashes and late hubs: the types, that the clients of a   *)
(* hub come to its table, and that the table comes to the truth.           *)
(***************************************************************************)
EXTENDS ZreGossip, FiniteSetTheorems, SequenceTheorems, TLAPS

(* Frames in a row *)

\* What Append, Tail and \o make of a sequence.
LEMMA AppendIs ==
    ASSUME NEW S, NEW q \in Seq(S), NEW m \in S
    PROVE  /\ Append(q, m) \in Seq(S) /\ Len(q) \in Nat /\ Len(Append(q, m)) = Len(q) + 1
           /\ \A i \in 1..Len(q) : Append(q, m)[i] = q[i]
           /\ Append(q, m)[Len(q) + 1] = m
BY AppendProperties, LenProperties

LEMMA TailIs ==
    ASSUME NEW S, NEW q \in Seq(S), q # <<>>
    PROVE  /\ Tail(q) \in Seq(S) /\ Len(q) \in Nat \ {0} /\ Len(Tail(q)) = Len(q) - 1
           /\ \A i \in 1..Len(q) - 1 : Tail(q)[i] = q[i + 1]
           /\ Head(q) = q[1] /\ Head(q) \in S
<1>1. Tail(q) \in Seq(S) /\ Len(Tail(q)) = Len(q) - 1 /\ Head(q) = q[1] /\ Head(q) \in S
  BY HeadTailProperties
<1>2. Len(q) \in Nat \ {0}
  BY EmptySeq, LenProperties
<1>3. \A i \in 1..Len(q) - 1 : Tail(q)[i] = q[i + 1]
  BY <1>1, <1>2, HeadTailProperties
<1> QED
  BY <1>1, <1>2, <1>3

LEMMA PairIs ==
    ASSUME NEW S, NEW a \in Seq(S), NEW b \in Seq(S)
    PROVE  /\ a \o b \in Seq(S) /\ Len(a) \in Nat /\ Len(b) \in Nat
           /\ Len(a \o b) = Len(a) + Len(b)
           /\ \A i \in 1..Len(a) : (a \o b)[i] = a[i]
           /\ \A i \in 1..Len(b) : (a \o b)[Len(a) + i] = b[i]
<1>1. /\ a \o b \in Seq(S) /\ Len(a) \in Nat /\ Len(b) \in Nat
      /\ Len(a \o b) = Len(a) + Len(b)
      /\ \A i \in 1..Len(a) + Len(b) :
            (a \o b)[i] = IF i <= Len(a) THEN a[i] ELSE b[i - Len(a)]
  BY ConcatProperties, LenProperties
<1>2. ASSUME NEW i \in 1..Len(a) PROVE (a \o b)[i] = a[i]
  BY <1>1, <1>2
<1>3. ASSUME NEW i \in 1..Len(b) PROVE (a \o b)[Len(a) + i] = b[i]
  <2>1. Len(a) + i \in 1..Len(a) + Len(b) /\ ~(Len(a) + i <= Len(a)) /\ (Len(a) + i) - Len(a) = i
    BY <1>1, <1>3
  <2> QED
    BY <1>1, <2>1
<1> QED
  BY <1>1, <1>2, <1>3

\* Every item of a pair is an item of one of its parts.
LEMMA PairParts ==
    ASSUME NEW S, NEW a \in Seq(S), NEW b \in Seq(S), NEW i \in 1..Len(a \o b)
    PROVE  \/ i \in 1..Len(a) /\ (a \o b)[i] = a[i]
           \/ \E j \in 1..Len(b) : i = Len(a) + j /\ (a \o b)[i] = b[j]
<1>1. /\ Len(a) \in Nat /\ Len(b) \in Nat
      /\ Len(a \o b) = Len(a) + Len(b)
      /\ \A j \in 1..Len(a) : (a \o b)[j] = a[j]
      /\ \A j \in 1..Len(b) : (a \o b)[Len(a) + j] = b[j]
  BY PairIs
<1>2. CASE i <= Len(a)
  BY <1>1, <1>2
<1>3. CASE i > Len(a)
  <2>1. i - Len(a) \in 1..Len(b) /\ i = Len(a) + (i - Len(a))
    BY <1>1, <1>3
  <2> QED
    BY <1>1, <2>1
<1> QED
  BY <1>1, <1>2, <1>3

LEMMA PrefixIs ==
    ASSUME NEW S, NEW q \in Seq(S), NEW i \in 1..Len(q)
    PROVE  /\ SubSeq(q, 1, i) \in Seq(S) /\ Len(SubSeq(q, 1, i)) = i
           /\ \A j \in 1..i : j \in 1..Len(q) /\ SubSeq(q, 1, i)[j] = q[j]
<1>1. Len(q) \in Nat /\ i \in Int /\ 1 <= i /\ \A j \in 1..i : j \in 1..Len(q)
  BY LenProperties
<1>2. \A j \in 1..i : q[j] \in S
  BY <1>1, ElementOfSeq
<1>3. /\ SubSeq(q, 1, i) \in Seq(S)
      /\ Len(SubSeq(q, 1, i)) = IF 1 <= i THEN i - 1 + 1 ELSE 0
      /\ \A j \in 1..i - 1 + 1 : SubSeq(q, 1, i)[j] = q[1 + j - 1]
  BY <1>1, <1>2, SubSeqProperties
<1>4. i - 1 + 1 = i /\ \A j \in 1..i : 1 + j - 1 = j
  BY <1>1
<1> QED
  BY <1>1, <1>3, <1>4

\* The frames that tell of k.
LEMMA AppendTells ==
    ASSUME NEW q \in Seq(Body), NEW m \in Body, NEW k, NEW old
    PROVE  /\ Publishes(Append(q, m), k) <=> Publishes(q, k) \/ Tells(m, k)
           /\ \A v : Becomes(q, k, old, v) /\ ~Tells(m, k) => Becomes(Append(q, m), k, old, v)
           /\ Tells(m, k) => Becomes(Append(q, m), k, old, m.value)
<1>1. PICK a : a = Append(q, m)
  OBVIOUS
<1>2. /\ Len(q) \in Nat /\ Len(a) = Len(q) + 1 /\ a[Len(q) + 1] = m
      /\ \A i \in 1..Len(q) : a[i] = q[i]
  BY <1>1, AppendIs
<1>3. \A i \in 1..Len(a) : (i \in 1..Len(q) /\ a[i] = q[i]) \/ (i = Len(q) + 1 /\ a[i] = m)
  <2>1. ASSUME NEW i \in 1..Len(a)
        PROVE  (i \in 1..Len(q) /\ a[i] = q[i]) \/ (i = Len(q) + 1 /\ a[i] = m)
    <3>1. i \in 1..Len(q) \/ i = Len(q) + 1
      BY <1>2, <2>1
    <3> QED
      BY <1>2, <3>1
  <2> QED
    BY <2>1
<1>4. \A i \in 1..Len(q) : i \in 1..Len(a)
  BY <1>2
<1>5. Len(q) + 1 \in 1..Len(a)
  BY <1>2
<1>6. Publishes(a, k) <=> Publishes(q, k) \/ Tells(m, k)
  BY <1>2, <1>3, <1>4, <1>5 DEF Publishes
<1>7. ASSUME NEW v, Becomes(q, k, old, v), ~Tells(m, k) PROVE Becomes(a, k, old, v)
  <2>1. CASE v = old /\ ~Publishes(q, k)
    BY <1>6, <1>7, <2>1 DEF Becomes
  <2>2. ASSUME NEW i \in 1..Len(q), Tells(q[i], k), q[i].value = v,
               \A j \in i + 1..Len(q) : ~Tells(q[j], k)
        PROVE  Becomes(a, k, old, v)
    <3>1. ASSUME NEW j \in i + 1..Len(a) PROVE ~Tells(a[j], k)
      <4>1. j \in 1..Len(a)
        BY <3>1
      <4>2. CASE j \in 1..Len(q) /\ a[j] = q[j]
        BY <2>2, <3>1, <4>2
      <4>3. CASE a[j] = m
        BY <1>7, <4>3
      <4> QED
        BY <1>3, <4>1, <4>2, <4>3
    <3>2. i \in 1..Len(a) /\ a[i] = q[i]
      BY <1>2, <1>4
    <3> QED
      BY <2>2, <3>1, <3>2 DEF Becomes
  <2> QED
    BY <1>7, <2>1, <2>2 DEF Becomes
<1>8. ASSUME Tells(m, k) PROVE Becomes(a, k, old, m.value)
  <2>1. \A j \in (Len(q) + 1) + 1..Len(a) : ~Tells(a[j], k)
    BY <1>2
  <2> QED
    BY <1>2, <1>5, <1>8, <2>1 DEF Becomes
<1> QED
  BY <1>1, <1>6, <1>7, <1>8

LEMMA TailTells ==
    ASSUME NEW q \in Seq(Body), q # <<>>, NEW k, NEW old, NEW v
    PROVE  /\ Publishes(q, k) <=> Publishes(Tail(q), k) \/ Tells(Head(q), k)
           /\ Becomes(q, k, old, v) /\ ~Tells(Head(q), k) => Becomes(Tail(q), k, old, v)
           /\ Becomes(q, k, old, v) /\ Tells(Head(q), k) => Becomes(Tail(q), k, Head(q).value, v)
<1>1. PICK a : a = Tail(q)
  OBVIOUS
<1>2. /\ Len(q) \in Nat \ {0} /\ Len(a) = Len(q) - 1 /\ Head(q) = q[1]
      /\ \A i \in 1..Len(q) - 1 : a[i] = q[i + 1]
  BY <1>1, TailIs
<1>3. \A i \in 1..Len(a) : i + 1 \in 1..Len(q) /\ a[i] = q[i + 1]
  BY <1>2
<1>4. \A i \in 1..Len(q) : i # 1 => i - 1 \in 1..Len(a) /\ a[i - 1] = q[i]
  <2>1. ASSUME NEW i \in 1..Len(q), i # 1 PROVE i - 1 \in 1..Len(a) /\ a[i - 1] = q[i]
    <3>1. i - 1 \in 1..Len(a) /\ i - 1 \in 1..Len(q) - 1 /\ (i - 1) + 1 = i
      BY <1>2, <2>1
    <3> QED
      BY <1>2, <3>1
  <2> QED
    BY <2>1
<1>5. 1 \in 1..Len(q)
  BY <1>2
<1>6. Publishes(q, k) <=> Publishes(a, k) \/ Tells(q[1], k)
  BY <1>3, <1>4, <1>5 DEF Publishes
<1>7. ASSUME NEW i \in 1..Len(q), i # 1, Tells(q[i], k), q[i].value = v,
             \A j \in i + 1..Len(q) : ~Tells(q[j], k), NEW o
      PROVE  Becomes(a, k, o, v)
  <2>1. i - 1 \in 1..Len(a) /\ a[i - 1] = q[i]
    BY <1>4, <1>7
  <2>2. ASSUME NEW j \in (i - 1) + 1..Len(a) PROVE ~Tells(a[j], k)
    <3>1. j \in 1..Len(a) /\ j + 1 \in i + 1..Len(q)
      BY <1>2, <2>1, <2>2
    <3> QED
      BY <1>3, <1>7, <3>1
  <2> QED
    BY <1>7, <2>1, <2>2 DEF Becomes
<1>8. ASSUME Becomes(q, k, old, v), ~Tells(q[1], k) PROVE Becomes(a, k, old, v)
  <2>1. CASE v = old /\ ~Publishes(q, k)
    BY <1>6, <2>1 DEF Becomes
  <2> QED
    BY <1>7, <1>8, <2>1 DEF Becomes
<1>9. ASSUME Becomes(q, k, old, v), Tells(q[1], k) PROVE Becomes(a, k, q[1].value, v)
  <2>1. PICK i \in 1..Len(q) : /\ Tells(q[i], k) /\ q[i].value = v
                               /\ \A j \in i + 1..Len(q) : ~Tells(q[j], k)
    BY <1>6, <1>9 DEF Becomes
  <2>2. CASE i = 1
    <3>1. \A j \in 1..Len(a) : ~Tells(a[j], k)
      <4>1. ASSUME NEW j \in 1..Len(a) PROVE ~Tells(a[j], k)
        <5>1. j + 1 \in i + 1..Len(q)
          BY <1>2, <2>2, <4>1
        <5> QED
          BY <1>3, <2>1, <5>1
      <4> QED
        BY <4>1
    <3> QED
      BY <2>1, <2>2, <3>1 DEF Becomes, Publishes
  <2>3. CASE i # 1
    BY <1>7, <2>1, <2>3
  <2> QED
    BY <2>2, <2>3
<1> QED
  BY <1>1, <1>2, <1>6, <1>8, <1>9

LEMMA PairTells ==
    ASSUME NEW q \in Seq(Body), NEW l \in Seq(Body), NEW k, NEW old
    PROVE  /\ Publishes(q \o l, k) <=> Publishes(q, k) \/ Publishes(l, k)
           /\ \A v : Becomes(q, k, old, v) /\ ~Publishes(l, k) => Becomes(q \o l, k, old, v)
           /\ \A i \in 1..Len(l) :
                 Tells(l[i], k) /\ (\A j \in 1..Len(l) : Tells(l[j], k) => j = i) =>
                    Becomes(q \o l, k, old, l[i].value)
<1>1. PICK a : a = q \o l
  OBVIOUS
<1>2. /\ Len(q) \in Nat /\ Len(l) \in Nat /\ Len(a) = Len(q) + Len(l)
      /\ \A i \in 1..Len(q) : a[i] = q[i]
      /\ \A i \in 1..Len(l) : a[Len(q) + i] = l[i]
  BY <1>1, PairIs
<1>3. ASSUME NEW i \in 1..Len(a)
      PROVE  \/ i \in 1..Len(q) /\ a[i] = q[i]
             \/ \E j \in 1..Len(l) : i = Len(q) + j /\ a[i] = l[j]
  BY <1>1, PairParts
<1>4. \A i \in 1..Len(q) : i \in 1..Len(a)
  BY <1>2
<1>5. \A i \in 1..Len(l) : Len(q) + i \in 1..Len(a)
  BY <1>2
<1>6. Publishes(a, k) <=> Publishes(q, k) \/ Publishes(l, k)
  <2>1. ASSUME Publishes(a, k) PROVE Publishes(q, k) \/ Publishes(l, k)
    <3>1. PICK i \in 1..Len(a) : Tells(a[i], k)
      BY <2>1 DEF Publishes
    <3> QED
      BY <1>3, <3>1 DEF Publishes
  <2>2. ASSUME Publishes(q, k) PROVE Publishes(a, k)
    <3>1. PICK i \in 1..Len(q) : Tells(q[i], k)
      BY <2>2 DEF Publishes
    <3> QED
      BY <1>2, <1>4, <3>1 DEF Publishes
  <2>3. ASSUME Publishes(l, k) PROVE Publishes(a, k)
    <3>1. PICK i \in 1..Len(l) : Tells(l[i], k)
      BY <2>3 DEF Publishes
    <3> QED
      BY <1>2, <1>5, <3>1 DEF Publishes
  <2> QED
    BY <2>1, <2>2, <2>3
<1>7. ASSUME NEW v, Becomes(q, k, old, v), ~Publishes(l, k) PROVE Becomes(a, k, old, v)
  <2>1. CASE v = old /\ ~Publishes(q, k)
    BY <1>6, <1>7, <2>1 DEF Becomes
  <2>2. ASSUME NEW i \in 1..Len(q), Tells(q[i], k), q[i].value = v,
               \A j \in i + 1..Len(q) : ~Tells(q[j], k)
        PROVE  Becomes(a, k, old, v)
    <3>1. ASSUME NEW j \in i + 1..Len(a) PROVE ~Tells(a[j], k)
      <4>1. j \in 1..Len(a)
        BY <3>1
      <4>2. CASE j \in 1..Len(q) /\ a[j] = q[j]
        BY <2>2, <3>1, <4>2
      <4>3. ASSUME NEW x \in 1..Len(l), a[j] = l[x] PROVE ~Tells(a[j], k)
        BY <1>7, <4>3 DEF Publishes
      <4> QED
        BY <1>3, <4>1, <4>2, <4>3
    <3>2. i \in 1..Len(a) /\ a[i] = q[i]
      BY <1>2, <1>4
    <3> QED
      BY <2>2, <3>1, <3>2 DEF Becomes
  <2> QED
    BY <1>7, <2>1, <2>2 DEF Becomes
<1>8. ASSUME NEW i \in 1..Len(l), Tells(l[i], k), \A j \in 1..Len(l) : Tells(l[j], k) => j = i
      PROVE  Becomes(a, k, old, l[i].value)
  <2>1. ASSUME NEW j \in (Len(q) + i) + 1..Len(a) PROVE ~Tells(a[j], k)
    <3>1. j - Len(q) \in 1..Len(l) /\ Len(q) + (j - Len(q)) = j /\ j - Len(q) # i
      BY <1>2, <2>1
    <3> QED
      BY <1>2, <1>8, <3>1
  <2>2. Len(q) + i \in 1..Len(a) /\ a[Len(q) + i] = l[i]
    BY <1>2, <1>5
  <2> QED
    BY <1>8, <2>1, <2>2 DEF Becomes
<1> QED
  BY <1>1, <1>6, <1>7, <1>8

-----------------------------------------------------------------------------
(* What is announced *)

LEMMA EndpointIs ==
    /\ \A e \in Endpoint \cup {0} : e \in Nat
    /\ 0 \notin Endpoint /\ Bound["reboot"] \in Nat /\ Bound["hasty"] \in Nat
BY BoundAssumption DEF Endpoint, Kinds

LEMMA FrameIs ==
    /\ \A t \in {"HELLO", "PING", "PONG", "INVALID"} :
          Frame(t) \in Body /\ Frame(t).type = t /\ \A k : ~Tells(Frame(t), k)
    /\ \A k \in Node, v \in Endpoint :
          /\ Publish(k, v) \in Body /\ Publish(k, v).value = v
          /\ \A x : Tells(Publish(k, v), x) <=> x = k
BY DEF Frame, Body, Publish, Tells

LEMMA ListingIs ==
    ASSUME NEW t \in [Node -> Endpoint \cup {0}]
    PROVE  /\ Listing(t) \in Seq(Body)
           /\ \A i \in 1..Len(Listing(t)) :
                 \E k \in Node : t[k] # 0 /\ Listing(t)[i] = Publish(k, t[k])
           /\ \A k \in Node : Publishes(Listing(t), k) <=> t[k] # 0
           /\ \A k \in Node : t[k] # 0 =>
                 \A q \in Seq(Body) : \A old : Becomes(q \o Listing(t), k, old, t[k])
<1> DEFINE X == {x \in Node : t[x] # 0}
           S == {Publish(k, t[k]) : k \in X}
           n == Cardinality(S)
           f == [k \in X |-> Publish(k, t[k])]
<1>1. IsFiniteSet(X)
  BY FiniteAssumption, FS_Subset
<1>2. IsFiniteSet(S)
  <2>1. f \in Surjection(X, S)
    BY DEF Surjection
  <2> QED
    BY <1>1, <2>1, FS_Surjection
<1>3. n \in Nat /\ ExistsBijection(1..n, S)
  BY <1>2, FS_CardinalityType
<1>4. \E g \in [1..n -> S] : IsInjective(g)
  BY <1>3 DEF ExistsBijection, Bijection, Injection
<1>5. PICK l : l = Listing(t)
  OBVIOUS
<1>6. l \in [1..n -> S] /\ IsInjective(l)
  BY <1>4, <1>5 DEF SetToSeq, Listing
<1>7. l \in Surjection(1..n, S)
  <2>1. l \in Injection(1..n, S)
    BY <1>6 DEF Injection
  <2>2. IsFiniteSet(1..n) /\ Cardinality(1..n) = n
    BY <1>3, FS_Interval
  <2> QED
    BY <1>2, <2>1, <2>2, FS_Injection
<1>8. \A k \in X : Publish(k, t[k]) \in Body
  BY FrameIs
<1>9. l \in Seq(Body) /\ Len(l) = n
  <2>1. S \subseteq Body
    BY <1>8
  <2>2. l \in [1..n -> Body]
    BY <1>6, <2>1
  <2> HIDE DEF n, S
  <2> QED
    BY <1>3, <2>2
<1>10. ASSUME NEW i \in 1..Len(l)
       PROVE  \E k \in Node : t[k] # 0 /\ l[i] = Publish(k, t[k])
  BY <1>6, <1>9, <1>10
<1>11. ASSUME NEW k \in Node, t[k] # 0
       PROVE  \E i \in 1..Len(l) : l[i] = Publish(k, t[k])
  BY <1>7, <1>9, <1>11 DEF Surjection
<1>12. ASSUME NEW i \in 1..Len(l), NEW k, Tells(l[i], k) PROVE t[k] # 0 /\ l[i] = Publish(k, t[k])
  <2>1. PICK x \in Node : t[x] # 0 /\ l[i] = Publish(x, t[x])
    BY <1>10
  <2>2. l[i].key = x
    BY <2>1 DEF Publish
  <2> QED
    BY <1>12, <2>1, <2>2 DEF Tells
<1>13. ASSUME NEW k \in Node PROVE Publishes(l, k) <=> t[k] # 0
  <2>1. ASSUME t[k] # 0 PROVE Publishes(l, k)
    <3>1. PICK i \in 1..Len(l) : l[i] = Publish(k, t[k])
      BY <1>11, <2>1
    <3>2. Tells(l[i], k)
      BY <3>1 DEF Tells, Publish
    <3> QED
      BY <3>2 DEF Publishes
  <2> QED
    BY <1>12, <2>1 DEF Publishes
<1>14. ASSUME NEW k \in Node, t[k] # 0, NEW q \in Seq(Body), NEW old
       PROVE  Becomes(q \o l, k, old, t[k])
  <2>1. PICK i \in 1..Len(l) : l[i] = Publish(k, t[k])
    BY <1>11, <1>14
  <2>2. Tells(l[i], k) /\ l[i].value = t[k]
    BY <2>1 DEF Tells, Publish
  <2>3. ASSUME NEW j \in 1..Len(l), Tells(l[j], k) PROVE j = i
    <3>1. l[j] = l[i]
      BY <1>12, <2>1, <2>3
    <3> QED
      BY <1>6, <1>9, <3>1 DEF IsInjective
  <2> QED
    BY <1>9, <2>2, <2>3, PairTells
<1> QED
  BY <1>5, <1>9, <1>10, <1>13, <1>14

LEMMA AnnouncementIs ==
    ASSUME NEW t \in [Node -> Endpoint \cup {0}]
    PROVE  /\ Announcement(t) \in Seq(Body) /\ Announcement(t) # <<>>
           /\ Announcement(t)[1].type = "HELLO"
           /\ \A k \in Node : Publishes(Announcement(t), k) <=> t[k] # 0
           /\ \A i \in 1..Len(Announcement(t)) : Announcement(t)[i].type = "PUBLISH" =>
                 \E k \in Node : t[k] # 0 /\ Announcement(t)[i] = Publish(k, t[k])
<1>1. PICK h, l, a : h = <<Frame("HELLO")>> /\ l = Listing(t) /\ a = Announcement(t)
  OBVIOUS
<1>2. h \in Seq(Body) /\ Len(h) = 1 /\ h[1] = Frame("HELLO")
  BY <1>1, FrameIs
<1>3. /\ l \in Seq(Body)
      /\ \A i \in 1..Len(l) : \E k \in Node : t[k] # 0 /\ l[i] = Publish(k, t[k])
      /\ \A k \in Node : Publishes(l, k) <=> t[k] # 0
  BY <1>1, ListingIs
<1>4. a = h \o l
  BY <1>1 DEF Announcement
<1>5. /\ a \in Seq(Body) /\ Len(l) \in Nat /\ Len(a) = Len(h) + Len(l)
      /\ \A i \in 1..Len(h) : a[i] = h[i]
  <2>1. h \in Seq(Body) /\ l \in Seq(Body)
    BY <1>2, <1>3
  <2> QED
    BY <1>4, <2>1, PairIs
<1>6. ASSUME NEW i \in 1..Len(a)
      PROVE  \/ i \in 1..Len(h) /\ a[i] = h[i]
             \/ \E j \in 1..Len(l) : i = Len(h) + j /\ a[i] = l[j]
  <2>1. h \in Seq(Body) /\ l \in Seq(Body) /\ i \in 1..Len(h \o l)
    BY <1>2, <1>3, <1>4, <1>6
  <2> QED
    BY <1>4, <2>1, PairParts
<1>7. a # <<>> /\ a[1] = Frame("HELLO")
  <2>1. a[1] = h[1]
    BY <1>2, <1>5
  <2>2. Len(a) # 0
    BY <1>2, <1>5
  <2> QED
    BY <1>2, <2>1, <2>2, EmptySeq
<1>8. ASSUME NEW i \in 1..Len(a), a[i].type = "PUBLISH"
      PROVE  \E k \in Node : t[k] # 0 /\ a[i] = Publish(k, t[k])
  <2>1. ~(i \in 1..Len(h) /\ a[i] = h[i])
    BY <1>2, <1>8, FrameIs
  <2> QED
    BY <1>3, <1>6, <2>1
<1>9. ASSUME NEW k \in Node PROVE Publishes(a, k) <=> t[k] # 0
  <2>1. ~Publishes(h, k)
    BY <1>2, FrameIs DEF Publishes
  <2>2. Publishes(a, k) <=> Publishes(h, k) \/ Publishes(l, k)
    BY <1>2, <1>3, <1>4, PairTells
  <2> QED
    BY <1>3, <2>1, <2>2
<1> QED
  BY <1>1, <1>5, <1>7, <1>8, <1>9, FrameIs

-----------------------------------------------------------------------------
(* Types *)

\* ZRE links and connections: nobody has one with itself.
Lines(links) ==
    links \in [Node -> [Node -> Seq(Letter)]] /\ \A n \in Node : links[n][n] = <<>>
Connections(c) ==
    c \in [Node -> [Node -> Endpoint \cup {0}]] /\ \A n \in Node : c[n][n] = 0

LEMMA LettersAre == Goodbye \in Letter /\ \A e \in Endpoint : Hello(e) \in Letter
BY DEF Letter, Hello

LEMMA SendIs ==
    ASSUME NEW links, Lines(links), NEW n \in Node, NEW p \in Node, n # p, NEW e,
           NEW m \in Letter
    PROVE  Lines(Send(links, n, p, e, m))
<1>1. Append(links[n][p], m) \in Seq(Letter)
  BY AppendProperties DEF Lines
<1> QED
  BY <1>1 DEF Lines, Send

LEMMA RequireIs ==
    ASSUME Lines(net), Connections(peers), NEW n \in Node, NEW k \in Node, NEW v \in Endpoint,
           born[n] \in Endpoint, Require(n, k, v)
    PROVE  Lines(net') /\ Connections(peers')
<1>1. CASE n = k \/ peers[n][k] # 0
  BY <1>1 DEF Require
<1>2. CASE ~(n = k \/ peers[n][k] # 0)
  <2>1. Lines(Send(net, n, k, v, Hello(born[n])))
    BY <1>2, LettersAre, SendIs
  <2>2. net' = Send(net, n, k, v, Hello(born[n])) /\ peers' = [peers EXCEPT ![n][k] = v]
    BY <1>2 DEF Require
  <2>3. Connections(peers')
    BY <1>2, <2>2 DEF Connections
  <2> QED
    BY <2>1, <2>2, <2>3
<1> QED
  BY <1>1, <1>2

LEMMA ChargeIs ==
    ASSUME spent \in [Kinds -> Nat], NEW k \in Kinds, Charge(k)
    PROVE  /\ spent' \in [Kinds -> Nat] /\ spent[k] < Bound[k]
           /\ \A x \in Kinds : spent'[x] = IF x = k THEN spent[x] + 1 ELSE spent[x]
BY DEF Charge

\* Budgets are spent, and never over the bound.
LEMMA SpentGrows ==
    ASSUME TypeOK, Next
    PROVE  /\ spent' \in [Kinds -> Nat]
           /\ \A x \in Kinds : spent[x] <= spent'[x]
           /\ \A x \in Kinds : spent[x] <= Bound[x] => spent'[x] <= Bound[x]
<1>0. spent \in [Kinds -> Nat] /\ Bound \in [Kinds -> Nat]
  BY BoundAssumption DEF TypeOK, Kinds
<1>1. UNCHANGED spent \/ \E k \in Kinds : Charge(k)
  <2>1. ASSUME NEW n \in Node, Boot(n) \/ Redial(n) \/ Stop(n) \/ Crash(n) \/ HubReset(n)
        PROVE  UNCHANGED spent \/ \E k \in Kinds : Charge(k)
    BY <2>1 DEF Boot, Redial, Stop, Crash, HubReset, Kinds
  <2>2. ASSUME NEW n \in Node, HubTake(n) \/ ClientTake(n) \/ Ping(n) PROVE UNCHANGED spent
    BY <2>2 DEF HubTake, ClientTake, Ping
  <2>3. ASSUME NEW n \in Node, NEW p \in Node, RecvHello(n, p) \/ RecvGoodbye(n, p) \/ Expire(n, p)
        PROVE  UNCHANGED spent
    BY <2>3 DEF RecvHello, RecvGoodbye, Expire
  <2>4. ASSUME NEW n \in Node, NEW p \in Node, Unpublish(n, p) PROVE \E k \in Kinds : Charge(k)
    BY <2>4 DEF Unpublish, Kinds
  <2>5. ASSUME HubCrash \/ HubStart PROVE UNCHANGED spent \/ \E k \in Kinds : Charge(k)
    BY <2>5 DEF HubCrash, HubStart, Kinds
  <2>6. ASSUME NEW j \in 1..Len(closed), HubDrain(j) PROVE UNCHANGED spent
    BY <2>6 DEF HubDrain
  <2> QED
    BY <2>1, <2>2, <2>3, <2>4, <2>5, <2>6 DEF Next
<1>2. ASSUME NEW k \in Kinds, Charge(k)
      PROVE  /\ spent' \in [Kinds -> Nat]
             /\ \A x \in Kinds : spent[x] <= spent'[x]
             /\ \A x \in Kinds : spent[x] <= Bound[x] => spent'[x] <= Bound[x]
  <2>1. /\ spent' \in [Kinds -> Nat] /\ spent[k] < Bound[k]
        /\ \A x \in Kinds : spent'[x] = IF x = k THEN spent[x] + 1 ELSE spent[x]
    BY <1>0, <1>2, ChargeIs
  <2> QED
    BY <1>0, <2>1
<1> QED
  BY <1>0, <1>1, <1>2

\* What Linked says of the budgets.
LEMMA RebootsGrow ==
    ASSUME TypeOK, Linked, Next
    PROVE  /\ spent' \in [Kinds -> Nat] /\ \A x \in Kinds : spent[x] <= spent'[x]
           /\ spent'["reboot"] <= Bound["reboot"] /\ spent'["hasty"] <= Bound["hasty"]
           /\ {"reboot", "hasty", "hub"} \subseteq Kinds /\ spent \in [Kinds -> Nat]
<1>1. {"reboot", "hasty", "hub"} \subseteq Kinds /\ spent \in [Kinds -> Nat]
  BY DEF Kinds, TypeOK
<1>2. spent["reboot"] <= Bound["reboot"] /\ spent["hasty"] <= Bound["hasty"]
  BY DEF Linked
<1> QED
  BY <1>1, <1>2, SpentGrows

\* The closed links hold frames.
LEMMA ClosedIs ==
    ASSUME TypeOK, Next
    PROVE  closed' \in Seq(Seq(Body))
<1>0. closed \in Seq(Seq(Body)) /\ up \in [Node -> Seq(Body)]
  BY DEF TypeOK
<1>1. ASSUME NEW n \in Node, Close(n) PROVE closed' \in Seq(Seq(Body))
  <2>1. ASSUME NEW i \in 1..Len(up[n]), closed' = Append(closed, SubSeq(up[n], 1, i))
        PROVE  closed' \in Seq(Seq(Body))
    <3>1. up[n] \in Seq(Body)
      BY <1>0
    <3>2. SubSeq(up[n], 1, i) \in Seq(Body)
      BY <3>1, PrefixIs
    <3> QED
      BY <1>0, <2>1, <3>2, AppendProperties
  <2> QED
    BY <1>0, <1>1, <2>1 DEF Close
<1>2. ASSUME NEW j \in 1..Len(closed), HubDrain(j) PROVE closed' \in Seq(Seq(Body))
  <2>1. closed[j] \in Seq(Body) /\ closed[j] # <<>>
    BY <1>0, <1>2, ElementOfSeq DEF HubDrain
  <2>2. Tail(closed[j]) \in Seq(Body)
    BY <2>1, HeadTailProperties
  <2>3. closed' = [closed EXCEPT ![j] = Tail(closed[j])]
    BY <1>2 DEF HubDrain
  <2> QED
    BY <1>0, <2>2, <2>3, ExceptSeq
<1>3. ASSUME NEW n \in Node, Stop(n) \/ Crash(n) PROVE closed' \in Seq(Seq(Body))
  <2>1. closed' = <<>> \/ Close(n)
    BY <1>3 DEF Stop, Crash, End
  <2> QED
    BY <1>1, <2>1, EmptySeq
<1>4. ASSUME NEW n \in Node, Redial(n) PROVE closed' \in Seq(Seq(Body))
  BY <1>1, <1>4 DEF Redial
<1>5. ASSUME NEW n \in Node,
             Boot(n) \/ HubTake(n) \/ HubReset(n) \/ ClientTake(n) \/ Ping(n)
      PROVE  closed' \in Seq(Seq(Body))
  BY <1>0, <1>5 DEF Boot, HubTake, HubReset, ClientTake, Ping
<1>6. ASSUME NEW n \in Node, NEW p \in Node,
             RecvHello(n, p) \/ RecvGoodbye(n, p) \/ Expire(n, p) \/ Unpublish(n, p)
      PROVE  closed' \in Seq(Seq(Body))
  BY <1>0, <1>6 DEF RecvHello, RecvGoodbye, Expire, Unpublish
<1>7. ASSUME HubCrash \/ HubStart PROVE closed' \in Seq(Seq(Body))
  BY <1>0, <1>7, EmptySeq DEF HubCrash, HubStart
<1> QED
  BY <1>2, <1>3, <1>4, <1>5, <1>6, <1>7 DEF Next

\* A node that does not run has no link.
LEMMA LinkIs ==
    ASSUME TypeOK, Linked, Next, NEW p \in Node, p \notin live'
    PROVE  up'[p] = <<>>
<1>0. up \in [Node -> Seq(Body)] /\ (p \notin live => up[p] = <<>>) /\ (p = host => up[p] = <<>>)
  BY NoneAssumption DEF TypeOK, Linked
<1>1. ASSUME NEW n \in Node, Boot(n) PROVE up'[p] = <<>>
  <2>1. live' = live \cup {n} /\ (up' = up \/ \E a : up' = [up EXCEPT ![n] = a])
    BY <1>1 DEF Boot
  <2> QED
    BY <1>0, <2>1
<1>2. ASSUME NEW n \in Node, Stop(n) \/ Crash(n) PROVE up'[p] = <<>>
  <2>1. End(n)
    BY <1>2 DEF Stop, Crash
  <2>2. live' = live \ {n}
    BY <2>1 DEF End
  <2>3. CASE n = host
    <3>1. \E lost \in SUBSET live : up' = [x \in Node |-> IF x \in lost THEN <<>> ELSE up[x]]
      BY <2>1, <2>3 DEF End
    <3> QED
      BY <1>0, <2>2, <2>3, <3>1
  <2>4. CASE n # host
    <3>1. up' = [up EXCEPT ![n] = <<>>]
      BY <2>1, <2>4 DEF End
    <3> QED
      BY <1>0, <2>2, <3>1
  <2> QED
    BY <2>3, <2>4
<1>3. ASSUME NEW n \in Node,
             HubTake(n) \/ HubReset(n) \/ ClientTake(n) \/ Ping(n) \/ Redial(n)
      PROVE  up'[p] = <<>>
  <2>1. live' = live /\ (up' = up \/ ((n \in live \/ up[n] # <<>>) /\ \E a : up' = [up EXCEPT ![n] = a]))
    BY <1>3 DEF HubTake, HubReset, ClientTake, Ping, Redial, Client, nodeVars
  <2> QED
    BY <1>0, <2>1
<1>4. ASSUME NEW n \in Node, NEW x \in Node,
             RecvHello(n, x) \/ RecvGoodbye(n, x) \/ Expire(n, x) \/ Unpublish(n, x)
      PROVE  up'[p] = <<>>
  BY <1>0, <1>4 DEF RecvHello, RecvGoodbye, Expire, Unpublish
<1>5. ASSUME HubCrash \/ HubStart PROVE up'[p] = <<>>
  <2>1. live' = live /\ (up' = up \/ \E lost \in SUBSET live :
                              up' = [x \in Node |-> IF x \in lost THEN <<>> ELSE up[x]])
    BY <1>5 DEF HubCrash, HubStart, nodeVars
  <2> QED
    BY <1>0, <2>1
<1>6. ASSUME NEW j \in 1..Len(closed), HubDrain(j) PROVE up'[p] = <<>>
  BY <1>0, <1>6 DEF HubDrain
<1> QED
  BY <1>1, <1>2, <1>3, <1>4, <1>5, <1>6 DEF Next

\* The endpoint of a node that runs.
LEMMA BornIs ==
    ASSUME TypeOK, Linked, NEW n \in live
    PROVE  n \in Node /\ born[n] \in Endpoint
BY DEF TypeOK, Linked

LEMMA BornCounted ==
    ASSUME TypeOK, Linked, spent' \in [Kinds -> Nat], \A x \in Kinds : spent[x] <= spent'[x]
    PROVE  /\ \A p \in Node : /\ born[p] \in Nat /\ born[p] <= 1 + spent["reboot"] + spent["hasty"]
                              /\ born[p] <= 1 + spent'["reboot"] + spent'["hasty"]
           /\ spent["reboot"] \in Nat /\ spent'["reboot"] \in Nat
           /\ spent["hasty"] \in Nat /\ spent'["hasty"] \in Nat
<1>1. "reboot" \in Kinds /\ "hasty" \in Kinds /\ spent \in [Kinds -> Nat]
  BY DEF TypeOK, Kinds
<1>2. /\ spent["reboot"] \in Nat /\ spent'["reboot"] \in Nat /\ spent["reboot"] <= spent'["reboot"]
      /\ spent["hasty"] \in Nat /\ spent'["hasty"] \in Nat /\ spent["hasty"] <= spent'["hasty"]
  BY <1>1
<1>3. ASSUME NEW p \in Node PROVE born[p] \in Nat /\ born[p] <= 1 + spent["reboot"] + spent["hasty"]
  <2>1. born[p] \in Endpoint \cup {0} /\ born[p] <= 1 + spent["reboot"] + spent["hasty"]
    BY DEF TypeOK, Linked
  <2> QED
    BY <2>1, EndpointIs
<1> QED
  BY <1>2, <1>3

LEMMA EmptyIs == Empty \in [Node -> Endpoint \cup {0}] /\ \A k \in Node : Empty[k] = 0
BY DEF Empty

\* The tuple of a node itself.
LEMMA OwnIs ==
    ASSUME NEW n \in Node, NEW e \in Endpoint
    PROVE  /\ [Empty EXCEPT ![n] = e] \in [Node -> Endpoint \cup {0}]
           /\ \A k \in Node : [Empty EXCEPT ![n] = e][k] = IF k = n THEN e ELSE 0
BY DEF Empty

LEMMA BasicInit == Init => TypeOK /\ Linked
<1> SUFFICES ASSUME Init PROVE TypeOK /\ Linked
  OBVIOUS
<1>1. <<>> \in Seq(Body) /\ <<>> \in Seq(Letter) /\ <<>> \in Seq(Seq(Body))
  BY EmptySeq
<1>2. Bound["reboot"] \in Nat /\ Bound["hasty"] \in Nat
  BY EndpointIs
<1>3. hub \in BOOLEAN /\ (host = None <=> hub)
  BY DEF Init
<1>4. TypeOK
  BY <1>1, <1>3, EmptyIs DEF Init, TypeOK
<1>5. spent["reboot"] = 0 /\ spent["hasty"] = 0
  BY DEF Init, Kinds
<1>6. Linked
  BY <1>1, <1>2, <1>3, <1>5, EmptyIs, NoneAssumption DEF Init, Linked
<1> QED
  BY <1>4, <1>6

LEMMA BasicBoot ==
    ASSUME TypeOK, Linked, Next, NEW n \in Node, Boot(n)
    PROVE  TypeOK' /\ Linked'
<1>0. /\ spent' \in [Kinds -> Nat] /\ \A x \in Kinds : spent[x] <= spent'[x]
      /\ spent'["reboot"] <= Bound["reboot"] /\ spent'["hasty"] <= Bound["hasty"]
      /\ closed' \in Seq(Seq(Body)) /\ \A p \in Node : p \notin live' => up'[p] = <<>>
  BY RebootsGrow, ClosedIs, LinkIs
<1>1. /\ born \in [Node -> Endpoint \cup {0}] /\ spent \in [Kinds -> Nat]
      /\ "reboot" \in Kinds /\ "hasty" \in Kinds /\ "hub" \in Kinds
      /\ \A p \in Node : born[p] <= 1 + spent["reboot"] + spent["hasty"]
  BY DEF TypeOK, Linked, Kinds
<1>2. born[n] + 1 <= 1 + spent'["reboot"] + spent'["hasty"]
  <2>0. /\ born[n] \in Nat /\ born[n] <= 1 + spent["reboot"] + spent["hasty"]
        /\ spent["reboot"] \in Nat /\ spent'["reboot"] \in Nat /\ spent["reboot"] <= spent'["reboot"]
        /\ spent["hasty"] \in Nat /\ spent'["hasty"] \in Nat /\ spent["hasty"] <= spent'["hasty"]
    BY <1>0, <1>1, BornCounted
  <2>1. CASE born[n] = 0
    BY <2>0, <2>1
  <2>2. CASE born[n] # 0
    <3>1. Charge("reboot") \/ Charge("hasty")
      BY <2>2 DEF Boot
    <3>2. spent'["reboot"] = spent["reboot"] + 1 \/ spent'["hasty"] = spent["hasty"] + 1
      BY <1>1, <3>1, ChargeIs
    <3> QED
      BY <2>0, <3>2
  <2> QED
    BY <2>1, <2>2
<1>3. born[n] + 1 \in Endpoint
  <2>1. /\ born[n] \in Nat /\ spent'["reboot"] \in Nat /\ spent'["hasty"] \in Nat
        /\ Bound["reboot"] \in Nat /\ Bound["hasty"] \in Nat
    BY <1>0, BornCounted, EndpointIs
  <2> QED
    BY <1>0, <1>2, <2>1 DEF Endpoint
<1>4. PICK own \in [Node -> Endpoint \cup {0}] : own = [Empty EXCEPT ![n] = born[n] + 1]
  BY <1>3, OwnIs
<1>5. /\ live' = live \cup {n} /\ born' = [born EXCEPT ![n] = @ + 1]
      /\ tuples' = [tuples EXCEPT ![n] = own]
      /\ n = host => hub' = TRUE /\ table' = own /\ clients' = {} /\ up' = up
      /\ n # host => up' = [up EXCEPT ![n] = Announcement(own)] /\ UNCHANGED hubVars
      /\ fresh' = IF n = host THEN fresh ELSE fresh \cup {n}
      /\ UNCHANGED <<host, peers, down, net>>
  BY <1>4 DEF Boot
<1>6. Announcement(own) \in Seq(Body)
  BY AnnouncementIs
<1>7. born' \in [Node -> Endpoint \cup {0}]
  BY <1>1, <1>3, <1>5
<1>8. up' \in [Node -> Seq(Body)] /\ (host # None => up'[host] = <<>>)
  BY <1>5, <1>6 DEF TypeOK, Linked
<1>9. tuples' \in [Node -> [Node -> Endpoint \cup {0}]] /\ table' \in [Node -> Endpoint \cup {0}]
  BY <1>5 DEF TypeOK, hubVars
<1>10. /\ hub' \in BOOLEAN /\ clients' \subseteq Node \ {host'} /\ fresh' \subseteq live' \ {host'}
       /\ clients' \subseteq live' /\ live' \subseteq Node
  BY <1>5 DEF TypeOK, Linked, hubVars
<1>11. /\ ~hub' => clients' = {} /\ table' = Empty
       /\ host' # None => (hub' <=> host' \in live')
  BY <1>5 DEF Linked, hubVars
<1>12. host' = None /\ spent'["hub"] = 0 => hub'
  <2>1. spent'["hub"] = 0 => spent["hub"] = 0
    BY <1>0, <1>1
  <2> QED
    BY <1>5, <2>1 DEF Linked, hubVars
<1>13. \A p \in Node : born'[p] <= 1 + spent'["reboot"] + spent'["hasty"] /\ (p \in live' => born'[p] # 0)
  <2>1. ASSUME NEW p \in Node PROVE born'[p] <= 1 + spent'["reboot"] + spent'["hasty"] /\ (p \in live' => born'[p] # 0)
    <3>1. CASE p = n
      BY <1>1, <1>2, <1>3, <1>5, <3>1, EndpointIs
    <3>2. CASE p # n
      <4>1. born'[p] = born[p] /\ (p \in live' => p \in live)
        BY <1>1, <1>5, <3>2
      <4>2. born[p] <= 1 + spent'["reboot"] + spent'["hasty"]
        BY <1>0, <1>1, BornCounted
      <4> QED
        BY <4>1, <4>2 DEF Linked
    <3> QED
      BY <3>1, <3>2
  <2> QED
    BY <2>1
<1>14. TypeOK'
  BY <1>0, <1>5, <1>7, <1>8, <1>9, <1>10 DEF TypeOK
<1>15. \A p \in Node : net'[p][p] = <<>> /\ (p \notin live' => down'[p] = <<>>)
  BY <1>5 DEF Linked
<1> QED
  BY <1>0, <1>5, <1>8, <1>10, <1>11, <1>12, <1>13, <1>14, <1>15 DEF Linked

LEMMA BasicEnd ==
    ASSUME TypeOK, Linked, Next, NEW n \in live, End(n), Lines(net')
    PROVE  TypeOK' /\ Linked'
<1>0. /\ spent' \in [Kinds -> Nat] /\ \A x \in Kinds : spent[x] <= spent'[x]
      /\ spent'["reboot"] <= Bound["reboot"] /\ spent'["hasty"] <= Bound["hasty"]
      /\ spent \in [Kinds -> Nat] /\ "hub" \in Kinds /\ n \in Node /\ <<>> \in Seq(Body)
      /\ closed' \in Seq(Seq(Body)) /\ \A p \in Node : p \notin live' => up'[p] = <<>>
  BY RebootsGrow, ClosedIs, LinkIs, EmptySeq DEF TypeOK
<1>1. /\ live' = live \ {n} /\ tuples' = [tuples EXCEPT ![n] = Empty]
      /\ peers' = [peers EXCEPT ![n] = Empty] /\ UNCHANGED <<host, born>>
      /\ clients' = IF n = host THEN {} ELSE clients \ {n}
  BY DEF End
<1>2. /\ up' \in [Node -> Seq(Body)] /\ down' \in [Node -> Seq(Body)]
      /\ \A p \in Node : up'[p] = up[p] \/ up'[p] = <<>>
      /\ down'[n] = <<>> /\ \A p \in Node : down'[p] = down[p] \/ down'[p] = <<>>
  <2>1. CASE n = host
    <3>1. PICK lost \in SUBSET live : up' = [p \in Node |-> IF p \in lost THEN <<>> ELSE up[p]]
      BY <2>1 DEF End
    <3>2. down' = [p \in Node |-> <<>>]
      BY <2>1 DEF End
    <3> QED
      BY <1>0, <3>1, <3>2 DEF TypeOK
  <2>2. CASE n # host
    <3>1. up' = [up EXCEPT ![n] = <<>>] /\ down' = [down EXCEPT ![n] = <<>>]
      BY <2>2 DEF End
    <3> QED
      BY <1>0, <3>1 DEF TypeOK
  <2> QED
    BY <2>1, <2>2
<1>3. /\ n = host => hub' = FALSE /\ table' = Empty /\ fresh' = {}
      /\ n # host => hub' = hub /\ table' = table /\ fresh' = fresh \ {n}
  BY DEF End
<1>4. /\ tuples' \in [Node -> [Node -> Endpoint \cup {0}]]
      /\ table' \in [Node -> Endpoint \cup {0}]
  BY <1>1, <1>3, EmptyIs DEF TypeOK
<1>5. /\ peers' \in [Node -> [Node -> Endpoint \cup {0}]] /\ \A p \in Node : peers'[p][p] = 0
  BY <1>0, <1>1, EmptyIs DEF TypeOK
<1>6. /\ hub' \in BOOLEAN /\ clients' \subseteq Node \ {host'} /\ fresh' \subseteq live' \ {host'}
      /\ clients' \subseteq live' /\ live' \subseteq Node
  BY <1>1, <1>3 DEF TypeOK, Linked
<1>7. TypeOK'
  BY <1>0, <1>1, <1>2, <1>4, <1>5, <1>6 DEF TypeOK, Lines
<1>8. /\ ~hub' => clients' = {} /\ table' = Empty
      /\ host' # None => (hub' <=> host' \in live')
  BY <1>1, <1>3 DEF Linked
<1>9. host' = None /\ spent'["hub"] = 0 => hub'
  <2>1. spent'["hub"] = 0 => spent["hub"] = 0
    BY <1>0
  <2>2. n # None
    BY <1>0, NoneAssumption
  <2> QED
    BY <1>1, <1>3, <2>1, <2>2 DEF Linked
<1>10. \A p \in Node : born'[p] <= 1 + spent'["reboot"] + spent'["hasty"] /\ (p \in live' => born'[p] # 0)
  <2>1. ASSUME NEW p \in Node PROVE born'[p] <= 1 + spent'["reboot"] + spent'["hasty"] /\ (p \in live' => born'[p] # 0)
    <3>1. born[p] <= 1 + spent'["reboot"] + spent'["hasty"]
      BY <1>0, BornCounted
    <3> QED
      BY <1>1, <3>1 DEF Linked
  <2> QED
    BY <2>1
<1>11. \A p \in Node : net'[p][p] = <<>> /\ (p \notin live' => down'[p] = <<>>)
  BY <1>1, <1>2 DEF Linked, Lines
<1>12. host' # None => up'[host] = <<>>
  BY <1>1, <1>2 DEF Linked, TypeOK
<1> QED
  BY <1>0, <1>1, <1>6, <1>7, <1>8, <1>9, <1>10, <1>11, <1>12 DEF Linked

\* Steps in which no node starts or ends.
LEMMA BasicSame ==
    ASSUME TypeOK, Linked, Next, UNCHANGED <<host, live, born>>,
           hub' \in BOOLEAN, hub' = hub \/ host = None,
           host = None /\ spent'["hub"] = 0 => hub',
           ~hub' => clients' = {} /\ table' = Empty,
           table' \in [Node -> Endpoint \cup {0}], clients' \subseteq live \ {host},
           tuples' \in [Node -> [Node -> Endpoint \cup {0}]],
           Connections(peers'), Lines(net'),
           up' \in [Node -> Seq(Body)], host # None => up'[host] = <<>>,
           down' \in [Node -> Seq(Body)], \A n \in Node : n \notin live => down'[n] = <<>>,
           fresh' \subseteq live \ {host}
    PROVE  TypeOK' /\ Linked'
<1>0. /\ spent' \in [Kinds -> Nat] /\ \A x \in Kinds : spent[x] <= spent'[x]
      /\ spent'["reboot"] <= Bound["reboot"] /\ spent'["hasty"] <= Bound["hasty"]
      /\ closed' \in Seq(Seq(Body)) /\ \A p \in Node : p \notin live' => up'[p] = <<>>
  BY RebootsGrow, ClosedIs, LinkIs
<1>1. clients' \subseteq Node \ {host'}
  BY DEF TypeOK
<1>2. TypeOK'
  BY <1>0, <1>1 DEF TypeOK, Connections, Lines
<1>3. \A p \in Node : born'[p] <= 1 + spent'["reboot"] + spent'["hasty"] /\ (p \in live' => born'[p] # 0)
  <2>1. ASSUME NEW p \in Node PROVE born'[p] <= 1 + spent'["reboot"] + spent'["hasty"] /\ (p \in live' => born'[p] # 0)
    <3>1. born[p] <= 1 + spent'["reboot"] + spent'["hasty"]
      BY <1>0, BornCounted
    <3> QED
      BY <3>1 DEF Linked
  <2> QED
    BY <2>1
<1>4. host' # None => (hub' <=> host' \in live')
  BY DEF Linked
<1> QED
  BY <1>0, <1>2, <1>3, <1>4 DEF Linked, Lines

LEMMA BasicIs ==
    ASSUME TypeOK, Linked
    PROVE  /\ hub \in BOOLEAN /\ (~hub => clients = {} /\ table = Empty)
           /\ table \in [Node -> Endpoint \cup {0}] /\ clients \subseteq live \ {host}
           /\ tuples \in [Node -> [Node -> Endpoint \cup {0}]]
           /\ Connections(peers) /\ Lines(net)
           /\ up \in [Node -> Seq(Body)] /\ (host # None => up[host] = <<>>)
           /\ down \in [Node -> Seq(Body)] /\ (\A n \in Node : n \notin live => down[n] = <<>>)
           /\ fresh \subseteq live \ {host} /\ live \subseteq Node
<1>1. clients \subseteq live \ {host}
  BY DEF TypeOK, Linked
<1>2. Connections(peers) /\ Lines(net)
  BY DEF TypeOK, Linked, Connections, Lines
<1> QED
  BY <1>1, <1>2 DEF TypeOK, Linked

\* As long as no hub was lost, it is there.
LEMMA HubStays ==
    ASSUME TypeOK, Linked, Next
    PROVE  host = None /\ spent'["hub"] = 0 => hub
<1>1. "hub" \in Kinds
  BY DEF Kinds
<1>2. spent' \in [Kinds -> Nat] /\ spent \in [Kinds -> Nat] /\ spent["hub"] <= spent'["hub"]
  BY <1>1, SpentGrows DEF TypeOK
<1>3. spent'["hub"] = 0 => spent["hub"] = 0
  BY <1>1, <1>2
<1> QED
  BY <1>3 DEF Linked

LEMMA BasicRecv ==
    ASSUME TypeOK, Linked, Next, NEW n \in Node, NEW p \in Node,
           RecvHello(p, n) \/ RecvGoodbye(p, n) \/ Expire(n, p)
    PROVE  TypeOK' /\ Linked'
<1>1. UNCHANGED <<host, hub, table, clients, live, born, tuples, up, fresh, down>>
  BY DEF RecvHello, RecvGoodbye, Expire, hubVars
<1>2. Connections(peers) /\ Lines(net)
  BY BasicIs
<1>3. ASSUME net[n][p] # <<>>
      PROVE  /\ n # p /\ Tail(net[n][p]) \in Seq(Letter) /\ Head(net[n][p]) \in Letter
             /\ Lines([net EXCEPT ![n][p] = Tail(@)])
  <2>1. n # p /\ net[n][p] \in Seq(Letter)
    BY <1>2, <1>3 DEF Lines
  <2>2. Tail(net[n][p]) \in Seq(Letter) /\ Head(net[n][p]) \in Letter
    BY <1>3, <2>1, HeadTailProperties
  <2> QED
    BY <1>2, <2>1, <2>2 DEF Lines
<1>4. ASSUME NEW e \in Endpoint \cup {0}, n # p PROVE Connections([peers EXCEPT ![p][n] = e])
  BY <1>2, <1>4 DEF Connections
<1>5. Connections(peers') /\ Lines(net')
  <2>1. CASE RecvHello(p, n)
    <3>1. net[n][p] # <<>> /\ Head(net[n][p]).type = "HELLO" /\ p \in live
      BY <2>1 DEF RecvHello
    <3>2. Head(net[n][p]).at \in Endpoint
      BY <1>3, <3>1 DEF Letter, Goodbye
    <3>3. CASE peers[p][n] # 0
      BY <1>2, <1>3, <2>1, <3>1, <3>3 DEF RecvHello
    <3>4. CASE peers[p][n] = 0
      <4>1. PICK e, taken : e = Head(net[n][p]).at /\ taken = [net EXCEPT ![n][p] = Tail(@)]
        OBVIOUS
      <4>2. peers' = [peers EXCEPT ![p][n] = e] /\ net' = Send(taken, p, n, e, Hello(born[p]))
        BY <2>1, <3>4, <4>1 DEF RecvHello
      <4>3. Lines(taken) /\ n # p /\ e \in Endpoint
        BY <1>3, <3>1, <3>2, <4>1
      <4>4. Hello(born[p]) \in Letter
        BY <3>1, BornIs, LettersAre
      <4>5. Lines(Send(taken, p, n, e, Hello(born[p])))
        BY <4>3, <4>4, SendIs
      <4> QED
        BY <1>4, <4>2, <4>3, <4>5
    <3> QED
      BY <3>3, <3>4
  <2>2. CASE RecvGoodbye(p, n)
    BY <1>2, <1>3, <1>4, <2>2 DEF RecvGoodbye
  <2>3. CASE Expire(n, p)
    <3>1. peers' = [peers EXCEPT ![n][p] = 0] /\ net' = net
      BY <2>3 DEF Expire
    <3> QED
      BY <1>2, <3>1 DEF Connections
  <2> QED
    BY <2>1, <2>2, <2>3
<1> QED
  BY <1>1, <1>5, BasicIs, BasicSame, HubStays

LEMMA BasicStop ==
    ASSUME TypeOK, Linked, Next, NEW n \in Node, Stop(n) \/ Crash(n)
    PROVE  n \in live /\ End(n) /\ Lines(net')
<1>1. Connections(peers) /\ Lines(net)
  BY BasicIs
<1>2. n \in live /\ End(n)
  BY DEF Stop, Crash
<1>3. <<>> \in Seq(Letter)
  BY EmptySeq
<1>4. ASSUME NEW links, Lines(links) PROVE Lines(Deaf(links, n))
  BY <1>3, <1>4 DEF Lines, Deaf
<1>5. CASE Crash(n)
  BY <1>1, <1>4, <1>5 DEF Crash
<1>6. CASE Stop(n)
  <2>1. PICK links : links = [net EXCEPT ![n] = [p \in Node |->
                   IF p \in live /\ peers[n][p] = born[p] THEN Append(@[p], Goodbye) ELSE @[p]]]
    OBVIOUS
  <2>2. \A p \in Node : Append(net[n][p], Goodbye) \in Seq(Letter)
    BY <1>1, LettersAre, AppendProperties DEF Lines
  <2>3. links \in [Node -> [Node -> Seq(Letter)]]
    BY <1>1, <2>1, <2>2 DEF Lines
  <2>4. \A p \in Node : links[p][p] = <<>>
    <3>1. peers[n][n] # born[n]
      BY <1>1, <1>2 DEF Connections, Linked
    <3> QED
      BY <1>1, <2>1, <3>1 DEF Lines
  <2>5. net' = Deaf(links, n)
    BY <1>6, <2>1 DEF Stop
  <2> QED
    BY <1>2, <1>4, <2>3, <2>4, <2>5 DEF Lines
<1> QED
  BY <1>2, <1>5, <1>6

\* What a step of the hub makes of a frame m of n: the table, and what it sends.
LEMMA HubTakeIs ==
    ASSUME TypeOK, Linked, NEW n \in Node, HubTake(n)
    PROVE  /\ hub /\ up[n] # <<>> /\ n \in live /\ n # host
           /\ up' = [up EXCEPT ![n] = Tail(@)] /\ up[n][1] \in Body
           /\ Tail(up[n]) \in Seq(Body) /\ Head(up[n]) = up[n][1]
           /\ clients' = clients \cup {n}
           /\ UNCHANGED <<host, hub, live, born, tuples, fresh, spent>>
           /\ \/ /\ up[n][1].type = "HELLO" /\ UNCHANGED <<table, peers, net>>
                 /\ down' = [down EXCEPT ![n] = @ \o Listing(table)]
              \/ /\ up[n][1].type = "PING" /\ UNCHANGED <<table, peers, net>>
                 /\ down' = [down EXCEPT ![n] = @ \o <<Frame("PONG")>>]
              \/ \E k \in Node, v \in Endpoint :
                    up[n][1] = Publish(k, v) /\ Accept(k, v, clients')
<1>1. hub /\ up[n] # <<>> /\ up[n] \in Seq(Body)
  BY DEF HubTake, TypeOK
<1>2. Head(up[n]) = up[n][1] /\ Head(up[n]) \in Body /\ Tail(up[n]) \in Seq(Body)
  BY <1>1, TailIs
<1>3. n \in live /\ n # host
  BY <1>1, NoneAssumption DEF Linked
<1>4. PICK m : m = Head(up[n])
  OBVIOUS
<1>5. ASSUME m.type = "PUBLISH"
      PROVE  m.key \in Node /\ m.value \in Endpoint /\ m = Publish(m.key, m.value)
  BY <1>2, <1>4, <1>5 DEF Body, Publish
<1>6. \/ /\ m.type = "HELLO" /\ UNCHANGED <<table, peers, net>>
         /\ down' = [down EXCEPT ![n] = @ \o Listing(table)]
      \/ /\ m.type = "PING" /\ UNCHANGED <<table, peers, net>>
         /\ down' = [down EXCEPT ![n] = @ \o <<Frame("PONG")>>]
      \/ m.type = "PUBLISH" /\ Accept(m.key, m.value, clients')
  BY <1>4 DEF HubTake
<1>7. \/ /\ m.type = "HELLO" /\ UNCHANGED <<table, peers, net>>
         /\ down' = [down EXCEPT ![n] = @ \o Listing(table)]
      \/ /\ m.type = "PING" /\ UNCHANGED <<table, peers, net>>
         /\ down' = [down EXCEPT ![n] = @ \o <<Frame("PONG")>>]
      \/ \E k \in Node, v \in Endpoint : m = Publish(k, v) /\ Accept(k, v, clients')
  BY <1>5, <1>6
<1>8. /\ up' = [up EXCEPT ![n] = Tail(@)]
      /\ clients' = clients \cup {n}
      /\ UNCHANGED <<host, hub, live, born, tuples, fresh, spent>>
  BY DEF HubTake
<1> QED
  BY <1>1, <1>2, <1>3, <1>4, <1>7, <1>8

LEMMA AcceptIs ==
    ASSUME TypeOK, Linked, NEW k \in Node, NEW v \in Endpoint, NEW S \in SUBSET live,
           Accept(k, v, S)
    PROVE  /\ table' = [table EXCEPT ![k] = v] /\ Connections(peers') /\ Lines(net')
           /\ table[k] = v => down' = down
           /\ table[k] # v => down' = [n \in Node |-> IF n \in S THEN Append(down[n], Publish(k, v))
                                                      ELSE down[n]]
           /\ down' \in [Node -> Seq(Body)] /\ \A n \in Node : n \notin live => down'[n] = <<>>
<1>0. /\ Connections(peers) /\ Lines(net) /\ down \in [Node -> Seq(Body)]
      /\ table \in [Node -> Endpoint \cup {0}] /\ \A n \in Node : n \notin live => down[n] = <<>>
  BY BasicIs
<1>1. CASE table[k] = v
  <2>1. UNCHANGED <<table, down, peers, net>>
    BY <1>1 DEF Accept
  <2> QED
    BY <1>0, <1>1, <2>1
<1>2. CASE table[k] # v
  <2>1. /\ table' = [table EXCEPT ![k] = v]
        /\ down' = [n \in Node |-> IF n \in S THEN Append(down[n], Publish(k, v)) ELSE down[n]]
        /\ IF host \in live THEN Require(host, k, v) ELSE UNCHANGED <<peers, net>>
    BY <1>2 DEF Accept
  <2>2. Connections(peers') /\ Lines(net')
    <3>1. CASE host \in live
      <4>1. host \in Node /\ born[host] \in Endpoint
        BY <3>1, BornIs
      <4> QED
        BY <1>0, <2>1, <3>1, <4>1, RequireIs
    <3> QED
      BY <1>0, <2>1, <3>1
  <2>3. \A n \in Node : Append(down[n], Publish(k, v)) \in Seq(Body)
    BY <1>0, FrameIs, AppendProperties
  <2>4. down' \in [Node -> Seq(Body)] /\ \A n \in Node : n \notin live => down'[n] = <<>>
    BY <1>0, <2>1, <2>3
  <2> QED
    BY <1>2, <2>1, <2>2, <2>4
<1> QED
  BY <1>1, <1>2

LEMMA BasicTake ==
    ASSUME TypeOK, Linked, Next, NEW n \in Node, HubTake(n)
    PROVE  TypeOK' /\ Linked'
<1>0. /\ hub \in BOOLEAN /\ table \in [Node -> Endpoint \cup {0}]
      /\ clients \subseteq live \ {host}
      /\ tuples \in [Node -> [Node -> Endpoint \cup {0}]]
      /\ Connections(peers) /\ Lines(net)
      /\ up \in [Node -> Seq(Body)] /\ (host # None => up[host] = <<>>)
      /\ down \in [Node -> Seq(Body)] /\ (\A p \in Node : p \notin live => down[p] = <<>>)
      /\ fresh \subseteq live \ {host}
  BY BasicIs
<1>1. /\ hub /\ up[n] # <<>> /\ n \in live /\ n # host
      /\ up' = [up EXCEPT ![n] = Tail(@)] /\ Tail(up[n]) \in Seq(Body)
      /\ clients' = clients \cup {n}
      /\ UNCHANGED <<host, hub, live, born, tuples, fresh, spent>>
      /\ \/ /\ UNCHANGED <<table, peers, net>>
            /\ down' = [down EXCEPT ![n] = @ \o Listing(table)]
         \/ /\ UNCHANGED <<table, peers, net>>
            /\ down' = [down EXCEPT ![n] = @ \o <<Frame("PONG")>>]
         \/ \E k \in Node, v \in Endpoint :
               up[n][1] = Publish(k, v) /\ Accept(k, v, clients')
  BY HubTakeIs
<1>2. clients' \subseteq live \ {host}
  BY <1>0, <1>1
<1>3. up' \in [Node -> Seq(Body)] /\ (host # None => up'[host] = <<>>)
  BY <1>0, <1>1
<1>4. /\ down[n] \o Listing(table) \in Seq(Body) /\ down[n] \o <<Frame("PONG")>> \in Seq(Body)
  <2>1. Listing(table) \in Seq(Body) /\ <<Frame("PONG")>> \in Seq(Body) /\ down[n] \in Seq(Body)
    BY <1>0, ListingIs, FrameIs
  <2> QED
    BY <2>1, ConcatProperties
<1>5. /\ table' \in [Node -> Endpoint \cup {0}] /\ Connections(peers') /\ Lines(net')
      /\ down' \in [Node -> Seq(Body)] /\ \A p \in Node : p \notin live => down'[p] = <<>>
  <2>1. ASSUME NEW l, down[n] \o l \in Seq(Body), UNCHANGED <<table, peers, net>>,
               down' = [down EXCEPT ![n] = @ \o l]
        PROVE  /\ table' \in [Node -> Endpoint \cup {0}] /\ Connections(peers') /\ Lines(net')
               /\ down' \in [Node -> Seq(Body)] /\ \A p \in Node : p \notin live => down'[p] = <<>>
    BY <1>0, <1>1, <2>1
  <2>2. ASSUME NEW k \in Node, NEW v \in Endpoint, Accept(k, v, clients')
        PROVE  /\ table' \in [Node -> Endpoint \cup {0}] /\ Connections(peers') /\ Lines(net')
               /\ down' \in [Node -> Seq(Body)] /\ \A p \in Node : p \notin live => down'[p] = <<>>
    <3>1. PICK S : S = clients'
      OBVIOUS
    <3>2. S \in SUBSET live /\ Accept(k, v, S)
      BY <1>2, <2>2, <3>1
    <3>3. /\ table' = [table EXCEPT ![k] = v] /\ Connections(peers') /\ Lines(net')
          /\ down' \in [Node -> Seq(Body)] /\ \A p \in Node : p \notin live => down'[p] = <<>>
      BY <3>2, AcceptIs
    <3> QED
      BY <1>0, <3>3
  <2> QED
    BY <1>1, <1>4, <2>1, <2>2
<1> QED
  BY <1>0, <1>1, <1>2, <1>3, <1>5, BasicSame

\* What a step of the hub makes of a frame of a closed link.
LEMMA HubDrainIs ==
    ASSUME TypeOK, NEW j \in 1..Len(closed), HubDrain(j)
    PROVE  /\ hub /\ closed \in Seq(Seq(Body))
           /\ closed[j] \in Seq(Body) /\ closed[j] # <<>> /\ Head(closed[j]) = closed[j][1]
           /\ closed' = [closed EXCEPT ![j] = Tail(@)]
           /\ UNCHANGED <<host, hub, clients, live, born, tuples, up, fresh, spent>>
           /\ \/ UNCHANGED <<table, down, peers, net>>
              \/ \E k \in Node, v \in Endpoint :
                    closed[j][1] = Publish(k, v) /\ Accept(k, v, clients)
<1>1. closed \in Seq(Seq(Body)) /\ closed[j] \in Seq(Body) /\ closed[j] # <<>>
  BY ElementOfSeq DEF HubDrain, TypeOK
<1>2. Head(closed[j]) = closed[j][1] /\ Head(closed[j]) \in Body
  BY <1>1, TailIs
<1>3. PICK m : m = Head(closed[j])
  OBVIOUS
<1>4. ASSUME m.type = "PUBLISH"
      PROVE  m.key \in Node /\ m.value \in Endpoint /\ m = Publish(m.key, m.value)
  BY <1>2, <1>3, <1>4 DEF Body, Publish
<1>5. IF m.type = "PUBLISH" THEN Accept(m.key, m.value, clients)
      ELSE UNCHANGED <<table, down, peers, net>>
  BY <1>3 DEF HubDrain
<1>6. \/ UNCHANGED <<table, down, peers, net>>
      \/ \E k \in Node, v \in Endpoint : m = Publish(k, v) /\ Accept(k, v, clients)
  BY <1>4, <1>5
<1>7. /\ hub /\ closed' = [closed EXCEPT ![j] = Tail(@)]
      /\ UNCHANGED <<host, hub, clients, live, born, tuples, up, fresh, spent>>
  BY DEF HubDrain
<1> QED
  BY <1>1, <1>2, <1>3, <1>6, <1>7

LEMMA BasicDrain ==
    ASSUME TypeOK, Linked, Next, NEW j \in 1..Len(closed), HubDrain(j)
    PROVE  TypeOK' /\ Linked'
<1>0. /\ hub \in BOOLEAN /\ table \in [Node -> Endpoint \cup {0}]
      /\ clients \subseteq live \ {host}
      /\ tuples \in [Node -> [Node -> Endpoint \cup {0}]]
      /\ Connections(peers) /\ Lines(net)
      /\ up \in [Node -> Seq(Body)] /\ (host # None => up[host] = <<>>)
      /\ down \in [Node -> Seq(Body)] /\ (\A p \in Node : p \notin live => down[p] = <<>>)
      /\ fresh \subseteq live \ {host}
  BY BasicIs
<1>1. /\ hub /\ UNCHANGED <<host, hub, clients, live, born, tuples, up, fresh, spent>>
      /\ \/ UNCHANGED <<table, down, peers, net>>
         \/ \E k \in Node, v \in Endpoint :
               closed[j][1] = Publish(k, v) /\ Accept(k, v, clients)
  BY HubDrainIs
<1>2. /\ table' \in [Node -> Endpoint \cup {0}] /\ Connections(peers') /\ Lines(net')
      /\ down' \in [Node -> Seq(Body)] /\ \A p \in Node : p \notin live => down'[p] = <<>>
  <2>1. ASSUME NEW k \in Node, NEW v \in Endpoint, Accept(k, v, clients)
        PROVE  /\ table' \in [Node -> Endpoint \cup {0}] /\ Connections(peers') /\ Lines(net')
               /\ down' \in [Node -> Seq(Body)] /\ \A p \in Node : p \notin live => down'[p] = <<>>
    <3>1. PICK S \in SUBSET live : S = clients
      BY <1>0
    <3>2. /\ table' = [table EXCEPT ![k] = v] /\ Connections(peers') /\ Lines(net')
          /\ down' \in [Node -> Seq(Body)] /\ \A p \in Node : p \notin live => down'[p] = <<>>
      BY <2>1, <3>1, AcceptIs
    <3> QED
      BY <1>0, <3>2
  <2> QED
    BY <1>0, <1>1, <2>1
<1> QED
  BY <1>0, <1>1, <1>2, BasicSame

\* What a step of a hub link makes of a frame from the hub.
LEMMA ClientTakeIs ==
    ASSUME TypeOK, Linked, NEW n \in Node, ClientTake(n)
    PROVE  /\ n \in live /\ n # host /\ down[n] # <<>>
           /\ down' = [down EXCEPT ![n] = Tail(@)] /\ Head(down[n]) = down[n][1]
           /\ Tail(down[n]) \in Seq(Body)
           /\ UNCHANGED <<host, hub, table, clients, live, born, fresh, spent>>
           /\ \/ \E k \in Node, v \in Endpoint :
                    /\ down[n][1] = Publish(k, v) /\ tuples' = [tuples EXCEPT ![n][k] = v]
                    /\ up' = up
                    /\ UNCHANGED <<peers, net>> \/ Require(n, k, v)
              \/ /\ down[n][1].type = "INVALID"
                 /\ up' = [up EXCEPT ![n] = @ \o Announcement(tuples[n])]
                 /\ UNCHANGED <<tuples, peers, net>>
              \/ down[n][1].type = "PONG" /\ UNCHANGED <<tuples, peers, net, up>>
<1>1. n \in live /\ n # host /\ down[n] # <<>> /\ down[n] \in Seq(Body)
  BY DEF ClientTake, Client, TypeOK
<1>2. Head(down[n]) = down[n][1] /\ Head(down[n]) \in Body /\ Tail(down[n]) \in Seq(Body)
  BY <1>1, TailIs
<1>3. PICK m : m = Head(down[n])
  OBVIOUS
<1>4. ASSUME m.type = "PUBLISH"
      PROVE  m.key \in Node /\ m.value \in Endpoint /\ m = Publish(m.key, m.value)
  BY <1>2, <1>3, <1>4 DEF Body, Publish
<1>5. \/ /\ m.type = "PUBLISH" /\ tuples' = [tuples EXCEPT ![n][m.key] = m.value] /\ up' = up
         /\ UNCHANGED <<peers, net>> \/ Require(n, m.key, m.value)
      \/ /\ m.type = "INVALID" /\ up' = [up EXCEPT ![n] = @ \o Announcement(tuples[n])]
         /\ UNCHANGED <<tuples, peers, net>>
      \/ m.type = "PONG" /\ UNCHANGED <<tuples, peers, net, up>>
  BY <1>3 DEF ClientTake
<1>6. \/ \E k \in Node, v \in Endpoint :
            /\ m = Publish(k, v) /\ tuples' = [tuples EXCEPT ![n][k] = v] /\ up' = up
            /\ UNCHANGED <<peers, net>> \/ Require(n, k, v)
      \/ /\ m.type = "INVALID" /\ up' = [up EXCEPT ![n] = @ \o Announcement(tuples[n])]
         /\ UNCHANGED <<tuples, peers, net>>
      \/ m.type = "PONG" /\ UNCHANGED <<tuples, peers, net, up>>
  BY <1>4, <1>5
<1>7. /\ down' = [down EXCEPT ![n] = Tail(@)]
      /\ UNCHANGED <<host, hub, table, clients, live, born, fresh, spent>>
  BY DEF ClientTake, hubVars
<1> QED
  BY <1>1, <1>2, <1>3, <1>6, <1>7

LEMMA BasicClient ==
    ASSUME TypeOK, Linked, Next, NEW n \in Node, ClientTake(n)
    PROVE  TypeOK' /\ Linked'
<1>0. /\ hub \in BOOLEAN /\ (~hub => clients = {} /\ table = Empty)
      /\ table \in [Node -> Endpoint \cup {0}] /\ clients \subseteq live \ {host}
      /\ tuples \in [Node -> [Node -> Endpoint \cup {0}]]
      /\ Connections(peers) /\ Lines(net)
      /\ up \in [Node -> Seq(Body)] /\ (host # None => up[host] = <<>>)
      /\ down \in [Node -> Seq(Body)] /\ (\A p \in Node : p \notin live => down[p] = <<>>)
      /\ fresh \subseteq live \ {host}
  BY BasicIs
<1>1. /\ n \in live /\ n # host /\ down' = [down EXCEPT ![n] = Tail(@)]
      /\ Tail(down[n]) \in Seq(Body)
      /\ UNCHANGED <<host, hub, table, clients, live, born, fresh, spent>>
      /\ \/ \E k \in Node, v \in Endpoint :
               /\ down[n][1] = Publish(k, v) /\ tuples' = [tuples EXCEPT ![n][k] = v]
               /\ up' = up
               /\ UNCHANGED <<peers, net>> \/ Require(n, k, v)
         \/ /\ up' = [up EXCEPT ![n] = @ \o Announcement(tuples[n])]
            /\ UNCHANGED <<tuples, peers, net>>
         \/ UNCHANGED <<tuples, peers, net, up>>
  BY ClientTakeIs
<1>2. down' \in [Node -> Seq(Body)] /\ \A p \in Node : p \notin live => down'[p] = <<>>
  BY <1>0, <1>1
<1>3. up[n] \o Announcement(tuples[n]) \in Seq(Body)
  <2>1. up[n] \in Seq(Body) /\ Announcement(tuples[n]) \in Seq(Body)
    BY <1>0, AnnouncementIs
  <2> QED
    BY <2>1, ConcatProperties
<1>4. born[n] \in Endpoint
  BY <1>1, BornIs
<1>5. /\ tuples' \in [Node -> [Node -> Endpoint \cup {0}]] /\ Connections(peers') /\ Lines(net')
      /\ up' \in [Node -> Seq(Body)] /\ (host # None => up'[host] = <<>>)
  <2>1. ASSUME NEW k \in Node, NEW v \in Endpoint, tuples' = [tuples EXCEPT ![n][k] = v], up' = up,
               UNCHANGED <<peers, net>> \/ Require(n, k, v)
        PROVE  /\ tuples' \in [Node -> [Node -> Endpoint \cup {0}]]
               /\ Connections(peers') /\ Lines(net')
               /\ up' \in [Node -> Seq(Body)] /\ (host # None => up'[host] = <<>>)
    <3>1. Connections(peers') /\ Lines(net')
      BY <1>0, <1>4, <2>1, RequireIs
    <3> QED
      BY <1>0, <2>1, <3>1
  <2>2. ASSUME up' = [up EXCEPT ![n] = @ \o Announcement(tuples[n])] \/ up' = up
        PROVE  up' \in [Node -> Seq(Body)] /\ (host # None => up'[host] = <<>>)
    <3>1. PICK q \in Seq(Body) : q = up[n] \o Announcement(tuples[n])
      BY <1>3
    <3>2. up' = [up EXCEPT ![n] = q] \/ up' = up
      BY <2>2, <3>1
    <3>3. up' \in [Node -> Seq(Body)]
      BY <1>0, <3>2
    <3>4. \A p \in Node : p # n => up'[p] = up[p]
      BY <1>0, <3>2
    <3>5. host # None => host \in Node
      BY DEF TypeOK
    <3> QED
      BY <1>0, <1>1, <3>3, <3>4, <3>5
  <2>3. UNCHANGED <<tuples, peers, net>> =>
           tuples' \in [Node -> [Node -> Endpoint \cup {0}]] /\ Connections(peers') /\ Lines(net')
    BY <1>0
  <2> QED
    BY <1>1, <2>1, <2>2, <2>3
<1> QED
  BY <1>0, <1>1, <1>2, <1>5, BasicSame, HubStays

LEMMA BasicLink ==
    ASSUME TypeOK, Linked, Next, NEW n \in Node, Ping(n) \/ Redial(n) \/ HubReset(n)
    PROVE  TypeOK' /\ Linked'
<1>0. /\ hub \in BOOLEAN /\ (~hub => clients = {} /\ table = Empty)
      /\ table \in [Node -> Endpoint \cup {0}] /\ clients \subseteq live \ {host}
      /\ tuples \in [Node -> [Node -> Endpoint \cup {0}]]
      /\ Connections(peers) /\ Lines(net)
      /\ up \in [Node -> Seq(Body)] /\ (host # None => up[host] = <<>>)
      /\ down \in [Node -> Seq(Body)] /\ (\A p \in Node : p \notin live => down[p] = <<>>)
      /\ fresh \subseteq live \ {host}
  BY BasicIs
<1>1. /\ n \in live /\ n # host
      /\ UNCHANGED <<host, hub, table, live, born, tuples, peers, net>>
  BY DEF Ping, Redial, HubReset, Client, hubVars, nodeVars
<1>2. clients' \subseteq clients /\ fresh' \subseteq fresh \cup {n}
  BY DEF Ping, Redial, HubReset, hubVars
<1>3. /\ Append(up[n], Frame("PING")) \in Seq(Body) /\ Announcement(tuples[n]) \in Seq(Body)
      /\ Append(down[n], Frame("INVALID")) \in Seq(Body)
  BY <1>0, FrameIs, AppendProperties, AnnouncementIs
<1>4. up' \in [Node -> Seq(Body)] /\ (host # None => up'[host] = <<>>)
  <2>1. ASSUME NEW q \in Seq(Body), up' = [up EXCEPT ![n] = q]
        PROVE  up' \in [Node -> Seq(Body)] /\ (host # None => up'[host] = <<>>)
    BY <1>0, <1>1, <2>1
  <2>2. CASE Ping(n)
    <3>1. up' = [up EXCEPT ![n] = Append(up[n], Frame("PING"))]
      BY <2>2 DEF Ping
    <3> QED
      BY <1>3, <2>1, <3>1
  <2>3. CASE Redial(n)
    <3>1. up' = [up EXCEPT ![n] = Announcement(tuples[n])]
      BY <2>3 DEF Redial
    <3> QED
      BY <1>3, <2>1, <3>1
  <2>4. CASE HubReset(n)
    BY <1>0, <2>4 DEF HubReset
  <2> QED
    BY <2>2, <2>3, <2>4
<1>5. down' \in [Node -> Seq(Body)] /\ \A p \in Node : p \notin live => down'[p] = <<>>
  BY <1>0, <1>1, <1>3 DEF Ping, Redial, HubReset
<1>6. clients' \subseteq live \ {host} /\ fresh' \subseteq live \ {host} /\ (~hub => clients' = {})
  BY <1>0, <1>1, <1>2
<1> QED
  BY <1>0, <1>1, <1>4, <1>5, <1>6, BasicSame, HubStays

LEMMA BasicHub ==
    ASSUME TypeOK, Linked, Next, HubCrash \/ HubStart
    PROVE  TypeOK' /\ Linked'
<1>0. /\ table \in [Node -> Endpoint \cup {0}] /\ clients \subseteq live \ {host}
      /\ tuples \in [Node -> [Node -> Endpoint \cup {0}]]
      /\ Connections(peers) /\ Lines(net)
      /\ up \in [Node -> Seq(Body)] /\ (host # None => up[host] = <<>>)
      /\ down \in [Node -> Seq(Body)] /\ (\A p \in Node : p \notin live => down[p] = <<>>)
      /\ fresh \subseteq live \ {host}
  BY BasicIs
<1>1. host = None /\ UNCHANGED <<host, live, born, tuples, peers, net>>
  BY DEF HubCrash, HubStart, nodeVars
<1>2. CASE HubStart
  <2>1. hub' = TRUE /\ UNCHANGED <<table, clients, up, fresh, down>>
    BY <1>2 DEF HubStart
  <2> QED
    BY <1>0, <1>1, <2>1, BasicSame
<1>3. CASE HubCrash
  <2>1. /\ hub' = FALSE /\ table' = Empty /\ clients' = {} /\ fresh' = {}
        /\ down' = [n \in Node |-> <<>>] /\ Charge("hub")
    BY <1>3 DEF HubCrash
  <2>2. PICK lost \in SUBSET live : up' = [n \in Node |-> IF n \in lost THEN <<>> ELSE up[n]]
    BY <1>3 DEF HubCrash
  <2>3. up' \in [Node -> Seq(Body)] /\ down' \in [Node -> Seq(Body)]
    BY <1>0, <2>1, <2>2, EmptySeq
  <2>4. spent'["hub"] # 0
    <3>1. "hub" \in Kinds /\ spent \in [Kinds -> Nat]
      BY DEF Kinds, TypeOK
    <3>2. spent'["hub"] = spent["hub"] + 1
      BY <2>1, <3>1, ChargeIs
    <3> QED
      BY <3>1, <3>2
  <2>5. \A n \in Node : down'[n] = <<>>
    BY <2>1
  <2> QED
    BY <1>0, <1>1, <2>1, <2>3, <2>4, <2>5, EmptyIs, BasicSame
<1> QED
  BY <1>2, <1>3

LEMMA BasicUnpublish ==
    ASSUME TypeOK, Linked, Next, NEW n \in Node, NEW k \in Node, Unpublish(n, k)
    PROVE  TypeOK' /\ Linked'
<1>0. /\ hub \in BOOLEAN /\ (~hub => clients = {} /\ table = Empty)
      /\ table \in [Node -> Endpoint \cup {0}] /\ clients \subseteq live \ {host}
      /\ tuples \in [Node -> [Node -> Endpoint \cup {0}]]
      /\ Connections(peers) /\ Lines(net)
      /\ up \in [Node -> Seq(Body)] /\ (host # None => up[host] = <<>>)
      /\ down \in [Node -> Seq(Body)] /\ (\A p \in Node : p \notin live => down[p] = <<>>)
      /\ fresh \subseteq live \ {host}
  BY BasicIs
<1>1. /\ tuples' = [tuples EXCEPT ![n][k] = 0]
      /\ table' = IF n = host THEN [table EXCEPT ![k] = 0] ELSE table
      /\ UNCHANGED <<host, hub, clients, live, born, peers, up, fresh, down, net>>
  BY DEF Unpublish
<1>2. /\ tuples' \in [Node -> [Node -> Endpoint \cup {0}]]
      /\ table' \in [Node -> Endpoint \cup {0}]
  BY <1>0, <1>1
<1>3. ~hub => table' = Empty
  BY <1>0, <1>1, EmptyIs DEF Empty
<1> QED
  BY <1>0, <1>1, <1>2, <1>3, BasicSame, HubStays

\* The types and the links are kept by every step.
LEMMA BasicStep == TypeOK /\ Linked /\ Next => TypeOK' /\ Linked'
<1> SUFFICES ASSUME TypeOK, Linked, Next PROVE TypeOK' /\ Linked'
  OBVIOUS
<1>1. ASSUME NEW n \in Node, Stop(n) \/ Crash(n) PROVE TypeOK' /\ Linked'
  <2>1. n \in live /\ End(n) /\ Lines(net')
    BY <1>1, BasicStop
  <2> QED
    BY <2>1, BasicEnd
<1>2. ASSUME NEW n \in Node, NEW p \in Node, RecvHello(n, p) \/ RecvGoodbye(n, p) \/ Expire(n, p)
      PROVE  TypeOK' /\ Linked'
  BY <1>2, BasicRecv
<1> QED
  BY <1>1, <1>2, BasicBoot, BasicTake, BasicDrain, BasicClient, BasicLink, BasicHub, BasicUnpublish
  DEF Next

-----------------------------------------------------------------------------
(* Clients come to the hub's table *)

\* Joining and Following of one node.
Joins(n) ==
    /\ up[n] # <<>> /\ up[n][1].type = "HELLO"
    /\ \A k \in Node : ~Publishes(down[n], k)
    /\ \A k \in Node : tuples[n][k] # 0 => Publishes(up[n], k)
Follows(n, k) ==
    \/ Becomes(down[n], k, tuples[n][k], table[k])
    \/ table[k] = 0 /\ Publishes(up[n], k)

LEMMA NothingTold == \A k : ~Publishes(<<>>, k)
<1>1. Len(<<>>) = 0
  BY EmptySeq
<1> QED
  BY <1>1 DEF Publishes

\* A greeting stays ahead of what is put behind it.
LEMMA JoinsOn ==
    ASSUME NEW q \in Seq(Body), NEW l \in Seq(Body), q # <<>>
    PROVE  q \o l # <<>> /\ (q \o l)[1] = q[1]
<1>1. /\ Len(q) \in Nat /\ Len(l) \in Nat /\ Len(q \o l) = Len(q) + Len(l)
      /\ \A i \in 1..Len(q) : (q \o l)[i] = q[i]
  BY PairIs
<1>2. Len(q) # 0
  BY EmptySeq
<1>3. 1 \in 1..Len(q)
  BY <1>1, <1>2
<1>4. Len(q \o l) # 0
  BY <1>1, <1>2
<1> QED
  BY <1>1, <1>3, <1>4, EmptySeq

LEMMA JoinsMore ==
    ASSUME NEW q \in Seq(Body), NEW m \in Body, q # <<>>
    PROVE  Append(q, m) # <<>> /\ Append(q, m)[1] = q[1]
<1>1. /\ Len(q) \in Nat /\ Len(Append(q, m)) = Len(q) + 1
      /\ \A i \in 1..Len(q) : Append(q, m)[i] = q[i]
  BY AppendIs
<1>2. Len(q) # 0
  BY EmptySeq
<1>3. 1 \in 1..Len(q) /\ Len(Append(q, m)) # 0
  BY <1>1, <1>2
<1> QED
  BY <1>1, <1>3, EmptySeq

\* What a step of the hub puts on the links of others.
LEMMA TakeOthers ==
    ASSUME TypeOK, Linked, NEW x \in Node, HubTake(x), NEW n \in Node, n # x
    PROVE  /\ up'[n] = up[n] /\ (n \in clients' <=> n \in clients)
           /\ n \notin clients => down'[n] = down[n]
<1>1. /\ up' = [up EXCEPT ![x] = Tail(@)]
      /\ clients' = clients \cup {x}
      /\ \/ down' = [down EXCEPT ![x] = @ \o Listing(table)]
         \/ down' = [down EXCEPT ![x] = @ \o <<Frame("PONG")>>]
         \/ \E k \in Node, v \in Endpoint : Accept(k, v, clients')
  BY HubTakeIs
<1>2. up \in [Node -> Seq(Body)] /\ down \in [Node -> Seq(Body)]
  BY BasicIs
<1>3. up'[n] = up[n] /\ (n \in clients' <=> n \in clients)
  BY <1>1, <1>2
<1>4. ASSUME NEW k \in Node, NEW v \in Endpoint, Accept(k, v, clients'), n \notin clients
      PROVE  down'[n] = down[n]
  BY <1>2, <1>3, <1>4 DEF Accept
<1>5. ASSUME NEW l, down' = [down EXCEPT ![x] = @ \o l]
      PROVE  down'[n] = down[n]
  BY <1>2, <1>5
<1> QED
  BY <1>1, <1>3, <1>4, <1>5

LEMMA ClientOthers ==
    ASSUME TypeOK, Linked, NEW x \in Node, ClientTake(x), NEW n \in Node, n # x
    PROVE  up'[n] = up[n] /\ down'[n] = down[n] /\ tuples'[n] = tuples[n]
<1>1. /\ up \in [Node -> Seq(Body)] /\ down \in [Node -> Seq(Body)]
      /\ tuples \in [Node -> [Node -> Endpoint \cup {0}]]
  BY BasicIs
<1>2. down'[n] = down[n]
  BY <1>1 DEF ClientTake
<1>3. /\ \/ up' = up
         \/ up' = [up EXCEPT ![x] = @ \o Announcement(tuples[x])]
      /\ \/ tuples' = tuples
         \/ \E k, v : tuples' = [tuples EXCEPT ![x][k] = v]
  BY DEF ClientTake
<1> QED
  BY <1>1, <1>2, <1>3

LEMMA JoiningStep == TypeOK /\ Linked /\ TypeOK' /\ Joining /\ Next => Joining'
<1> SUFFICES ASSUME TypeOK, Linked, TypeOK', Joining, Next,
                    NEW n \in Node, n \in fresh', n \notin clients'
             PROVE  Joins(n)'
  BY DEF Joining, Joins, TypeOK
<1>0. /\ tuples \in [Node -> [Node -> Endpoint \cup {0}]]
      /\ up \in [Node -> Seq(Body)] /\ down \in [Node -> Seq(Body)]
      /\ fresh \subseteq live \ {host} /\ clients \subseteq live \ {host} /\ live \subseteq Node
      /\ n # host'
  BY BasicIs DEF TypeOK
<1>J. n \in fresh /\ n \notin clients => Joins(n)
  BY DEF Joining, Joins
<1>S. ASSUME n \in fresh, n \notin clients, up'[n] = up[n], down'[n] = down[n],
             \A k \in Node : tuples'[n][k] # 0 => tuples[n][k] # 0
      PROVE  Joins(n)'
  BY <1>J, <1>S DEF Joins, Publishes, Tells
<1>A. ASSUME NEW t \in [Node -> Endpoint \cup {0}], up'[n] = Announcement(t), down'[n] = <<>>,
             tuples'[n] = t
      PROVE  Joins(n)'
  <2>1. PICK a : a = Announcement(t)
    OBVIOUS
  <2>2. a # <<>> /\ a[1].type = "HELLO" /\ \A k \in Node : Publishes(a, k) <=> t[k] # 0
    BY <2>1, AnnouncementIs
  <2>3. /\ up'[n] # <<>> /\ up'[n][1].type = "HELLO" /\ \A k \in Node : ~Publishes(<<>>, k)
        /\ \A k \in Node : t[k] # 0 => Publishes(a, k)
    BY <1>A, <2>1, <2>2, NothingTold
  <2> QED
    BY <1>A, <2>1, <2>3 DEF Joins, Publishes, Tells
<1>1. ASSUME NEW x \in Node, Boot(x) PROVE Joins(n)'
  <2>1. host' = host /\ down' = down /\ x \notin live /\ (~hub => clients = {})
    BY <1>1 DEF Boot, Linked
  <2>2. CASE x = n
    <3>1. n # host
      BY <1>0, <2>1
    <3>2. PICK t : t = [Empty EXCEPT ![n] = born[n] + 1]
      OBVIOUS
    <3>3. up'[n] = Announcement(t) /\ tuples'[n] = t
      BY <1>0, <1>1, <2>2, <3>1, <3>2 DEF Boot
    <3>4. t \in [Node -> Endpoint \cup {0}]
      BY <3>3 DEF TypeOK
    <3>5. down'[n] = <<>>
      BY <2>1, <2>2 DEF Linked
    <3> QED
      BY <1>A, <3>3, <3>4, <3>5
  <2>3. CASE x # n
    <3>1. n \in fresh /\ tuples'[n] = tuples[n] /\ up'[n] = up[n]
      BY <1>0, <1>1, <2>3 DEF Boot
    <3>2. CASE x = host
      <4>1. ~hub
        BY <2>1, <3>2, NoneAssumption DEF Linked
      <4> QED
        BY <1>S, <2>1, <3>1, <4>1
    <3>3. CASE x # host
      <4>1. clients' = clients
        BY <1>1, <3>3 DEF Boot, hubVars
      <4> QED
        BY <1>S, <2>1, <3>1, <4>1
    <3> QED
      BY <3>2, <3>3
  <2> QED
    BY <2>2, <2>3
<1>2. ASSUME NEW x \in Node, Stop(x) \/ Crash(x) PROVE Joins(n)'
  <2>1. End(x)
    BY <1>2 DEF Stop, Crash
  <2>2. x # host /\ x # n /\ n \in fresh /\ n \notin clients
    BY <2>1 DEF End
  <2>3. up'[n] = up[n] /\ down'[n] = down[n] /\ tuples'[n] = tuples[n]
    BY <1>0, <2>1, <2>2 DEF End
  <2> QED
    BY <1>S, <2>2, <2>3
<1>3. ASSUME NEW x \in Node, NEW p \in Node,
             RecvHello(x, p) \/ RecvGoodbye(x, p) \/ Expire(x, p) \/ Unpublish(x, p)
      PROVE  Joins(n)'
  <2>1. UNCHANGED <<clients, up, fresh, down>>
    BY <1>3 DEF RecvHello, RecvGoodbye, Expire, Unpublish, hubVars
  <2>2. \A k \in Node : tuples'[n][k] # 0 => tuples[n][k] # 0
    BY <1>0, <1>3 DEF RecvHello, RecvGoodbye, Expire, Unpublish
  <2> QED
    BY <1>S, <2>1, <2>2
<1>4. ASSUME NEW x \in Node, HubTake(x) PROVE Joins(n)'
  <2>1. fresh' = fresh /\ tuples' = tuples /\ (x \in live => x \in clients')
    BY <1>4, HubTakeIs
  <2>2. x # n
    BY <1>0, <2>1
  <2>3. up'[n] = up[n] /\ n \notin clients /\ down'[n] = down[n]
    BY <1>4, <2>2, TakeOthers
  <2> QED
    BY <1>S, <2>1, <2>3
<1>5. ASSUME NEW x \in Node, ClientTake(x) PROVE Joins(n)'
  <2>1. /\ down[x] # <<>> /\ down' = [down EXCEPT ![x] = Tail(@)] /\ Head(down[x]) = down[x][1]
        /\ fresh' = fresh /\ clients' = clients
        /\ \/ \E k \in Node, v \in Endpoint : down[x][1] = Publish(k, v)
           \/ up' = [up EXCEPT ![x] = @ \o Announcement(tuples[x])] /\ tuples' = tuples
           \/ UNCHANGED <<tuples, up>>
    <3>1. \/ \E k \in Node, v \in Endpoint :
                /\ down[x][1] = Publish(k, v) /\ tuples' = [tuples EXCEPT ![x][k] = v]
                /\ up' = up
                /\ UNCHANGED <<peers, net>> \/ Require(x, k, v)
          \/ /\ down[x][1].type = "INVALID"
             /\ up' = [up EXCEPT ![x] = @ \o Announcement(tuples[x])]
             /\ UNCHANGED <<tuples, peers, net>>
          \/ down[x][1].type = "PONG" /\ UNCHANGED <<tuples, peers, net, up>>
      BY <1>5, ClientTakeIs
    <3>2. /\ down[x] # <<>> /\ down' = [down EXCEPT ![x] = Tail(@)] /\ Head(down[x]) = down[x][1]
          /\ fresh' = fresh /\ clients' = clients
      BY <1>5, ClientTakeIs
    <3> QED
      BY <3>1, <3>2
  <2>2. CASE x # n
    <3>1. up'[n] = up[n] /\ down'[n] = down[n] /\ tuples'[n] = tuples[n]
      BY <1>5, <2>2, ClientOthers
    <3> QED
      BY <1>S, <2>1, <3>1
  <2>3. CASE x = n
    <3>1. Joins(n)
      BY <1>J, <2>1
    <3>2. PICK d : d = down[n]
      OBVIOUS
    <3>3. d \in Seq(Body) /\ d # <<>> /\ down'[n] = Tail(d)
      BY <1>0, <2>1, <2>3, <3>2
    <3>4. \A k \in Node : ~Publishes(Tail(d), k) /\ ~Tells(Head(d), k)
      <4>1. \A k \in Node : ~Publishes(d, k)
        BY <3>1, <3>2 DEF Joins
      <4> QED
        BY <3>3, <4>1, TailTells
    <3>5. ~ \E k \in Node, v \in Endpoint : down[n][1] = Publish(k, v)
      BY <2>1, <2>3, <3>2, <3>4, FrameIs
    <3>6. tuples' = tuples
      BY <2>1, <2>3, <3>5
    <3>7. /\ up'[n] # <<>> /\ up'[n][1].type = "HELLO"
          /\ \A k \in Node : Publishes(up[n], k) => Publishes(up'[n], k)
      <4>1. CASE up' = up
        BY <3>1, <4>1 DEF Joins
      <4>2. CASE up' = [up EXCEPT ![x] = @ \o Announcement(tuples[x])]
        <5>1. PICK u, l : u = up[n] /\ l = Announcement(tuples[n])
          OBVIOUS
        <5>2. u \in Seq(Body) /\ l \in Seq(Body) /\ u # <<>> /\ u[1].type = "HELLO"
          BY <1>0, <3>1, <5>1, AnnouncementIs DEF Joins
        <5>3. up'[n] = u \o l
          BY <1>0, <2>3, <4>2, <5>1
        <5>4. u \o l # <<>> /\ (u \o l)[1] = u[1]
          BY <5>2, JoinsOn
        <5>5. \A k : Publishes(u, k) => Publishes(u \o l, k)
          BY <5>2, PairTells
        <5> QED
          BY <5>1, <5>2, <5>3, <5>4, <5>5
      <4> QED
        BY <2>1, <2>3, <3>5, <4>1, <4>2
    <3>8. /\ \A k \in Node : ~Publishes(down'[n], k)
          /\ \A k \in Node : tuples[n][k] # 0 => Publishes(up'[n], k)
      BY <3>1, <3>3, <3>4, <3>7 DEF Joins
    <3> QED
      BY <3>6, <3>7, <3>8 DEF Joins, Publishes, Tells
  <2> QED
    BY <2>2, <2>3
<1>6. ASSUME NEW x \in Node, Ping(x) PROVE Joins(n)'
  <2>1. UNCHANGED <<clients, tuples, fresh, down>> /\ up' = [up EXCEPT ![x] = Append(@, Frame("PING"))]
    BY <1>6 DEF Ping, hubVars, nodeVars
  <2>2. CASE x # n
    BY <1>0, <1>S, <2>1, <2>2
  <2>3. CASE x = n
    <3>1. Joins(n)
      BY <1>J, <2>1
    <3>2. PICK u \in Seq(Body), m \in Body : u = up[n] /\ m = Frame("PING")
      BY <1>0, FrameIs
    <3>3. up'[n] = Append(u, m) /\ u # <<>> /\ u[1].type = "HELLO"
      BY <1>0, <2>1, <2>3, <3>1, <3>2 DEF Joins
    <3>4. Append(u, m) # <<>> /\ Append(u, m)[1] = u[1]
      BY <3>3, JoinsMore
    <3>5. \A k : Publishes(u, k) => Publishes(Append(u, m), k)
      BY AppendTells
    <3>6. /\ up'[n] # <<>> /\ up'[n][1].type = "HELLO"
          /\ \A k \in Node : ~Publishes(down[n], k)
          /\ \A k \in Node : tuples[n][k] # 0 => Publishes(up'[n], k)
      BY <3>1, <3>2, <3>3, <3>4, <3>5 DEF Joins
    <3> QED
      BY <2>1, <3>6 DEF Joins, Publishes, Tells
  <2> QED
    BY <2>2, <2>3
<1>7. ASSUME NEW x \in Node, Redial(x) PROVE Joins(n)'
  <2>1. /\ tuples' = tuples /\ down' = down /\ down[x] = <<>> /\ fresh' = fresh \cup {x}
        /\ clients' = clients \ {x} /\ up' = [up EXCEPT ![x] = Announcement(tuples[x])]
    BY <1>7 DEF Redial, nodeVars
  <2>2. CASE x # n
    BY <1>0, <1>S, <2>1, <2>2
  <2>3. CASE x = n
    <3>1. PICK t \in [Node -> Endpoint \cup {0}] : t = tuples[n]
      BY <1>0
    <3>2. up'[n] = Announcement(t) /\ down'[n] = <<>> /\ tuples'[n] = t
      BY <1>0, <2>1, <2>3, <3>1
    <3> QED
      BY <1>A, <3>2
  <2> QED
    BY <2>2, <2>3
<1>8. ASSUME NEW x \in Node, HubReset(x) PROVE Joins(n)'
  <2>1. UNCHANGED <<clients, tuples, fresh, up>> /\ down' = [down EXCEPT ![x] = Append(@, Frame("INVALID"))]
    BY <1>8 DEF HubReset, hubVars, nodeVars
  <2>2. CASE x # n
    BY <1>0, <1>S, <2>1, <2>2
  <2>3. CASE x = n
    <3>1. Joins(n)
      BY <1>J, <2>1
    <3>2. PICK d \in Seq(Body), m \in Body : d = down[n] /\ m = Frame("INVALID")
      BY <1>0, FrameIs
    <3>3. down'[n] = Append(d, m) /\ \A k : ~Tells(m, k)
      BY <1>0, <2>1, <2>3, <3>2, FrameIs
    <3>4. \A k : Publishes(Append(d, m), k) => Publishes(d, k)
      BY <3>3, AppendTells
    <3>5. \A k \in Node : ~Publishes(down'[n], k)
      BY <3>1, <3>2, <3>3, <3>4 DEF Joins
    <3> QED
      BY <2>1, <3>1, <3>5 DEF Joins, Publishes, Tells
  <2> QED
    BY <2>2, <2>3
<1>10. ASSUME NEW j \in 1..Len(closed), HubDrain(j) PROVE Joins(n)'
  <2>1. UNCHANGED <<clients, tuples, up, fresh>>
    BY <1>10 DEF HubDrain
  <2>2. \/ down' = down
        \/ \E k \in Node, v \in Endpoint : Accept(k, v, clients)
    BY <1>10, HubDrainIs
  <2>3. down'[n] = down[n]
    BY <1>0, <2>1, <2>2 DEF Accept
  <2> QED
    BY <1>S, <2>1, <2>3
<1>9. ASSUME HubCrash \/ HubStart PROVE Joins(n)'
  <2>1. HubStart
    BY <1>9 DEF HubCrash
  <2>2. UNCHANGED <<clients, tuples, fresh, up, down>>
    BY <2>1 DEF HubStart, nodeVars
  <2> QED
    BY <1>S, <2>2
<1> QED
  BY <1>1, <1>2, <1>3, <1>4, <1>5, <1>6, <1>7, <1>8, <1>9, <1>10 DEF Next

\* Follows, of a client with the frames d on their way to it and u from it.
Goes(d, u, k, old, v) == Becomes(d, k, old, v) \/ (v = 0 /\ Publishes(u, k))

LEMMA FollowingStep ==
    TypeOK /\ Linked /\ TypeOK' /\ Linked' /\ Joining /\ Following /\ Next => Following'
<1> SUFFICES ASSUME TypeOK, Linked, TypeOK', Linked', Joining, Following, Next,
                    spent'["unpublish"] = 0,
                    NEW n \in Node, NEW k \in Node, n \in clients', n \in fresh'
             PROVE  Follows(n, k)'
  BY DEF Following, Follows, TypeOK
<1>0. /\ tuples \in [Node -> [Node -> Endpoint \cup {0}]] /\ table \in [Node -> Endpoint \cup {0}]
      /\ up \in [Node -> Seq(Body)] /\ down \in [Node -> Seq(Body)]
      /\ fresh \subseteq live \ {host} /\ clients \subseteq live \ {host} /\ live \subseteq Node
      /\ (~hub => clients = {}) /\ 0 \notin Endpoint
  BY BasicIs, EndpointIs
<1>U. /\ spent["unpublish"] = 0 /\ spent \in [Kinds -> Nat] /\ "unpublish" \in Kinds
      /\ spent["unpublish"] <= spent'["unpublish"]
  <2>1. "unpublish" \in Kinds
    BY DEF Kinds
  <2>2. spent["unpublish"] <= spent'["unpublish"] /\ spent \in [Kinds -> Nat]
    BY <2>1, SpentGrows DEF TypeOK
  <2> QED
    BY <2>1, <2>2
<1>F. n \in fresh /\ n \in clients => Goes(down[n], up[n], k, tuples[n][k], table[k])
  BY <1>U DEF Following, Goes
<1>J. n \in fresh /\ n \notin clients => Joins(n)
  BY DEF Joining, Joins
<1>G. ASSUME NEW d, NEW u, NEW o, NEW v, d = down'[n], u = up'[n], o = tuples'[n][k], v = table'[k],
             Goes(d, u, k, o, v)
      PROVE  Follows(n, k)'
  BY <1>G DEF Goes, Follows, Becomes, Publishes, Tells
<1>S. ASSUME n \in fresh, n \in clients, up'[n] = up[n], down'[n] = down[n],
             tuples'[n] = tuples[n], table' = table
      PROVE  Follows(n, k)'
  BY <1>F, <1>G, <1>S
<1>1. ASSUME NEW x \in Node, Boot(x) PROVE Follows(n, k)'
  <2>1. down' = down /\ x \notin live
    BY <1>1 DEF Boot
  <2>2. x # host
    BY <1>1 DEF Boot
  <2>3. clients' = clients /\ table' = table
    BY <1>1, <2>2 DEF Boot, hubVars
  <2>4. n # x
    BY <1>0, <2>1, <2>3
  <2>5. n \in fresh /\ up'[n] = up[n] /\ tuples'[n] = tuples[n]
    BY <1>0, <1>1, <2>2, <2>4 DEF Boot
  <2> QED
    BY <1>S, <2>1, <2>3, <2>5
<1>2. ASSUME NEW x \in Node, Stop(x) \/ Crash(x) PROVE Follows(n, k)'
  <2>1. End(x)
    BY <1>2 DEF Stop, Crash
  <2>2. x # host
    BY <2>1 DEF End
  <2>3. x # n /\ n \in fresh /\ n \in clients /\ table' = table
    BY <2>1, <2>2 DEF End
  <2>4. up'[n] = up[n] /\ down'[n] = down[n] /\ tuples'[n] = tuples[n]
    BY <1>0, <2>1, <2>2, <2>3 DEF End
  <2> QED
    BY <1>S, <2>3, <2>4
<1>3. ASSUME NEW x \in Node, NEW p \in Node,
             RecvHello(x, p) \/ RecvGoodbye(x, p) \/ Expire(x, p)
      PROVE  Follows(n, k)'
  <2>1. UNCHANGED <<clients, table, tuples, up, fresh, down>>
    BY <1>3 DEF RecvHello, RecvGoodbye, Expire, hubVars
  <2> QED
    BY <1>S, <2>1
<1>4. ASSUME NEW x \in Node, NEW p \in Node, Unpublish(x, p) PROVE FALSE
  <2>1. Charge("unpublish")
    BY <1>4 DEF Unpublish
  <2>2. spent'["unpublish"] = spent["unpublish"] + 1
    BY <1>U, <2>1, ChargeIs
  <2> QED
    BY <1>U, <2>2
<1>5. ASSUME NEW x \in Node, HubTake(x) PROVE Follows(n, k)'
  <2>1. /\ up[x] # <<>> /\ up' = [up EXCEPT ![x] = Tail(@)] /\ Head(up[x]) = up[x][1]
        /\ clients' = clients \cup {x}
        /\ UNCHANGED <<live, tuples, fresh>>
    BY <1>5, HubTakeIs
  <2>2. \/ /\ up[x][1].type = "HELLO" /\ table' = table
           /\ down' = [down EXCEPT ![x] = @ \o Listing(table)]
        \/ /\ up[x][1].type = "PING" /\ table' = table
           /\ down' = [down EXCEPT ![x] = @ \o <<Frame("PONG")>>]
        \/ \E j \in Node, v \in Endpoint :
              up[x][1] = Publish(j, v) /\ Accept(j, v, clients')
    BY <1>5, HubTakeIs
  <2>3. PICK d \in Seq(Body), u \in Seq(Body), o \in Endpoint \cup {0}, t \in Endpoint \cup {0} :
           d = down[n] /\ u = up[n] /\ o = tuples[n][k] /\ t = table[k]
    BY <1>0
  <2>4. n \in fresh /\ n \in live /\ tuples'[n][k] = o
    BY <1>0, <2>1, <2>3
  <2>5. n \notin clients => x = n /\ u # <<>> /\ u[1].type = "HELLO"
    BY <1>J, <2>1, <2>3, <2>4 DEF Joins
  <2>6. /\ x = n => up'[n] = Tail(u) /\ u # <<>> /\ Head(u) = u[1] /\ u[1] = up[x][1]
        /\ x # n => up'[n] = u /\ n \in clients
    BY <1>0, <2>1, <2>3
  <2>7. ASSUME ~Tells(up[x][1], k), Publishes(u, k) PROVE Publishes(up'[n], k)
    <3>1. u # <<>> => (Publishes(u, k) <=> Publishes(Tail(u), k) \/ Tells(Head(u), k))
      BY TailTells
    <3> QED
      BY <2>6, <2>7, <3>1
  <2>8. n \in clients => Goes(d, u, k, o, t)
    BY <1>F, <2>3, <2>4
  <2>9. CASE /\ up[x][1].type = "HELLO" /\ table' = table
             /\ down' = [down EXCEPT ![x] = @ \o Listing(table)]
    <3>1. ~Tells(up[x][1], k)
      BY <2>9 DEF Tells
    <3>2. CASE x # n
      <4>1. down'[n] = d
        BY <1>0, <2>3, <2>9, <3>2
      <4>2. Goes(d, u, k, o, t) /\ up'[n] = u
        BY <2>6, <2>8, <3>2
      <4> QED
        BY <1>G, <2>3, <2>4, <2>9, <4>1, <4>2
    <3>3. CASE x = n
      <4>1. PICK l \in Seq(Body) : l = Listing(table)
        BY <1>0, ListingIs
      <4>2. down'[n] = d \o l
        BY <1>0, <2>3, <2>4, <2>9, <3>3, <4>1
      <4>3. /\ Publishes(l, k) <=> t # 0
            /\ t # 0 => Becomes(d \o l, k, o, t)
        BY <1>0, <2>3, <4>1, ListingIs
      <4>4. Becomes(d, k, o, t) /\ t = 0 => Becomes(d \o l, k, o, t)
        BY <4>3, PairTells
      <4>5. CASE t # 0
        BY <1>G, <2>3, <2>4, <2>9, <4>2, <4>3, <4>5 DEF Goes
      <4>6. CASE t = 0
        <5>1. Becomes(d, k, o, t) \/ Publishes(u, k)
          <6>1. CASE n \in clients
            BY <2>8, <6>1 DEF Goes
          <6>2. CASE n \notin clients
            <7>1. Joins(n)
              BY <1>J, <2>4, <6>2
            <7>2. ~Publishes(d, k) /\ (o # 0 => Publishes(u, k))
              BY <2>3, <7>1 DEF Joins
            <7> QED
              BY <4>6, <7>2 DEF Becomes
          <6> QED
            BY <6>1, <6>2
        <5>2. PICK w : w = up'[n]
          OBVIOUS
        <5>3. Goes(d \o l, w, k, o, t)
          BY <2>7, <3>1, <4>4, <4>6, <5>1, <5>2 DEF Goes
        <5> QED
          BY <1>G, <2>3, <2>4, <2>9, <4>2, <5>2, <5>3
      <4> QED
        BY <4>5, <4>6
    <3> QED
      BY <3>2, <3>3
  <2>10. CASE /\ up[x][1].type = "PING" /\ table' = table
              /\ down' = [down EXCEPT ![x] = @ \o <<Frame("PONG")>>]
    <3>1. ~Tells(up[x][1], k)
      BY <2>10 DEF Tells
    <3>2. n \in clients
      BY <2>5, <2>6, <2>10
    <3>3. down'[n] = d \/ down'[n] = d \o <<Frame("PONG")>>
      BY <1>0, <2>3, <2>10
    <3>4. <<Frame("PONG")>> \in Seq(Body) /\ ~Publishes(<<Frame("PONG")>>, k)
      BY FrameIs DEF Publishes
    <3>5. Becomes(d, k, o, t) => Becomes(d \o <<Frame("PONG")>>, k, o, t)
      BY <3>4, PairTells
    <3>6. PICK w, e : w = up'[n] /\ e = down'[n]
      OBVIOUS
    <3>7. Goes(e, w, k, o, t)
      BY <2>7, <2>8, <3>1, <3>2, <3>3, <3>5, <3>6 DEF Goes
    <3> QED
      BY <1>G, <2>3, <2>4, <2>10, <3>6, <3>7
  <2>11. ASSUME NEW j \in Node, NEW v \in Endpoint, up[x][1] = Publish(j, v),
                Accept(j, v, clients')
         PROVE  Follows(n, k)'
    <3>1. n \in clients
      BY <2>5, <2>6, <2>11 DEF Publish
    <3>2. Goes(d, u, k, o, t) /\ v # 0
      BY <1>0, <2>8, <3>1
    <3>3. Tells(up[x][1], k) <=> k = j
      BY <2>11, FrameIs
    <3>4. CASE table[j] = v
      <4>1. table' = table /\ down' = down
        BY <2>11, <3>4 DEF Accept
      <4>2. PICK w : w = up'[n]
        OBVIOUS
      <4>3. Goes(d, w, k, o, t)
        BY <2>3, <2>7, <3>2, <3>3, <3>4, <4>2 DEF Goes
      <4> QED
        BY <1>G, <2>3, <2>4, <4>1, <4>2, <4>3
    <3>5. CASE table[j] # v
      <4>1. /\ table' = [table EXCEPT ![j] = v]
            /\ down'[n] = Append(d, Publish(j, v))
        BY <2>3, <2>11, <3>5 DEF Accept
      <4>2. Publish(j, v) \in Body /\ Publish(j, v).value = v /\ (Tells(Publish(j, v), k) <=> k = j)
        BY FrameIs
      <4>3. /\ Becomes(d, k, o, t) /\ k # j => Becomes(Append(d, Publish(j, v)), k, o, t)
            /\ k = j => Becomes(Append(d, Publish(j, v)), k, o, v)
        BY <4>2, AppendTells
      <4>4. PICK w, e, s : w = up'[n] /\ e = down'[n] /\ s = table'[k]
        OBVIOUS
      <4>5. s = IF k = j THEN v ELSE t
        BY <1>0, <2>3, <4>1, <4>4
      <4>6. Goes(e, w, k, o, s)
        BY <2>7, <3>2, <3>3, <4>1, <4>3, <4>4, <4>5, <2>11 DEF Goes
      <4> QED
        BY <1>G, <2>3, <2>4, <4>4, <4>6
    <3> QED
      BY <3>4, <3>5
  <2> QED
    BY <2>2, <2>9, <2>10, <2>11
<1>6. ASSUME NEW x \in Node, ClientTake(x) PROVE Follows(n, k)'
  <2>0. clients' = clients /\ fresh' = fresh /\ table' = table
    BY <1>6, ClientTakeIs
  <2>1. CASE x # n
    <3>1. up'[n] = up[n] /\ down'[n] = down[n] /\ tuples'[n] = tuples[n]
      BY <1>6, <2>1, ClientOthers
    <3> QED
      BY <1>S, <2>0, <3>1
  <2>2. CASE x = n
    <3>1. PICK d \in Seq(Body), u \in Seq(Body), o \in Endpoint \cup {0}, t \in Endpoint \cup {0} :
             d = down[n] /\ u = up[n] /\ o = tuples[n][k] /\ t = table[k]
      BY <1>0
    <3>2. Goes(d, u, k, o, t)
      BY <1>F, <2>0, <3>1
    <3>3. d # <<>> /\ down'[n] = Tail(d) /\ Head(d) = d[1]
      <4>1. down[x] # <<>> /\ down' = [down EXCEPT ![x] = Tail(@)] /\ Head(down[x]) = down[x][1]
        BY <1>6, ClientTakeIs
      <4> QED
        BY <1>0, <2>2, <3>1, <4>1
    <3>4. /\ Becomes(d, k, o, t) /\ ~Tells(d[1], k) => Becomes(Tail(d), k, o, t)
          /\ Becomes(d, k, o, t) /\ Tells(d[1], k) => Becomes(Tail(d), k, d[1].value, t)
      BY <3>3, TailTells
    <3>5. PICK w, s : w = up'[n] /\ s = tuples'[n][k]
      OBVIOUS
    <3>6. \/ \E j \in Node, v \in Endpoint :
                /\ down[x][1] = Publish(j, v) /\ tuples' = [tuples EXCEPT ![x][j] = v]
                /\ up' = up
                /\ UNCHANGED <<peers, net>> \/ Require(x, j, v)
          \/ /\ down[x][1].type = "INVALID"
             /\ up' = [up EXCEPT ![x] = @ \o Announcement(tuples[x])]
             /\ UNCHANGED <<tuples, peers, net>>
          \/ down[x][1].type = "PONG" /\ UNCHANGED <<tuples, peers, net, up>>
      BY <1>6, ClientTakeIs
    <3>7. ASSUME NEW j \in Node, NEW v \in Endpoint, down[x][1] = Publish(j, v),
                 tuples' = [tuples EXCEPT ![x][j] = v], up' = up
          PROVE  Goes(Tail(d), w, k, s, t)
      <4>1. d[1] = Publish(j, v) /\ w = u /\ s = IF k = j THEN v ELSE o
        BY <1>0, <2>2, <3>1, <3>5, <3>7
      <4>2. (Tells(d[1], k) <=> k = j) /\ d[1].value = v
        BY <4>1, FrameIs
      <4> QED
        BY <3>2, <3>4, <4>1, <4>2 DEF Goes
    <3>8. ASSUME down[x][1].type = "INVALID", up' = [up EXCEPT ![x] = @ \o Announcement(tuples[x])],
                 tuples' = tuples
          PROVE  Goes(Tail(d), w, k, s, t)
      <4>1. ~Tells(d[1], k) /\ s = o
        BY <2>2, <3>1, <3>5, <3>8 DEF Tells
      <4>2. PICK l \in Seq(Body) : l = Announcement(tuples[n])
        BY <1>0, AnnouncementIs
      <4>3. w = u \o l
        BY <1>0, <2>2, <3>1, <3>5, <3>8, <4>2
      <4>4. Publishes(u, k) => Publishes(u \o l, k)
        BY PairTells
      <4> QED
        BY <3>2, <3>4, <4>1, <4>3, <4>4 DEF Goes
    <3>9. ASSUME down[x][1].type = "PONG", tuples' = tuples, up' = up
          PROVE  Goes(Tail(d), w, k, s, t)
      <4>1. ~Tells(d[1], k) /\ s = o /\ w = u
        BY <2>2, <3>1, <3>5, <3>9 DEF Tells
      <4> QED
        BY <3>2, <3>4, <4>1 DEF Goes
    <3>10. Goes(Tail(d), w, k, s, t)
      BY <3>6, <3>7, <3>8, <3>9
    <3> QED
      BY <1>G, <2>0, <3>1, <3>3, <3>5, <3>10
  <2> QED
    BY <2>1, <2>2
<1>7. ASSUME NEW x \in Node, Ping(x) \/ HubReset(x) PROVE Follows(n, k)'
  <2>1. UNCHANGED <<clients, table, tuples, fresh>>
    BY <1>7 DEF Ping, HubReset, hubVars, nodeVars
  <2>2. PICK d \in Seq(Body), u \in Seq(Body), o \in Endpoint \cup {0}, t \in Endpoint \cup {0},
                m \in Body, i \in Body :
           /\ d = down[n] /\ u = up[n] /\ o = tuples[n][k] /\ t = table[k]
           /\ m = Frame("PING") /\ i = Frame("INVALID")
    BY <1>0, FrameIs
  <2>3. Goes(d, u, k, o, t)
    BY <1>F, <2>1, <2>2
  <2>4. /\ up'[n] = u \/ up'[n] = Append(u, m)
        /\ down'[n] = d \/ down'[n] = Append(d, i)
    BY <1>0, <1>7, <2>2 DEF Ping, HubReset
  <2>5. ~Tells(i, k)
    BY <2>2, FrameIs
  <2>6. /\ Publishes(u, k) => Publishes(Append(u, m), k)
        /\ Becomes(d, k, o, t) => Becomes(Append(d, i), k, o, t)
    BY <2>5, AppendTells
  <2>7. PICK w, e : w = up'[n] /\ e = down'[n]
    OBVIOUS
  <2>8. Goes(e, w, k, o, t)
    BY <2>3, <2>4, <2>6, <2>7 DEF Goes
  <2> QED
    BY <1>G, <2>1, <2>2, <2>7, <2>8
<1>8. ASSUME NEW x \in Node, Redial(x) PROVE Follows(n, k)'
  <2>1. /\ UNCHANGED <<table, tuples, down>> /\ fresh' = fresh \cup {x}
        /\ clients' = clients \ {x} /\ up' = [up EXCEPT ![x] = Announcement(tuples[x])]
    BY <1>8 DEF Redial, nodeVars
  <2> QED
    BY <1>0, <1>S, <2>1
<1>10. ASSUME NEW i \in 1..Len(closed), HubDrain(i) PROVE Follows(n, k)'
  <2>1. /\ UNCHANGED <<clients, tuples, up, fresh>>
        /\ \/ UNCHANGED <<table, down>>
           \/ \E j \in Node, v \in Endpoint : Accept(j, v, clients)
    BY <1>10, HubDrainIs
  <2>2. CASE UNCHANGED <<table, down>>
    BY <1>S, <2>1, <2>2
  <2>3. ASSUME NEW j \in Node, NEW v \in Endpoint, Accept(j, v, clients), table[j] # v
        PROVE  Follows(n, k)'
    <3>1. PICK d \in Seq(Body), u \in Seq(Body), o \in Endpoint \cup {0}, t \in Endpoint \cup {0} :
             d = down[n] /\ u = up[n] /\ o = tuples[n][k] /\ t = table[k]
      BY <1>0
    <3>2. Goes(d, u, k, o, t) /\ v # 0
      BY <1>0, <1>F, <2>1, <3>1
    <3>3. /\ table' = [table EXCEPT ![j] = v]
          /\ down'[n] = Append(d, Publish(j, v))
      BY <2>1, <2>3, <3>1 DEF Accept
    <3>4. Publish(j, v) \in Body /\ Publish(j, v).value = v /\ (Tells(Publish(j, v), k) <=> k = j)
      BY FrameIs
    <3>5. /\ Becomes(d, k, o, t) /\ k # j => Becomes(Append(d, Publish(j, v)), k, o, t)
          /\ k = j => Becomes(Append(d, Publish(j, v)), k, o, v)
      BY <3>4, AppendTells
    <3>6. PICK e, s : e = down'[n] /\ s = table'[k]
      OBVIOUS
    <3>7. s = IF k = j THEN v ELSE t
      BY <1>0, <3>1, <3>3, <3>6
    <3>8. Goes(e, u, k, o, s)
      BY <3>2, <3>3, <3>5, <3>6, <3>7 DEF Goes
    <3> QED
      BY <1>G, <2>1, <3>1, <3>6, <3>8
  <2>4. ASSUME NEW j \in Node, NEW v \in Endpoint, Accept(j, v, clients), table[j] = v
        PROVE  UNCHANGED <<table, down>>
    BY <2>4 DEF Accept
  <2> QED
    BY <2>1, <2>2, <2>3, <2>4
<1>9. ASSUME HubCrash \/ HubStart PROVE Follows(n, k)'
  <2>1. HubStart
    BY <1>9 DEF HubCrash
  <2>2. UNCHANGED <<clients, table, tuples, fresh, up, down>>
    BY <2>1 DEF HubStart, nodeVars
  <2> QED
    BY <1>S, <2>2
<1> QED
  BY <1>1, <1>2, <1>3, <1>4, <1>5, <1>6, <1>7, <1>8, <1>9, <1>10 DEF Next

-----------------------------------------------------------------------------
(* Links that greet the hub *)

\* A start gives the node its next endpoint, and nothing else changes it.
LEMMA BornGrows ==
    ASSUME TypeOK, Next, NEW n \in Node
    PROVE  /\ host' = host /\ born[n] \in Nat /\ born'[n] \in Nat /\ born[n] <= born'[n]
           /\ n \in live' /\ n \notin live => born'[n] = born[n] + 1 /\ Boot(n)
<1>0. born \in [Node -> Endpoint \cup {0}] /\ born[n] \in Nat
  BY EndpointIs DEF TypeOK
<1>1. ASSUME NEW x \in Node, Boot(x)
      PROVE  /\ host' = host /\ (born'[n] = born[n] \/ born'[n] = born[n] + 1)
             /\ n \in live' /\ n \notin live => born'[n] = born[n] + 1 /\ Boot(n)
  <2>1. host' = host /\ born' = [born EXCEPT ![x] = @ + 1] /\ live' = live \cup {x}
    BY <1>1 DEF Boot
  <2> QED
    BY <1>0, <1>1, <2>1
<1>2. ASSUME NEW x \in Node, Stop(x) \/ Crash(x)
      PROVE  UNCHANGED <<host, born>> /\ live' \subseteq live
  BY <1>2 DEF Stop, Crash, End
<1>3. ASSUME NEW x \in Node, HubTake(x) \/ HubReset(x) \/ ClientTake(x) \/ Ping(x) \/ Redial(x)
      PROVE  UNCHANGED <<host, born, live>>
  BY <1>3 DEF HubTake, HubReset, ClientTake, Ping, Redial, nodeVars
<1>4. ASSUME NEW x \in Node, NEW p \in Node,
             RecvHello(x, p) \/ RecvGoodbye(x, p) \/ Expire(x, p) \/ Unpublish(x, p)
      PROVE  UNCHANGED <<host, born, live>>
  BY <1>4 DEF RecvHello, RecvGoodbye, Expire, Unpublish
<1>5. HubCrash \/ HubStart \/ (\E j \in 1..Len(closed) : HubDrain(j)) => UNCHANGED <<host, born, live>>
  BY DEF HubCrash, HubStart, HubDrain, nodeVars
<1>6. /\ host' = host /\ (born'[n] = born[n] \/ born'[n] = born[n] + 1)
      /\ n \in live' /\ n \notin live => born'[n] = born[n] + 1 /\ Boot(n)
  BY <1>1, <1>2, <1>3, <1>4, <1>5 DEF Next
<1> QED
  BY <1>0, <1>6

\* A hub that lasts after a step did so before.
LEMMA SeamlessBack ==
    ASSUME TypeOK, Next, Seamless'
    PROVE  Seamless
<1>1. "quick" \in Kinds
  BY DEF Kinds
<1>2. spent' \in [Kinds -> Nat] /\ spent \in [Kinds -> Nat] /\ spent["quick"] <= spent'["quick"]
  BY <1>1, SpentGrows DEF TypeOK
<1>3. spent["quick"] = 0
  BY <1>1, <1>2 DEF Seamless
<1>4. CASE host = None
  BY <1>3, <1>4 DEF Seamless
<1>5. CASE host # None
  <2>1. host \in Node
    BY <1>5 DEF TypeOK
  <2>2. host' = host /\ born[host] \in Nat /\ born'[host] \in Nat /\ born[host] <= born'[host]
    BY <2>1, BornGrows
  <2>3. born'[host] <= 1
    BY <1>5, <2>2 DEF Seamless
  <2> QED
    BY <1>3, <2>2, <2>3 DEF Seamless
<1> QED
  BY <1>4, <1>5

LEMMA LastingBack ==
    ASSUME TypeOK, Linked, Linked', Next, Seamless', host # None, Lasting'
    PROVE  Lasting
<1>1. host \in Node
  BY DEF TypeOK
<1>2. /\ host' = host /\ born[host] \in Nat /\ born'[host] \in Nat /\ born[host] <= born'[host]
      /\ host \in live' /\ host \notin live => born'[host] = born[host] + 1
  BY <1>1, BornGrows
<1>3. (hub <=> host \in live) /\ (hub' <=> host \in live')
  BY <1>2 DEF Linked
<1>4. born'[host] <= 1
  BY <1>2 DEF Seamless
<1>5. CASE born'[host] = 0
  BY <1>2, <1>5 DEF Lasting
<1>6. CASE hub'
  BY <1>2, <1>3, <1>4, <1>6 DEF Lasting
<1> QED
  BY <1>2, <1>5, <1>6 DEF Lasting

LEMMA GreetedStep == TypeOK /\ Linked /\ Linked' /\ Greeted /\ Next => Greeted'
<1> SUFFICES ASSUME TypeOK, Linked, Linked', Greeted, Next, Seamless', Lasting',
                    NEW n \in Node, n \in live', n # host'
             PROVE  n \in fresh'
  BY DEF Greeted, Client
<1>0. host' = host /\ live \subseteq Node
  BY BornGrows DEF TypeOK
<1>1. Lasting /\ n \in live => n \in fresh
  BY <1>0, SeamlessBack DEF Greeted, Client
<1>2. host # None => Lasting
  BY LastingBack
<1>3. hub => Lasting
  BY DEF Lasting
<1>4. ASSUME UNCHANGED <<hub, live>>, fresh \subseteq fresh' PROVE n \in fresh'
  BY <1>0, <1>1, <1>2, <1>3, <1>4 DEF Lasting
<1>5. ASSUME NEW x \in Node, Boot(x) PROVE n \in fresh'
  <2>1. live' = live \cup {x} /\ fresh' = IF x = host THEN fresh ELSE fresh \cup {x}
    BY <1>5 DEF Boot
  <2>2. x # host => hub' = hub
    BY <1>5 DEF Boot, hubVars
  <2>3. host = None => x # host
    BY NoneAssumption
  <2>4. Lasting
    BY <1>2, <1>3, <1>0, <2>2, <2>3 DEF Lasting
  <2> QED
    BY <1>0, <1>1, <2>1, <2>4
<1>6. ASSUME NEW x \in Node, Stop(x) \/ Crash(x) PROVE n \in fresh'
  <2>1. End(x) /\ x \in live
    BY <1>6 DEF Stop, Crash
  <2>2. live' = live \ {x} /\ born' = born
    BY <2>1 DEF End
  <2>3. x # host
    <3>1. SUFFICES ASSUME x = host PROVE FALSE
      OBVIOUS
    <3>2. hub' = FALSE
      BY <2>1, <3>1 DEF End
    <3>3. born[host] # 0
      BY <2>1, <3>1 DEF Linked
    <3> QED
      BY <1>0, <2>2, <3>2, <3>3 DEF Lasting
  <2>4. hub' = hub /\ fresh' = fresh \ {x}
    BY <2>1, <2>3 DEF End
  <2> QED
    BY <1>0, <1>1, <1>2, <1>3, <2>2, <2>4 DEF Lasting
<1>7. ASSUME NEW x \in Node, HubTake(x) \/ HubReset(x) \/ ClientTake(x) \/ Ping(x) \/ Redial(x)
      PROVE  n \in fresh'
  <2>1. UNCHANGED <<hub, live>> /\ fresh \subseteq fresh'
    BY <1>7 DEF HubTake, HubReset, ClientTake, Ping, Redial, nodeVars, hubVars
  <2> QED
    BY <1>4, <2>1
<1>8. ASSUME NEW x \in Node, NEW p \in Node,
             RecvHello(x, p) \/ RecvGoodbye(x, p) \/ Expire(x, p) \/ Unpublish(x, p)
      PROVE  n \in fresh'
  <2>1. UNCHANGED <<hub, live, fresh>>
    BY <1>8 DEF RecvHello, RecvGoodbye, Expire, Unpublish, hubVars
  <2> QED
    BY <1>4, <2>1
<1>11. ASSUME NEW j \in 1..Len(closed), HubDrain(j) PROVE n \in fresh'
  BY <1>4, <1>11 DEF HubDrain
<1>9. CASE HubCrash
  <2>1. host = None /\ hub' = FALSE
    BY <1>9 DEF HubCrash
  <2> QED
    BY <1>0, <2>1 DEF Lasting
<1>10. CASE HubStart
  <2>1. fresh' = fresh /\ live' = live
    BY <1>10 DEF HubStart, nodeVars
  <2>2. ~Charge("quick")
    <3>1. SUFFICES ASSUME Charge("quick") PROVE FALSE
      OBVIOUS
    <3>2. "quick" \in Kinds /\ spent \in [Kinds -> Nat]
      BY DEF Kinds, TypeOK
    <3>3. spent'["quick"] = spent["quick"] + 1
      BY <3>1, <3>2, ChargeIs
    <3>4. spent'["quick"] = 0
      BY DEF Seamless
    <3> QED
      BY <3>2, <3>3, <3>4
  <2>3. \A p \in Node : Client(p) => p \in fresh
    BY <1>10, <2>2 DEF HubStart
  <2> QED
    BY <1>0, <2>1, <2>3 DEF Client
<1> QED
  BY <1>5, <1>6, <1>7, <1>8, <1>9, <1>10, <1>11 DEF Next

-----------------------------------------------------------------------------
(* The hub's table comes to the truth *)

\* The tuples in q are of n, and say e.
Signed(q, n, e) ==
    \A i \in 1..Len(q) : q[i].type = "PUBLISH" => q[i].key = n /\ q[i].value = e
Valid(q) == \A i \in 1..Len(q) : q[i].type # "INVALID"

LEMMA TailValid ==
    ASSUME NEW q \in Seq(Body), q # <<>>, NEW n, NEW e
    PROVE  (Signed(q, n, e) => Signed(Tail(q), n, e)) /\ (Valid(q) => Valid(Tail(q)))
<1>1. PICK a : a = Tail(q)
  OBVIOUS
<1>2. /\ Len(q) \in Nat \ {0} /\ Len(a) = Len(q) - 1
      /\ \A i \in 1..Len(q) - 1 : a[i] = q[i + 1]
  BY <1>1, TailIs
<1>3. \A i \in 1..Len(a) : i + 1 \in 1..Len(q) /\ a[i] = q[i + 1]
  BY <1>2
<1>4. (Signed(q, n, e) => Signed(a, n, e)) /\ (Valid(q) => Valid(a))
  BY <1>3 DEF Signed, Valid
<1> QED
  BY <1>1, <1>4

LEMMA MoreValid ==
    ASSUME NEW q \in Seq(Body), NEW m \in Body, NEW n, NEW e
    PROVE  /\ Signed(q, n, e) /\ m.type # "PUBLISH" => Signed(Append(q, m), n, e)
           /\ Valid(q) /\ m.type # "INVALID" => Valid(Append(q, m))
<1>1. PICK a : a = Append(q, m)
  OBVIOUS
<1>2. /\ Len(q) \in Nat /\ Len(a) = Len(q) + 1 /\ a[Len(q) + 1] = m
      /\ \A i \in 1..Len(q) : a[i] = q[i]
  BY <1>1, AppendIs
<1>3. \A i \in 1..Len(a) : (i \in 1..Len(q) /\ a[i] = q[i]) \/ a[i] = m
  <2>1. ASSUME NEW i \in 1..Len(a) PROVE (i \in 1..Len(q) /\ a[i] = q[i]) \/ a[i] = m
    <3>1. i \in 1..Len(q) \/ i = Len(q) + 1
      BY <1>2, <2>1
    <3> QED
      BY <1>2, <3>1
  <2> QED
    BY <2>1
<1>4. /\ Signed(q, n, e) /\ m.type # "PUBLISH" => Signed(a, n, e)
      /\ Valid(q) /\ m.type # "INVALID" => Valid(a)
  BY <1>3 DEF Signed, Valid
<1> QED
  BY <1>1, <1>4

LEMMA PairValid ==
    ASSUME NEW q \in Seq(Body), NEW l \in Seq(Body), Valid(q), Valid(l)
    PROVE  Valid(q \o l)
<1>1. \A i \in 1..Len(q \o l) : \/ i \in 1..Len(q) /\ (q \o l)[i] = q[i]
                                \/ \E j \in 1..Len(l) : (q \o l)[i] = l[j]
  BY PairParts
<1> QED
  BY <1>1 DEF Valid

LEMMA ListingValid ==
    ASSUME NEW t \in [Node -> Endpoint \cup {0}]
    PROVE  Valid(Listing(t))
<1>1. \A i \in 1..Len(Listing(t)) : \E k \in Node : Listing(t)[i] = Publish(k, t[k])
  BY ListingIs
<1>2. \A k \in Node : Publish(k, t[k]).type # "INVALID"
  BY DEF Publish
<1> QED
  BY <1>1, <1>2 DEF Valid

LEMMA OwnSigned ==
    ASSUME NEW n \in Node, NEW e \in Endpoint, NEW a, a = Announcement([Empty EXCEPT ![n] = e])
    PROVE  Publishes(a, n) /\ \A i \in 1..Len(a) : a[i].type = "PUBLISH" => a[i] = Publish(n, e)
<1>1. PICK t \in [Node -> Endpoint \cup {0}] :
         t = [Empty EXCEPT ![n] = e] /\ \A k \in Node : t[k] = IF k = n THEN e ELSE 0
  BY OwnIs
<1>2. /\ Publishes(a, n) <=> t[n] # 0
      /\ \A i \in 1..Len(a) : a[i].type = "PUBLISH" => \E k \in Node : t[k] # 0 /\ a[i] = Publish(k, t[k])
  BY <1>1, AnnouncementIs
<1>3. \A k \in Node : t[k] # 0 => k = n /\ t[k] = e
  BY <1>1
<1> QED
  BY <1>1, <1>2, <1>3, EndpointIs

\* A closed link tells of n no more than it did before a step, but for what n
\* itself had on its link.
LEMMA HauntedBack ==
    ASSUME TypeOK, Next, NEW n \in Node, Haunted(n)'
    PROVE  \/ Haunted(n)
           \/ \E x \in Node : Publishes(up[x], n) /\ (Stop(x) \/ Crash(x) \/ Redial(x))
<1>0. closed \in Seq(Seq(Body)) /\ up \in [Node -> Seq(Body)] /\ Len(closed) \in Nat
  BY LenProperties DEF TypeOK
<1>1. PICK c : c = closed'
  OBVIOUS
<1>2. PICK h \in 1..Len(c) : Publishes(c[h], n)
  BY <1>1 DEF Haunted, Publishes, Tells
<1>3. ASSUME c = closed PROVE Haunted(n)
  BY <1>2, <1>3 DEF Haunted
<1>4. ASSUME NEW x \in Node, Close(x) PROVE Haunted(n) \/ Publishes(up[x], n)
  <2>1. ASSUME NEW i \in 1..Len(up[x]), c = Append(closed, SubSeq(up[x], 1, i))
        PROVE  Haunted(n) \/ Publishes(up[x], n)
    <3>1. PICK u \in Seq(Body), q \in Seq(Body) : u = up[x] /\ q = SubSeq(u, 1, i)
      BY <1>0, <2>1, PrefixIs
    <3>2. Len(q) = i /\ \A j \in 1..i : j \in 1..Len(u) /\ q[j] = u[j]
      BY <2>1, <3>1, PrefixIs
    <3>3. /\ Len(c) = Len(closed) + 1 /\ c[Len(closed) + 1] = q
          /\ \A j \in 1..Len(closed) : c[j] = closed[j]
      BY <1>0, <2>1, <3>1, AppendIs
    <3>4. h \in 1..Len(closed) \/ h = Len(closed) + 1
      <4>1. PICK m \in Nat : m = Len(closed)
        BY <1>0
      <4>2. h \in 1 .. m + 1
        BY <1>2, <3>3, <4>1
      <4>3. h \in 1..m \/ h = m + 1
        BY <4>1, <4>2
      <4> QED
        BY <4>1, <4>3
    <3>5. Publishes(q, n) => Publishes(u, n)
      BY <3>2 DEF Publishes
    <3> QED
      BY <1>2, <3>1, <3>3, <3>4, <3>5 DEF Haunted
  <2> QED
    BY <1>1, <1>3, <1>4, <2>1 DEF Close
<1>5. ASSUME NEW j \in 1..Len(closed), HubDrain(j) PROVE Haunted(n)
  <2>1. PICK q \in Seq(Body) : q = closed[j] /\ q # <<>>
    BY <1>5, HubDrainIs
  <2>2. c = [closed EXCEPT ![j] = Tail(q)] /\ Tail(q) \in Seq(Body)
    BY <1>1, <1>5, <2>1, TailIs DEF HubDrain
  <2>3. Len(c) = Len(closed) /\ c[h] = IF h = j THEN Tail(q) ELSE closed[h]
    BY <1>0, <2>2, ExceptSeq
  <2>4. Publishes(Tail(q), n) => Publishes(q, n)
    BY <2>1, TailTells
  <2> QED
    BY <1>2, <2>1, <2>3, <2>4 DEF Haunted
<1>6. ASSUME NEW x \in Node, Stop(x) \/ Crash(x)
      PROVE  Haunted(n) \/ Publishes(up[x], n)
  <2>1. closed' = <<>> \/ Close(x)
    BY <1>6 DEF Stop, Crash, End
  <2>2. c # <<>>
    BY <1>2, EmptySeq
  <2> QED
    BY <1>1, <1>4, <2>1, <2>2
<1>7. ASSUME NEW x \in Node, Redial(x) PROVE Haunted(n) \/ Publishes(up[x], n)
  BY <1>4, <1>7 DEF Redial
<1>8. ASSUME NEW x \in Node,
             Boot(x) \/ HubTake(x) \/ HubReset(x) \/ ClientTake(x) \/ Ping(x)
      PROVE  Haunted(n)
  BY <1>1, <1>3, <1>8 DEF Boot, HubTake, HubReset, ClientTake, Ping
<1>9. ASSUME NEW x \in Node, NEW p \in Node,
             RecvHello(x, p) \/ RecvGoodbye(x, p) \/ Expire(x, p) \/ Unpublish(x, p)
      PROVE  Haunted(n)
  BY <1>1, <1>3, <1>9 DEF RecvHello, RecvGoodbye, Expire, Unpublish
<1>10. ASSUME HubCrash \/ HubStart PROVE Haunted(n)
  <2>1. c # <<>>
    BY <1>2, EmptySeq
  <2> QED
    BY <1>1, <1>3, <1>10, <2>1 DEF HubCrash, HubStart
<1> QED
  BY <1>5, <1>6, <1>7, <1>8, <1>9, <1>10 DEF Next

\* No environment step that Original excludes has happened, nor happens.
LEMMA OriginalBack ==
    ASSUME TypeOK, Linked, Linked', Next,
           Unhurried', AnnouncedOnce', host' = None \/ spent'["unpublish"] = 0, Lasting'
    PROVE  /\ Unhurried /\ AnnouncedOnce /\ (host = None \/ spent["unpublish"] = 0)
           /\ Lasting /\ Seamless' /\ ~Charge("hasty")
           /\ ~Charge("hub") /\ ~Charge("late") /\ ~Charge("reset")
           /\ host = None \/ ~Charge("unpublish")
           /\ host' = host /\ (host = None => hub)
<1>1. /\ spent' \in [Kinds -> Nat] /\ spent \in [Kinds -> Nat]
      /\ {"hasty", "hub", "late", "reset", "unpublish"} \subseteq Kinds
      /\ \A x \in Kinds : spent[x] <= spent'[x]
  BY SpentGrows DEF TypeOK, Kinds
<1>2. /\ spent'["hub"] \in Nat /\ spent'["late"] \in Nat /\ spent'["reset"] \in Nat
      /\ spent'["hub"] + spent'["late"] + spent'["reset"] = 0 /\ Seamless'
  BY <1>1 DEF AnnouncedOnce
<1>3. spent'["hub"] = 0 /\ spent'["late"] = 0 /\ spent'["reset"] = 0
  BY <1>2
<1>4. ASSUME NEW x \in Kinds, spent'[x] = 0 PROVE spent[x] = 0 /\ ~Charge(x)
  <2>1. spent[x] \in Nat /\ spent[x] <= spent'[x]
    BY <1>1
  <2>2. spent[x] = 0
    BY <1>4, <2>1
  <2>3. Charge(x) => spent'[x] = spent[x] + 1
    BY <1>1, ChargeIs
  <2> QED
    BY <1>4, <2>2, <2>3
<1>5. /\ spent["hub"] = 0 /\ spent["late"] = 0 /\ spent["reset"] = 0
      /\ ~Charge("hub") /\ ~Charge("late") /\ ~Charge("reset")
      /\ spent["hasty"] = 0 /\ ~Charge("hasty")
  BY <1>1, <1>3, <1>4 DEF Unhurried
<1>6. host' = host
  <2>1. ASSUME NEW n \in Node, Boot(n) \/ Stop(n) \/ Crash(n) PROVE host' = host
    BY <2>1 DEF Boot, Stop, Crash, End
  <2>2. ASSUME NEW x \in Node, HubTake(x) \/ HubReset(x) \/ ClientTake(x) \/ Ping(x) \/ Redial(x)
        PROVE  host' = host
    BY <2>2 DEF HubTake, HubReset, ClientTake, Ping, Redial
  <2>3. ASSUME NEW x \in Node, NEW p \in Node,
               RecvHello(x, p) \/ RecvGoodbye(x, p) \/ Expire(x, p) \/ Unpublish(x, p)
        PROVE  host' = host
    BY <2>3 DEF RecvHello, RecvGoodbye, Expire, Unpublish
  <2>4. HubCrash \/ HubStart \/ (\E j \in 1..Len(closed) : HubDrain(j)) => host' = host
    BY DEF HubCrash, HubStart, HubDrain
  <2> QED
    BY <2>1, <2>2, <2>3, <2>4 DEF Next
<1>7. host = None \/ (spent["unpublish"] = 0 /\ ~Charge("unpublish"))
  BY <1>1, <1>4, <1>6
<1>8. AnnouncedOnce
  BY <1>2, <1>5, SeamlessBack DEF AnnouncedOnce
<1>9. host = None => hub
  BY <1>3, HubStays
<1>10. Lasting
  BY <1>2, <1>9, LastingBack DEF Lasting
<1> QED
  BY <1>2, <1>5, <1>6, <1>7, <1>8, <1>9, <1>10 DEF Unhurried

\* Original, of one node.
Truthful(n) ==
    /\ Signed(up[n], n, born[n]) /\ Valid(down[n]) /\ (n \in live => ~Haunted(n))
    /\ n \in live /\ n # host => Publishes(up[n], n) \/ table[n] = born[n]
    /\ n = host /\ hub => table[n] = born[n]

LEMMA OriginalTake ==
    ASSUME TypeOK, Linked, NEW x \in Node, HubTake(x), \A p \in Node : Truthful(p), NEW n \in Node
    PROVE  Truthful(n)'
<1>0. /\ table \in [Node -> Endpoint \cup {0}] /\ up \in [Node -> Seq(Body)]
      /\ down \in [Node -> Seq(Body)] /\ (host # None => up[host] = <<>>)
  BY BasicIs
<1>1. /\ up[x] # <<>> /\ up' = [up EXCEPT ![x] = Tail(@)] /\ Head(up[x]) = up[x][1]
      /\ UNCHANGED <<host, hub, live, born, closed>>
  BY HubTakeIs DEF HubTake
<1>2. \/ /\ up[x][1].type = "HELLO" /\ table' = table
         /\ down' = [down EXCEPT ![x] = @ \o Listing(table)]
      \/ /\ up[x][1].type = "PING" /\ table' = table
         /\ down' = [down EXCEPT ![x] = @ \o <<Frame("PONG")>>]
      \/ \E j \in Node, v \in Endpoint : up[x][1] = Publish(j, v) /\ Accept(j, v, clients')
  BY HubTakeIs
<1>3. x # host
  <2>1. host = None \/ up[host] = <<>>
    BY <1>0
  <2> QED
    BY <1>1, <2>1, NoneAssumption
<1>4. PICK d \in Seq(Body), u \in Seq(Body), q \in Seq(Body) : d = down[n] /\ u = up[n] /\ q = up[x]
  BY <1>0
<1>5. /\ Signed(u, n, born[n]) /\ Signed(q, x, born[x]) /\ Valid(d) /\ (n \in live => ~Haunted(n))
      /\ n \in live /\ n # host => Publishes(u, n) \/ table[n] = born[n]
      /\ n = host /\ hub => table[n] = born[n]
  BY <1>4 DEF Truthful
<1>6. q # <<>> /\ (x = n => up'[n] = Tail(u) /\ u = q) /\ (x # n => up'[n] = u) /\ Head(q) = q[1]
  BY <1>0, <1>1, <1>4
<1>7. Signed(up'[n], n, born[n])
  <2>1. u # <<>> => Signed(Tail(u), n, born[n])
    BY <1>5, TailValid
  <2> QED
    BY <1>5, <1>6, <2>1
<1>8. /\ Valid(<<Frame("PONG")>>) /\ <<Frame("PONG")>> \in Seq(Body)
      /\ Valid(Listing(table)) /\ Listing(table) \in Seq(Body)
  <2>1. Frame("PONG") \in Body /\ Frame("PONG").type = "PONG"
    BY FrameIs
  <2>2. Valid(<<Frame("PONG")>>) /\ <<Frame("PONG")>> \in Seq(Body)
    BY <2>1 DEF Valid
  <2>3. Valid(Listing(table)) /\ Listing(table) \in Seq(Body)
    BY <1>0, ListingIs, ListingValid
  <2> QED
    BY <2>2, <2>3
<1>9. Valid(d \o <<Frame("PONG")>>) /\ Valid(d \o Listing(table))
  BY <1>5, <1>8, PairValid
<1>G. ASSUME Valid(down'[n]),
             n \in live /\ n # host => Publishes(up'[n], n) \/ table'[n] = born[n],
             n = host /\ hub => table'[n] = born[n]
      PROVE  Truthful(n)'
  BY <1>1, <1>5, <1>7, <1>G DEF Truthful, Signed, Valid, Haunted, Publishes, Tells
<1>10. ASSUME q[1].type # "PUBLISH", Publishes(u, n) PROVE Publishes(up'[n], n)
  <2>1. ~Tells(q[1], n)
    BY <1>10 DEF Tells
  <2>2. u # <<>> => (Publishes(u, n) <=> Publishes(Tail(u), n) \/ Tells(Head(u), n))
    BY TailTells
  <2> QED
    BY <1>6, <1>10, <2>1, <2>2
<1>11. ASSUME q[1].type # "PUBLISH", table' = table, Valid(down'[n]) PROVE Truthful(n)'
  BY <1>5, <1>10, <1>11, <1>G
<1>12. CASE /\ up[x][1].type = "HELLO" /\ table' = table
            /\ down' = [down EXCEPT ![x] = @ \o Listing(table)]
  <2>1. down'[n] = d \/ down'[n] = d \o Listing(table)
    BY <1>0, <1>4, <1>12
  <2> QED
    BY <1>4, <1>5, <1>9, <1>11, <1>12, <2>1
<1>13. CASE /\ up[x][1].type = "PING" /\ table' = table
            /\ down' = [down EXCEPT ![x] = @ \o <<Frame("PONG")>>]
  <2>1. down'[n] = d \/ down'[n] = d \o <<Frame("PONG")>>
    BY <1>0, <1>4, <1>13
  <2> QED
    BY <1>4, <1>5, <1>9, <1>11, <1>13, <2>1
<1>14. ASSUME NEW j \in Node, NEW v \in Endpoint, up[x][1] = Publish(j, v), Accept(j, v, clients')
       PROVE  Truthful(n)'
  <2>1. q[1].type = "PUBLISH" /\ q[1].key = j /\ q[1].value = v
    BY <1>4, <1>14 DEF Publish
  <2>2. 1 \in 1..Len(q)
    <3>1. Len(q) \in Nat \ {0}
      BY <1>6, TailIs
    <3> QED
      BY <3>1
  <2>3. j = x /\ v = born[x]
    BY <1>5, <2>1, <2>2 DEF Signed
  <2>4. table' = [table EXCEPT ![x] = v] \/ (table' = table /\ table[x] = v)
    BY <1>14, <2>3 DEF Accept
  <2>5. table'[x] = v /\ (n # x => table'[n] = table[n])
    BY <1>0, <2>4
  <2>6. down'[n] = d \/ down'[n] = Append(d, Publish(j, v))
    BY <1>0, <1>4, <1>14 DEF Accept
  <2>7. Valid(down'[n])
    <3>1. Publish(j, v) \in Body /\ Publish(j, v).type # "INVALID"
      BY FrameIs DEF Publish
    <3>2. Valid(Append(d, Publish(j, v)))
      BY <1>5, <3>1, MoreValid
    <3> QED
      BY <1>5, <2>6, <3>2
  <2>8. n \in live /\ n # host => Publishes(up'[n], n) \/ table'[n] = born[n]
    BY <1>5, <1>6, <2>3, <2>5
  <2>9. n = host /\ hub => table'[n] = born[n]
    BY <1>3, <1>5, <2>5
  <2> QED
    BY <1>G, <2>7, <2>8, <2>9
<1> QED
  BY <1>2, <1>12, <1>13, <1>14

LEMMA OriginalBoot ==
    ASSUME TypeOK, Linked, NEW x \in Node, Boot(x), ~Haunted(x), born[x] + 1 \in Endpoint,
           \A p \in Node : Truthful(p), NEW n \in Node
    PROVE  Truthful(n)'
<1>0. /\ born \in [Node -> Endpoint \cup {0}] /\ up \in [Node -> Seq(Body)]
      /\ (~hub => table = Empty) /\ (host # None => up[host] = <<>> /\ (hub <=> host \in live))
  BY DEF TypeOK, Linked
<1>1. PICK own : own = [Empty EXCEPT ![x] = born[x] + 1]
  OBVIOUS
<1>2. own[x] = born[x] + 1
  BY <1>1, OwnIs
<1>3. /\ x \notin live /\ live' = live \cup {x} /\ born' = [born EXCEPT ![x] = @ + 1]
      /\ x = host => hub' = TRUE /\ table' = own /\ up' = up
      /\ x # host => up' = [up EXCEPT ![x] = Announcement(own)] /\ hub' = hub /\ table' = table
      /\ host' = host /\ down' = down /\ closed' = closed
  BY <1>1 DEF Boot, hubVars
<1>4. Truthful(n)
  OBVIOUS
<1>H. n \in live' => ~Haunted(n)'
  BY <1>3, <1>4 DEF Truthful, Haunted, Publishes, Tells
<1>5. CASE n # x
  <2>1. up'[n] = up[n] /\ born'[n] = born[n] /\ (n \in live' <=> n \in live) /\ down'[n] = down[n]
    BY <1>0, <1>3, <1>5
  <2>2. n \in live /\ n # host => Publishes(up[n], n) \/ table'[n] = born[n]
    <3>1. CASE x # host
      BY <1>3, <1>4, <3>1 DEF Truthful
    <3>2. CASE x = host
      <4>1. table = Empty
        BY <1>0, <1>3, <3>2, NoneAssumption
      <4>2. n \in live => table[n] # born[n]
        BY <4>1, EmptyIs DEF Linked
      <4> QED
        BY <1>4, <4>2 DEF Truthful
    <3> QED
      BY <3>1, <3>2
  <2>3. n = host /\ hub' => table'[n] = born[n]
    BY <1>3, <1>4, <1>5 DEF Truthful
  <2> QED
    BY <1>3, <1>4, <1>H, <2>1, <2>2, <2>3 DEF Truthful, Signed, Valid, Publishes, Tells
<1>6. CASE n = x /\ x = host
  <2>1. up'[n] = <<>>
    BY <1>0, <1>3, <1>6, NoneAssumption
  <2>2. Len(<<>>) = 0
    BY EmptySeq
  <2>3. table'[n] = born'[n] /\ n = host'
    BY <1>0, <1>2, <1>3, <1>6
  <2> QED
    BY <1>3, <1>4, <1>H, <2>1, <2>2, <2>3 DEF Truthful, Signed, Valid
<1>7. CASE n = x /\ x # host
  <2>1. PICK a, e : e = born[x] + 1 /\ e \in Endpoint /\ a = Announcement(own)
    OBVIOUS
  <2>2. Publishes(a, n) /\ \A i \in 1..Len(a) : a[i].type = "PUBLISH" => a[i] = Publish(n, e)
    BY <1>1, <1>7, <2>1, OwnSigned
  <2>3. Publish(n, e).key = n /\ Publish(n, e).value = e
    BY DEF Publish
  <2>4. up'[n] = a /\ born'[n] = e /\ n # host' /\ down'[n] = down[n]
    BY <1>0, <1>3, <1>7, <2>1
  <2> QED
    BY <1>4, <1>H, <2>2, <2>3, <2>4 DEF Truthful, Signed, Valid, Publishes, Tells
<1> QED
  BY <1>5, <1>6, <1>7

LEMMA OriginalStep ==
    TypeOK /\ Linked /\ TypeOK' /\ Linked' /\ Greeted /\ Original /\ Next => Original'
<1> SUFFICES ASSUME TypeOK, Linked, TypeOK', Linked', Greeted, Original, Next,
                    Unhurried', AnnouncedOnce', host' = None \/ spent'["unpublish"] = 0, Lasting'
             PROVE  \A n \in Node : Truthful(n)'
  BY DEF Original, Truthful, Signed, Valid, TypeOK
<1>0. /\ Unhurried /\ AnnouncedOnce /\ (host = None \/ spent["unpublish"] = 0)
      /\ Lasting /\ Seamless' /\ ~Charge("hasty") /\ ~Charge("hub") /\ ~Charge("late") /\ ~Charge("reset")
      /\ host = None \/ ~Charge("unpublish")
      /\ host' = host /\ (host = None => hub)
  BY OriginalBack
<1>T. \A n \in Node : Truthful(n)
  BY <1>0, NoneAssumption DEF Original, Truthful, Signed, Valid, TypeOK
<1>B. /\ table \in [Node -> Endpoint \cup {0}] /\ up \in [Node -> Seq(Body)]
      /\ down \in [Node -> Seq(Body)] /\ (host # None => up[host] = <<>>)
  BY BasicIs
<1> SUFFICES ASSUME NEW n \in Node PROVE Truthful(n)'
  OBVIOUS
<1>1. Truthful(n)
  BY <1>T
<1>6. ASSUME NEW x \in Node, Redial(x) PROVE FALSE
  <2>1. ~hub /\ x \notin fresh /\ Client(x)
    BY <1>0, <1>6 DEF Redial
  <2> QED
    BY <1>0, <2>1 DEF Greeted, AnnouncedOnce
<1>H. ASSUME NEW x \in Node, x \in live' PROVE ~Haunted(x)'
  <2>1. SUFFICES ASSUME Haunted(x)' PROVE FALSE
    OBVIOUS
  <2>2. CASE Haunted(x)
    <3>1. Boot(x)
      BY <1>T, <1>H, <2>2, BornGrows DEF Truthful
    <3> QED
      BY <1>0, <2>2, <3>1 DEF Boot
  <2>3. CASE ~Haunted(x)
    <3>1. PICK y \in Node : Publishes(up[y], x) /\ (Stop(y) \/ Crash(y) \/ Redial(y))
      BY <1>H, <2>1, <2>3, HauntedBack
    <3>2. y = x
      BY <1>T, <3>1 DEF Truthful, Signed, Publishes, Tells
    <3>3. End(x)
      BY <1>6, <3>1, <3>2 DEF Stop, Crash
    <3> QED
      BY <1>H, <3>3 DEF End
  <2> QED
    BY <2>2, <2>3
<1>K. ASSUME UNCHANGED <<host, hub, table, live, born>>, up'[n] = up[n], down'[n] = down[n]
      PROVE  Truthful(n)'
  BY <1>1, <1>H, <1>K DEF Truthful, Signed, Valid, Publishes, Tells
<1>2. ASSUME NEW x \in Node, Boot(x) PROVE Truthful(n)'
  <2>1. born' = [born EXCEPT ![x] = @ + 1] /\ x \in live'
    BY <1>2 DEF Boot
  <2>2. born'[x] = born[x] + 1 /\ born'[x] \in Endpoint
    BY <2>1 DEF TypeOK, Linked
  <2>3. ~Haunted(x)
    BY <1>0, <1>2 DEF Boot
  <2> QED
    BY <1>2, <1>T, <2>2, <2>3, OriginalBoot
<1>3. ASSUME NEW x \in Node, Stop(x) \/ Crash(x) PROVE Truthful(n)'
  <2>1. End(x) /\ x \in live
    BY <1>3 DEF Stop, Crash
  <2>2. live' = live \ {x} /\ born' = born
    BY <2>1 DEF End
  <2>3. x # host
    <3>1. SUFFICES ASSUME x = host PROVE FALSE
      OBVIOUS
    <3>2. hub' = FALSE
      BY <2>1, <3>1 DEF End
    <3>3. born[host] # 0
      BY <2>1, <3>1 DEF Linked
    <3> QED
      BY <1>0, <2>2, <3>2, <3>3 DEF Lasting
  <2>4. /\ UNCHANGED <<hub, table>> /\ down' = [down EXCEPT ![x] = <<>>]
        /\ up' = [up EXCEPT ![x] = <<>>]
    BY <2>1, <2>3 DEF End
  <2>5. CASE n # x
    <3>1. up'[n] = up[n] /\ down'[n] = down[n] /\ (n \in live' <=> n \in live)
      BY <1>B, <2>2, <2>4, <2>5
    <3> QED
      BY <1>0, <1>1, <1>H, <2>2, <2>4, <3>1 DEF Truthful, Signed, Valid, Publishes, Tells
  <2>6. CASE n = x
    <3>1. up'[n] = <<>> /\ down'[n] = <<>> /\ n \notin live' /\ n # host'
      BY <1>0, <1>B, <2>2, <2>3, <2>4, <2>6
    <3>2. Len(<<>>) = 0
      BY EmptySeq
    <3> QED
      BY <3>1, <3>2 DEF Truthful, Signed, Valid
  <2> QED
    BY <2>5, <2>6
<1>4. ASSUME NEW x \in Node, HubTake(x) PROVE Truthful(n)'
  BY <1>4, <1>T, OriginalTake
<1>5. ASSUME NEW x \in Node, HubReset(x) PROVE FALSE
  BY <1>0, <1>5 DEF HubReset
<1>7. ASSUME NEW x \in Node, Ping(x) PROVE Truthful(n)'
  <2>1. UNCHANGED <<host, hub, table, live, born, down>> /\ up' = [up EXCEPT ![x] = Append(@, Frame("PING"))]
    BY <1>7 DEF Ping, hubVars, nodeVars
  <2>2. CASE n # x
    BY <1>B, <1>K, <2>1, <2>2
  <2>3. CASE n = x
    <3>0. Frame("PING") \in Body /\ Frame("PING").type = "PING" /\ up[n] \in Seq(Body)
      BY <1>B, FrameIs
    <3>1. PICK q \in Seq(Body), m \in Body : q = up[n] /\ m = Frame("PING") /\ m.type = "PING"
      BY <3>0
    <3>2. PICK a : a = Append(q, m)
      OBVIOUS
    <3>3. Signed(a, n, born[n]) /\ (Publishes(q, n) => Publishes(a, n))
      BY <1>1, <3>1, <3>2, AppendTells, MoreValid DEF Truthful
    <3>4. up'[n] = a
      BY <1>B, <2>1, <2>3, <3>1, <3>2
    <3> QED
      BY <1>1, <1>H, <2>1, <3>1, <3>3, <3>4 DEF Truthful, Signed, Valid, Publishes, Tells
  <2> QED
    BY <2>2, <2>3
<1>8. ASSUME NEW x \in Node, ClientTake(x) PROVE Truthful(n)'
  <2>1. UNCHANGED <<host, hub, table, live, born>>
    BY <1>8 DEF ClientTake, hubVars
  <2>2. CASE n # x
    BY <1>8, <1>K, <2>1, <2>2, ClientOthers
  <2>3. CASE n = x
    <3>1. PICK d \in Seq(Body) : d = down[n] /\ d # <<>> /\ down'[n] = Tail(d) /\ d[1] = Head(d)
      BY <1>8, <1>B, <2>3, ClientTakeIs
    <3>2. Valid(d)
      BY <1>1, <3>1 DEF Truthful
    <3>3. Valid(Tail(d)) /\ d[1].type # "INVALID"
      <4>1. Len(d) \in Nat \ {0}
        BY <3>1, TailIs
      <4>2. Valid(Tail(d))
        BY <3>1, <3>2, TailValid
      <4> QED
        BY <3>2, <4>1, <4>2 DEF Valid
    <3>4. up' = up
      BY <1>8, <2>3, <3>1, <3>3 DEF ClientTake
    <3> QED
      BY <1>1, <1>H, <2>1, <3>1, <3>3, <3>4 DEF Truthful, Signed, Valid, Publishes, Tells
  <2> QED
    BY <2>2, <2>3
<1>9. ASSUME NEW x \in Node, NEW p \in Node,
             RecvHello(x, p) \/ RecvGoodbye(x, p) \/ Expire(x, p) \/ Unpublish(x, p)
      PROVE  Truthful(n)'
  <2>1. UNCHANGED <<host, hub, table, live, born, up, down>>
    <3>1. CASE Unpublish(x, p)
      <4>1. Charge("unpublish")
        BY <3>1 DEF Unpublish
      <4>2. x # host
        BY <1>0, <4>1, NoneAssumption
      <4> QED
        BY <3>1, <4>2 DEF Unpublish
    <3> QED
      BY <1>9, <3>1 DEF RecvHello, RecvGoodbye, Expire, hubVars
  <2> QED
    BY <1>K, <2>1
<1>10. ASSUME HubCrash \/ HubStart PROVE FALSE
  BY <1>0, <1>10 DEF HubCrash, HubStart
<1>11. ASSUME NEW j \in 1..Len(closed), HubDrain(j) PROVE Truthful(n)'
  <2>1. PICK q \in Seq(Body) : q = closed[j] /\ q # <<>>
    BY <1>11, HubDrainIs
  <2>2. /\ UNCHANGED <<host, hub, clients, live, born, up>>
        /\ \/ UNCHANGED <<table, down>>
           \/ \E k \in Node, v \in Endpoint : q[1] = Publish(k, v) /\ Accept(k, v, clients)
    BY <1>11, <2>1, HubDrainIs
  <2>3. ASSUME NEW k \in Node, NEW v \in Endpoint, q[1] = Publish(k, v), Accept(k, v, clients)
        PROVE  Truthful(n)'
    <3>1. Len(q) \in Nat \ {0}
      BY <2>1, TailIs
    <3>2. Tells(q[1], k) /\ 1 \in 1..Len(q)
      BY <2>3, <3>1, FrameIs
    <3>3. Haunted(k)
      BY <2>1, <3>2 DEF Haunted, Publishes
    <3>4. k \notin live
      BY <1>T, <3>3 DEF Truthful
    <3>5. n \in live => table'[n] = table[n]
      BY <1>B, <2>3, <3>4 DEF Accept
    <3>6. host # None /\ hub => host \in live
      BY DEF Linked
    <3>7. n = host /\ hub => table'[n] = table[n]
      BY <3>5, <3>6, NoneAssumption
    <3>8. PICK d \in Seq(Body) : d = down[n]
      BY <1>B
    <3>9. down'[n] = d \/ down'[n] = Append(d, Publish(k, v))
      BY <1>B, <2>3, <3>8 DEF Accept
    <3>10. Publish(k, v) \in Body /\ Publish(k, v).type # "INVALID"
      BY FrameIs DEF Publish
    <3>11. Valid(Append(d, Publish(k, v))) /\ Valid(d)
      BY <1>1, <3>8, <3>10, MoreValid DEF Truthful
    <3>12. Valid(down'[n])
      BY <3>9, <3>11
    <3> QED
      BY <1>1, <1>H, <2>2, <3>5, <3>7, <3>12 DEF Truthful, Signed, Valid, Publishes, Tells
  <2> QED
    BY <1>K, <2>2, <2>3
<1> QED
  BY <1>2, <1>3, <1>4, <1>5, <1>6, <1>7, <1>8, <1>9, <1>10, <1>11 DEF Next

-----------------------------------------------------------------------------
(* Theorems *)

Why == TypeOK /\ Linked /\ Joining /\ Following /\ Greeted /\ Original

LEMMA WhyInit == Init => Why
<1> SUFFICES ASSUME Init PROVE Why
  OBVIOUS
<1>1. TypeOK /\ Linked
  BY BasicInit
<1>2. fresh = {} /\ clients = {} /\ live = {}
  BY DEF Init
<1>3. Joining /\ Following /\ Greeted
  BY <1>2 DEF Joining, Following, Greeted, Client
<1>4. \A n \in Node : up[n] = <<>> /\ down[n] = <<>>
  BY DEF Init
<1>5. hub => host = None
  BY DEF Init
<1>6. Len(<<>>) = 0
  BY EmptySeq
<1>7. closed = <<>>
  BY DEF Init
<1>8. Original
  BY <1>2, <1>4, <1>5, <1>6, <1>7 DEF Original
<1> QED
  BY <1>1, <1>3, <1>8 DEF Why

LEMMA WhyStep == Why /\ [Next]_vars => Why'
<1> SUFFICES ASSUME Why, [Next]_vars PROVE Why'
  OBVIOUS
<1>1. CASE Next
  <2>1. TypeOK' /\ Linked'
    BY <1>1, BasicStep DEF Why
  <2>2. Joining' /\ Following'
    BY <1>1, <2>1, JoiningStep, FollowingStep DEF Why
  <2>3. Greeted' /\ Original'
    BY <1>1, <2>1, GreetedStep, OriginalStep DEF Why
  <2> QED
    BY <2>1, <2>2, <2>3 DEF Why
<1>2. CASE UNCHANGED vars
  <2>1. TypeOK' /\ Linked'
    BY <1>2 DEF Why, TypeOK, Linked, vars
  <2>2. Joining' /\ Following'
    BY <1>2 DEF Why, Joining, Following, Publishes, Tells, Becomes, vars
  <2>3. Greeted'
    BY <1>2 DEF Why, Greeted, Seamless, Lasting, Client, vars
  <2>4. Original'
    BY <1>2 DEF Why, Original, Unhurried, AnnouncedOnce, Seamless, Lasting, Haunted, Publishes, Tells, vars
  <2> QED
    BY <2>1, <2>2, <2>3, <2>4 DEF Why
<1> QED
  BY <1>1, <1>2

LEMMA WhyHolds == Spec => []Why
BY WhyInit, WhyStep, PTL DEF Spec

\* Once nothing but PINGs and PONGs is on its way, no link tells of a tuple.
LEMMA CalmIs ==
    ASSUME TypeOK, Calm, NEW n \in Node, NEW k
    PROVE  ~Publishes(up[n], k) /\ ~Publishes(down[n], k)
<1>1. up[n] \in Seq(Body) /\ down[n] \in Seq(Body)
  BY DEF TypeOK
<1>2. DOMAIN up[n] = 1..Len(up[n]) /\ DOMAIN down[n] = 1..Len(down[n])
  BY <1>1, LenProperties
<1> QED
  BY <1>2 DEF Calm, Publishes, Tells

LEMMA TablesAgreeIs == Why => TablesAgree
<1> SUFFICES ASSUME Why, Calm, Seamless, spent["unpublish"] = 0, NEW n \in Node, n \in clients
             PROVE  tuples[n] = table
  BY DEF Why, TypeOK, TablesAgree
<1>1. Client(n) /\ n \in fresh
  <2>1. hub /\ Client(n)
    BY DEF Calm, Client, Why, Linked, TypeOK
  <2> QED
    BY <2>1 DEF Why, Greeted, Lasting
<1>2. \A k \in Node : tuples[n][k] = table[k]
  BY <1>1, CalmIs DEF Why, Following, Becomes, Publishes
<1> QED
  BY <1>2 DEF Why, TypeOK

LEMMA HubFreshIs == Why => HubFresh
<1> SUFFICES ASSUME Why, Calm, Unhurried, AnnouncedOnce, host \notin Node \ live,
                    host = None \/ spent["unpublish"] = 0, NEW n \in live
             PROVE  table[n] = born[n]
  BY DEF HubFresh
<1>1. hub /\ Lasting /\ n \in Node
  BY DEF Calm, Lasting, Why, TypeOK
<1>2. CASE n = host
  BY <1>1, <1>2, NoneAssumption DEF Why, Original
<1>3. CASE n # host
  BY <1>1, <1>3, CalmIs DEF Why, Original
<1> QED
  BY <1>2, <1>3

\* The types (gossip.py, the hub; node.py, the hub links): a client of the hub is
\* a node that runs and does not host it, an endpoint is one of a start.
THEOREM TypesHold == Spec => []TypeOK
BY WhyHolds, PTL DEF Why

\* Convergence of the replicated tuple table (gossip.py, _accept and the answer
\* to HELLO; node.py, _handle_gossip_client), for every number of nodes and
\* every budget of restarts, hub crashes, late hubs and resets: once the frames
\* are handled, every client of a hub that was never replaced behind its back
\* has exactly the hub's tuples.
THEOREM TablesAgreeHolds == Spec => []TablesAgree
BY WhyHolds, TablesAgreeIs, PTL

\* The hub ends up with the present endpoint of every node that runs, stops and
\* restarts included (_accept; _gossip_announce of node.py), as long as no node
\* comes back before the hub has read what its earlier process sent, nobody
\* announces again what it has learned, and the node that hosts the hub deletes
\* no tuple.
THEOREM HubFreshHolds == Spec => []HubFresh
BY WhyHolds, HubFreshIs, PTL

=============================================================================
