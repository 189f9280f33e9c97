--------------------------- MODULE ZreLinkProofs ---------------------------
(***************************************************************************)
(* Theorems about the connections of ZreLink, for every number of nodes,   *)
(* and whatever the timeouts and the width of the sequence numbers are.    *)
(***************************************************************************)
EXTENDS ZreLink, SequenceTheorems, TLAPS

Message == [cmd : Commands, seq : 0 .. Width - 1]

(* Entries *)

LEMMA NextSeqIs ==
    ASSUME NEW e \in Peer
    PROVE  /\ NextSeq(e) \in 0 .. Width - 1
           /\ NextSeq(e) = IF e.sent = Width - 1 THEN 0 ELSE e.sent + 1
<1>1. e.sent \in 0 .. Width - 1 /\ Width \in Nat /\ Width > 3
  BY WidthAssumption DEF Peer
<1>2. ASSUME NEW x \in 0 .. Width - 1
      PROVE  (x + 1) % Width = IF x = Width - 1 THEN 0 ELSE x + 1
  BY <1>1
<1>3. NextSeq(e) = (e.sent + 1) % Width
  BY DEF NextSeq
<1> QED
  BY <1>1, <1>2, <1>3

LEMMA EntryOperators ==
    ASSUME NEW e \in Peer, NEW seq \in 0 .. Width - 1
    PROVE  /\ Refresh(e) \in Peer /\ Refresh(e).kind = e.kind /\ Refresh(e).on = e.on
           /\ Refresh(e).sent = e.sent /\ Refresh(e).want = e.want
           /\ Stamped(e) \in Peer /\ Stamped(e).kind = e.kind /\ Stamped(e).on = e.on
           /\ Stamped(e).sent = NextSeq(e) /\ Stamped(e).want = e.want
           /\ Checked(e, seq) \in Peer /\ Checked(e, seq).kind = e.kind /\ Checked(e, seq).on = e.on
           /\ Checked(e, seq).sent = e.sent /\ Checked(e, seq).want = seq
           /\ Probed(e) \in Peer /\ Probed(e).kind = e.kind /\ Probed(e).on = e.on
           /\ Probed(e).sent = (IF e.on THEN NextSeq(e) ELSE e.sent) /\ Probed(e).want = e.want
           /\ Cut(e) \in Peer /\ Cut(e).kind = "known" /\ Cut(e).on = FALSE
<1>0. EV + 1 \in Nat /\ EX + 1 \in Nat /\ Width \in Nat
  BY TimeAssumption, WidthAssumption
<1>1. /\ Refresh(e) \in Peer /\ Refresh(e).kind = e.kind /\ Refresh(e).on = e.on
      /\ Refresh(e).sent = e.sent /\ Refresh(e).want = e.want
  <2> DEFINE d == [e EXCEPT !.evasive = 0]
  <2>1. d \in Peer /\ d.kind = e.kind /\ d.on = e.on /\ d.sent = e.sent /\ d.want = e.want
    BY <1>0 DEF Peer
  <2>2. Refresh(e) = [d EXCEPT !.expired = 0]
    BY DEF Refresh
  <2> HIDE DEF d
  <2> QED
    BY <1>0, <2>1, <2>2 DEF Peer
<1>2. /\ Stamped(e) \in Peer /\ Stamped(e).kind = e.kind /\ Stamped(e).on = e.on
      /\ Stamped(e).sent = NextSeq(e) /\ Stamped(e).want = e.want
  BY NextSeqIs DEF Peer, Stamped
<1>3. /\ Checked(e, seq) \in Peer /\ Checked(e, seq).kind = e.kind /\ Checked(e, seq).on = e.on
      /\ Checked(e, seq).sent = e.sent /\ Checked(e, seq).want = seq
  BY <1>0, <1>1 DEF Peer, Checked
<1>4. /\ Probed(e) \in Peer /\ Probed(e).kind = e.kind /\ Probed(e).on = e.on
      /\ Probed(e).sent = (IF e.on THEN NextSeq(e) ELSE e.sent) /\ Probed(e).want = e.want
  <2> DEFINE d == IF e.on THEN Stamped(e) ELSE e
  <2>1. /\ d \in Peer /\ d.kind = e.kind /\ d.on = e.on
        /\ d.sent = (IF e.on THEN NextSeq(e) ELSE e.sent) /\ d.want = e.want
    BY <1>2
  <2>2. Probed(e) = [d EXCEPT !.evasive = 0]
    BY DEF Probed
  <2> HIDE DEF d
  <2> QED
    BY <1>0, <2>1, <2>2 DEF Peer
<1>5. Cut(e) \in Peer /\ Cut(e).kind = "known" /\ Cut(e).on = FALSE
  <2> DEFINE d == [Stamped(e) EXCEPT !.on = FALSE]
  <2>1. d \in Peer /\ d.on = FALSE
    BY <1>2 DEF Peer
  <2>2. Cut(e) = [d EXCEPT !.kind = "known"]
    BY DEF Cut
  <2> HIDE DEF d
  <2> QED
    BY <2>1, <2>2 DEF Peer
<1> QED
  BY <1>1, <1>2, <1>3, <1>4, <1>5

LEMMA NoPeerFacts ==
    /\ NoPeer \in Peer /\ NoPeer.kind = "none" /\ NoPeer.sent = 0 /\ NoPeer.want = 0
    /\ NoPeer.on = FALSE /\ NoPeer.evasive = 0 /\ NoPeer.expired = 0
    /\ NextSeq(NoPeer) = 1
<1>1. EV + 1 \in Nat /\ EX + 1 \in Nat /\ Width \in Nat /\ Width > 3
  BY TimeAssumption, WidthAssumption
<1>2. /\ NoPeer \in Peer /\ NoPeer.kind = "none" /\ NoPeer.sent = 0 /\ NoPeer.want = 0
      /\ NoPeer.on = FALSE /\ NoPeer.evasive = 0 /\ NoPeer.expired = 0
  BY <1>1 DEF NoPeer, Peer
<1> QED
  BY <1>1, <1>2, NextSeqIs

\* A connected entry of kind k.
LEMMA ConnectedIs ==
    ASSUME NEW e \in Peer, NEW k \in {"pending", "known", "ready"}
    PROVE  LET f == [e EXCEPT !.kind = k, !.on = TRUE]
           IN  /\ f \in Peer /\ f.kind = k /\ f.on = TRUE /\ f.sent = e.sent /\ f.want = e.want
               /\ f.evasive = e.evasive /\ f.expired = e.expired
<1> DEFINE d == [e EXCEPT !.kind = k]
           f == [e EXCEPT !.kind = k, !.on = TRUE]
<1>1. /\ d \in Peer /\ d.kind = k /\ d.sent = e.sent /\ d.want = e.want
      /\ d.evasive = e.evasive /\ d.expired = e.expired
  BY DEF Peer
<1>2. f = [d EXCEPT !.on = TRUE]
  OBVIOUS
<1> HIDE DEF d
<1>3. /\ f \in Peer /\ f.kind = k /\ f.on = TRUE /\ f.sent = e.sent /\ f.want = e.want
      /\ f.evasive = e.evasive /\ f.expired = e.expired
  BY <1>1, <1>2 DEF Peer
<1> QED
  BY <1>3

\* A new connection, greeted.
LEMMA GreetingIs ==
    ASSUME NEW k \in {"pending", "known", "ready"}
    PROVE  LET f == [Stamped(NoPeer) EXCEPT !.kind = k, !.on = TRUE]
           IN  /\ f \in Peer /\ f.kind = k /\ f.on = TRUE /\ f.sent = 1 /\ f.want = 0
               /\ f.evasive = 0 /\ f.expired = 0
<1>1. PICK e : e = Stamped(NoPeer)
  OBVIOUS
<1>2. 0 \in 0 .. Width - 1
  BY WidthAssumption
<1>3. e \in Peer /\ e.sent = 1 /\ e.want = 0
  BY <1>1, <1>2, NoPeerFacts, EntryOperators
<1>4. e.evasive = 0 /\ e.expired = 0
  BY <1>1, NoPeerFacts DEF Stamped, Peer
<1>5. PICK f : f = [e EXCEPT !.kind = k, !.on = TRUE]
  OBVIOUS
<1>6. /\ f \in Peer /\ f.kind = k /\ f.on = TRUE /\ f.sent = 1 /\ f.want = 0
      /\ f.evasive = 0 /\ f.expired = 0
  BY <1>3, <1>4, <1>5, ConnectedIs
<1> QED
  BY <1>1, <1>5, <1>6

(* Numbered, from the side of each operation on a queue *)

\* The receiver takes the head of the queue: if it is ready then, it has the number
\* of that message, or starts anew after a HELLO.
LEMMA NumberedTakes ==
    ASSUME NEW q \in Seq(Message), q # <<>>, NEW s \in Peer, NEW e, NEW f, Numbered(q, s, e),
           f.kind = "ready" => IF Head(q).cmd = "HELLO" THEN f.want \in {0, 1}
                               ELSE f.want = Head(q).seq
    PROVE  Numbered(Tail(q), s, f)
<1> DEFINE r == Tail(q)
<1>1. r \in Seq(Message) /\ Len(r) = Len(q) - 1 /\ \A i \in 1..Len(r) : r[i] = q[i + 1]
  BY HeadTailProperties
<1> HIDE DEF r
<1>2. /\ Len(q) \in Nat \ {0} /\ Head(q) = q[1] /\ 1 \in 1..Len(q)
      /\ Len(r) = 0 <=> r = <<>>
  <2>1. Len(r) = 0 <=> r = <<>>
    BY <1>1, EmptySeq
  <2>2. Len(q) \in Nat \ {0} /\ Head(q) = q[1]
    BY EmptySeq
  <2> QED
    BY <2>1, <2>2
<1>3. /\ \A i \in 1..Len(q) : q[i].cmd = "HELLO" => q[i].seq \in {1, 2}
      /\ \A i \in 1..Len(q) - 1 : q[i + 1].cmd # "HELLO" => q[i + 1].seq = (q[i].seq + 1) % Width
      /\ s.kind = "pending" => s.sent = 1 /\ s.want = 0
      /\ s.on /\ q # <<>> => s.sent = q[Len(q)].seq
  BY DEF Numbered
<1>4. Width \in Nat /\ Width > 3 /\ \A x \in 0 .. Width - 1 :
         (x + 1) % Width = IF x = Width - 1 THEN 0 ELSE x + 1
  BY WidthAssumption
<1>5. q[1].seq \in 0 .. Width - 1 /\ (q[1].cmd = "HELLO" => q[1].seq \in {1, 2})
  <2>1. q[1] \in Message
    BY <1>2, ElementOfSeq
  <2> QED
    BY <1>2, <1>3, <2>1 DEF Message
\* What comes after the head fits.
<1>6. f.kind = "ready" => Fits(f.want, (q[1].seq + 1) % Width)
  BY <1>2, <1>4, <1>5 DEF Fits
<1>7. \A i \in 1..Len(r) : r[i].cmd = "HELLO" => r[i].seq \in {1, 2}
  BY <1>1, <1>2, <1>3
<1>8. ASSUME NEW i \in 1 .. Len(r) - 1, r[i + 1].cmd # "HELLO"
      PROVE  r[i + 1].seq = (r[i].seq + 1) % Width
  <2>1. i + 1 \in 1 .. Len(q) - 1 /\ r[i] = q[i + 1] /\ r[i + 1] = q[(i + 1) + 1]
    BY <1>1, <1>2
  <2> QED
    BY <1>3, <1>8, <2>1
<1>9. s.on /\ r # <<>> => s.sent = r[Len(r)].seq
  <2>1. r # <<>> => r[Len(r)] = q[Len(q)]
    BY <1>1, <1>2
  <2> QED
    BY <1>3, <2>1
<1>10. f.kind = "ready" /\ r # <<>> => r[1].cmd = "HELLO" \/ Fits(f.want, r[1].seq)
  <2>1. r # <<>> => 1 \in 1 .. Len(q) - 1 /\ r[1] = q[1 + 1]
    BY <1>1, <1>2
  <2>2. r # <<>> /\ r[1].cmd # "HELLO" => r[1].seq = (q[1].seq + 1) % Width
    BY <1>3, <2>1
  <2> QED
    BY <1>6, <2>2
<1>11. f.kind = "ready" /\ r = <<>> /\ s.on => Fits(f.want, NextSeq(s))
  <2>1. r = <<>> => Len(q) = 1
    BY <1>1, <1>2
  <2>2. r = <<>> /\ s.on => s.sent = q[1].seq
    BY <1>3, <2>1
  <2> QED
    BY <1>6, <2>2 DEF NextSeq
<1> QED
  BY <1>3, <1>7, <1>8, <1>9, <1>10, <1>11 DEF Numbered, r

\* The sender posts m, and has t then.
LEMMA NumberedPosts ==
    ASSUME NEW q \in Seq(Message), NEW s \in Peer, NEW e, NEW t, NEW m \in Message, Numbered(q, s, e),
           m.seq = NextSeq(s),
           IF m.cmd = "HELLO" THEN m.seq \in {1, 2} ELSE s.on,
           t.on => t.sent = m.seq,
           t.kind = "pending" => t.sent = 1 /\ t.want = 0
    PROVE  Numbered(Append(q, m), t, e)
<1> DEFINE r == Append(q, m)
<1>1. /\ r \in Seq(Message) /\ Len(r) = Len(q) + 1 /\ r[Len(q) + 1] = m
      /\ \A i \in 1..Len(q) : r[i] = q[i]
  BY AppendProperties
<1>2. Len(q) \in Nat /\ r # <<>> /\ (Len(q) = 0 <=> q = <<>>)
  BY <1>1, LenProperties, EmptySeq
<1> HIDE DEF r
<1>3. /\ \A i \in 1..Len(q) : q[i].cmd = "HELLO" => q[i].seq \in {1, 2}
      /\ \A i \in 1..Len(q) - 1 : q[i + 1].cmd # "HELLO" => q[i + 1].seq = (q[i].seq + 1) % Width
      /\ s.on /\ q # <<>> => s.sent = q[Len(q)].seq
      /\ e.kind = "ready" /\ q # <<>> => q[1].cmd = "HELLO" \/ Fits(e.want, q[1].seq)
      /\ e.kind = "ready" /\ q = <<>> /\ s.on => Fits(e.want, NextSeq(s))
  BY DEF Numbered
<1>4. ASSUME NEW i \in 1..Len(r), r[i].cmd = "HELLO" PROVE r[i].seq \in {1, 2}
  <2>1. CASE i \in 1..Len(q)
    BY <1>1, <1>3, <1>4, <2>1
  <2>2. CASE i = Len(q) + 1
    BY <1>1, <1>4, <2>2
  <2> QED
    BY <1>1, <1>2, <2>1, <2>2
<1>5. ASSUME NEW i \in 1 .. Len(r) - 1, r[i + 1].cmd # "HELLO"
      PROVE  r[i + 1].seq = (r[i].seq + 1) % Width
  <2>1. CASE i \in 1 .. Len(q) - 1
    <3>1. i + 1 \in 1..Len(q) /\ i \in 1..Len(q)
      BY <1>2, <2>1
    <3> QED
      BY <1>1, <1>3, <1>5, <2>1, <3>1
  <2>2. CASE i = Len(q)
    <3>1. q # <<>> /\ i \in 1..Len(q)
      BY <1>2, <2>2
    <3>2. r[i + 1] = m /\ r[i] = q[Len(q)]
      BY <1>1, <2>2, <3>1
    <3> QED
      BY <1>3, <1>5, <3>1, <3>2 DEF NextSeq
  <2> QED
    BY <1>1, <1>2, <2>1, <2>2
<1>6. r[Len(r)] = m
  BY <1>1
<1>7. e.kind = "ready" => r[1].cmd = "HELLO" \/ Fits(e.want, r[1].seq)
  <2>1. CASE q = <<>>
    <3>1. r[1] = m
      BY <1>1, <1>2, <2>1
    <3> QED
      BY <1>3, <2>1, <3>1
  <2>2. CASE q # <<>>
    <3>1. r[1] = q[1]
      BY <1>1, <1>2, <2>2
    <3> QED
      BY <1>3, <2>2, <3>1
  <2> QED
    BY <2>1, <2>2
<1> QED
  BY <1>2, <1>4, <1>5, <1>6, <1>7 DEF Numbered, r

\* Neither posts nor takes anything.
LEMMA NumberedStays ==
    ASSUME NEW q, NEW s, NEW e, NEW t, NEW f, Numbered(q, s, e),
           t.on => s.on /\ NextSeq(t) = NextSeq(s) /\ t.sent = s.sent,
           t.kind = "pending" => t.sent = 1 /\ t.want = 0,
           f.kind = "ready" => e.kind = "ready" /\ f.want = e.want
    PROVE  Numbered(q, t, f)
BY DEF Numbered

\* What is written of a queue before it is closed.
LEMMA WrittenIs ==
    ASSUME NEW q \in Seq(Message), NEW p, NEW r \in Written(q, p)
    PROVE  /\ r \in Seq(Message) /\ Len(r) \in 0..Len(q)
           /\ \A i \in 1..Len(r) : r[i] = q[i]
<1>1. PICK k \in 0..Len(q) : r = SubSeq(q, 1, k)
  <2>1. Len(q) \in Nat
    BY LenProperties
  <2> QED
    BY <2>1 DEF Written
<1>2. Len(q) \in Nat /\ \A i \in 1..k : q[i] \in Message
  BY LenProperties, ElementOfSeq
<1>3. Len(r) = k /\ \A i \in 1..k : r[i] = q[i]
  BY <1>1, <1>2
<1>4. r \in Seq(Message)
  BY <1>1, <1>2
<1> QED
  BY <1>1, <1>2, <1>3, <1>4

\* The sender is disconnected, and a part of the queue is written.
LEMMA NumberedCut ==
    ASSUME NEW q \in Seq(Message), NEW s, NEW e, NEW p, NEW r \in Written(q, p), NEW t,
           Numbered(q, s, e), t.on = FALSE, t.kind # "pending"
    PROVE  Numbered(r, t, e)
<1>1. Len(q) \in Nat /\ (Len(q) = 0 <=> q = <<>>)
  BY LenProperties, EmptySeq
<1>2. /\ r \in Seq(Message) /\ Len(r) \in 0..Len(q)
      /\ \A i \in 1..Len(r) : r[i] = q[i]
  BY WrittenIs
<1>3. Len(r) = 0 <=> r = <<>>
  BY <1>2, EmptySeq
<1>4. /\ \A i \in 1..Len(q) : q[i].cmd = "HELLO" => q[i].seq \in {1, 2}
      /\ \A i \in 1..Len(q) - 1 : q[i + 1].cmd # "HELLO" => q[i + 1].seq = (q[i].seq + 1) % Width
      /\ e.kind = "ready" /\ q # <<>> => q[1].cmd = "HELLO" \/ Fits(e.want, q[1].seq)
  BY DEF Numbered
<1>5. \A i \in 1..Len(r) : r[i].cmd = "HELLO" => r[i].seq \in {1, 2}
  BY <1>1, <1>2, <1>4
<1>6. ASSUME NEW i \in 1 .. Len(r) - 1, r[i + 1].cmd # "HELLO"
      PROVE  r[i + 1].seq = (r[i].seq + 1) % Width
  <2>1. i \in 1 .. Len(q) - 1 /\ i \in 1..Len(r) /\ i + 1 \in 1..Len(r)
    BY <1>1, <1>2
  <2>2. r[i] = q[i] /\ r[i + 1] = q[i + 1]
    BY <1>2, <2>1
  <2> QED
    BY <1>4, <1>6, <2>1, <2>2
<1>7. e.kind = "ready" /\ r # <<>> => r[1].cmd = "HELLO" \/ Fits(e.want, r[1].seq)
  <2>1. r # <<>> => q # <<>> /\ r[1] = q[1]
    BY <1>1, <1>2, <1>3
  <2> QED
    BY <1>4, <2>1
<1> QED
  BY <1>5, <1>6, <1>7 DEF Numbered

\* What was on its way is gone, and the receiver is not ready.
LEMMA NumberedShut ==
    ASSUME NEW t, NEW f, t.kind = "pending" => t.sent = 1 /\ t.want = 0, f.kind # "ready"
    PROVE  Numbered(<<>>, t, f)
<1> DEFINE q == <<>>
<1>1. q \in Seq(Message) /\ Len(q) = 0
  BY EmptySeq
<1> HIDE DEF q
<1>2. 1 .. Len(q) = {} /\ 1 .. Len(q) - 1 = {} /\ q = <<>>
  BY <1>1 DEF q
<1> QED
  BY <1>2 DEF Numbered

-----------------------------------------------------------------------------
(* The connections between two nodes *)

Links == [Node -> [Node -> Seq(Message)]]

\* n gets the entry f of p, and nothing happens on other links than theirs.
LinkDoes(n, p, f) ==
    /\ n # p /\ n \in live /\ f \in Peer
    /\ peer' = [peer EXCEPT ![n][p] = f]
    /\ net' \in Links
    /\ \A a, b \in Node : <<a, b>> \notin {<<n, p>>, <<p, n>>} => net'[a][b] = net[a][b]
    /\ Numbered(net'[n][p], f, peer[p][n])
    /\ Numbered(net'[p][n], peer[p][n], f)

LEMMA LinkFacts ==
    ASSUME TypeOK, Apart, InSequence, NEW n \in Node, NEW p \in Node
    PROVE  /\ net \in Links /\ net[n][p] \in Seq(Message) /\ net[p][n] \in Seq(Message)
           /\ peer \in [Node -> [Node -> Peer]] /\ peer[n][p] \in Peer /\ peer[p][n] \in Peer
           /\ peer[n][n] = NoPeer /\ net[n][n] = <<>>
           /\ peer[n][p].kind = "none" => peer[n][p] = NoPeer
           /\ Numbered(net[n][p], peer[n][p], peer[p][n])
           /\ Numbered(net[p][n], peer[p][n], peer[n][p])
           /\ peer[n][p].kind = "pending" => peer[n][p].sent = 1 /\ peer[n][p].want = 0
<1>1. net \in Links /\ peer \in [Node -> [Node -> Peer]] /\ peer[n][n] = NoPeer
  BY DEF TypeOK, Links, Message
<1>2. net[n][n] = <<>> /\ (peer[n][p].kind = "none" => peer[n][p] = NoPeer)
  BY DEF Apart
<1>3. /\ Numbered(net[n][p], peer[n][p], peer[p][n])
      /\ Numbered(net[p][n], peer[p][n], peer[n][p])
  BY DEF InSequence
<1>4. peer[n][p].kind = "pending" => peer[n][p].sent = 1 /\ peer[n][p].want = 0
  BY <1>3 DEF Numbered
<1> QED
  BY <1>1, <1>2, <1>3, <1>4 DEF Links

\* n posts x to p.
LEMMA LinkPosts ==
    ASSUME TypeOK, Apart, InSequence, NEW n \in live, NEW p \in Node, n # p,
           NEW f \in Peer, NEW x \in Message,
           x.seq = NextSeq(peer[n][p]),
           IF x.cmd = "HELLO" THEN x.seq \in {1, 2} ELSE peer[n][p].on,
           f.sent = x.seq,
           f.kind = "pending" => f.sent = 1 /\ f.want = 0,
           f.kind = "ready" => peer[n][p].kind = "ready" /\ f.want = peer[n][p].want,
           peer' = [peer EXCEPT ![n][p] = f],
           net' = [net EXCEPT ![n][p] = Append(@, x)]
    PROVE  LinkDoes(n, p, f)
<1>0. n \in Node
  BY DEF TypeOK
<1>1. /\ net \in Links /\ net[n][p] \in Seq(Message) /\ peer[n][p] \in Peer /\ peer[p][n] \in Peer
      /\ Numbered(net[n][p], peer[n][p], peer[p][n])
      /\ Numbered(net[p][n], peer[p][n], peer[n][p])
      /\ peer[p][n].kind = "pending" => peer[p][n].sent = 1 /\ peer[p][n].want = 0
  BY <1>0, LinkFacts
<1>2. Append(net[n][p], x) \in Seq(Message)
  BY <1>1, AppendProperties
<1>3. /\ net' \in Links /\ net'[n][p] = Append(net[n][p], x) /\ net'[p][n] = net[p][n]
      /\ \A a, b \in Node : <<a, b>> \notin {<<n, p>>, <<p, n>>} => net'[a][b] = net[a][b]
  BY <1>0, <1>1, <1>2 DEF Links
<1>4. Numbered(net'[n][p], f, peer[p][n])
  <2>1. Numbered(Append(net[n][p], x), f, peer[p][n])
    BY <1>1, NumberedPosts
  <2> QED
    BY <1>3, <2>1
<1>5. Numbered(net'[p][n], peer[p][n], f)
  <2>1. Numbered(net[p][n], peer[p][n], f)
    BY <1>1, NumberedStays
  <2> QED
    BY <1>3, <2>1
<1> QED
  BY <1>3, <1>4, <1>5 DEF LinkDoes

\* What n has after it took the next message of p.
LEMMA LinkTakes ==
    ASSUME TypeOK, Apart, InSequence, NEW n \in live, NEW p \in Node, net[p][n] # <<>>,
           NEW f \in Peer,
           f.on => peer[n][p].on /\ f.sent = peer[n][p].sent,
           f.kind = "pending" => f.sent = 1 /\ f.want = 0,
           f.kind = "ready" => IF Head(net[p][n]).cmd = "HELLO" THEN f.want \in {0, 1}
                               ELSE f.want = Head(net[p][n]).seq,
           peer' = [peer EXCEPT ![n][p] = f],
           net' = Taken(n, p)
    PROVE  LinkDoes(n, p, f)
<1>0. n \in Node
  BY DEF TypeOK
<1>1. /\ net \in Links /\ net[p][n] \in Seq(Message) /\ peer[n][p] \in Peer /\ peer[p][n] \in Peer
      /\ Numbered(net[n][p], peer[n][p], peer[p][n])
      /\ Numbered(net[p][n], peer[p][n], peer[n][p])
  BY <1>0, LinkFacts
<1>2. n # p
  BY <1>0, LinkFacts
<1>3. Tail(net[p][n]) \in Seq(Message)
  BY <1>1, HeadTailProperties
<1>4. /\ net' \in Links /\ net'[n][p] = net[n][p] /\ net'[p][n] = Tail(net[p][n])
      /\ \A a, b \in Node : <<a, b>> \notin {<<n, p>>, <<p, n>>} => net'[a][b] = net[a][b]
  BY <1>0, <1>1, <1>2, <1>3 DEF Links, Taken
<1>5. Numbered(net'[n][p], f, peer[p][n])
  <2>1. Numbered(net[n][p], f, peer[p][n])
    BY <1>1, NumberedStays DEF NextSeq
  <2> QED
    BY <1>4, <2>1
<1>6. Numbered(net'[p][n], peer[p][n], f)
  <2>1. Numbered(Tail(net[p][n]), peer[p][n], f)
    BY <1>1, NumberedTakes
  <2> QED
    BY <1>4, <2>1
<1> QED
  BY <1>2, <1>4, <1>5, <1>6 DEF LinkDoes

\* The same if it answers with x.
LEMMA LinkAnswers ==
    ASSUME TypeOK, Apart, InSequence, NEW n \in live, NEW p \in Node, net[p][n] # <<>>,
           NEW f \in Peer, NEW x \in Message,
           x.seq = NextSeq(peer[n][p]),
           IF x.cmd = "HELLO" THEN x.seq \in {1, 2} ELSE peer[n][p].on,
           f.kind = "ready", f.sent = x.seq,
           IF Head(net[p][n]).cmd = "HELLO" THEN f.want \in {0, 1}
           ELSE f.want = Head(net[p][n]).seq,
           peer' = [peer EXCEPT ![n][p] = f],
           net' = [Taken(n, p) EXCEPT ![n][p] = Append(@, x)]
    PROVE  LinkDoes(n, p, f)
<1>0. n \in Node
  BY DEF TypeOK
<1>1. /\ net \in Links /\ net[p][n] \in Seq(Message) /\ net[n][p] \in Seq(Message)
      /\ peer[n][p] \in Peer /\ peer[p][n] \in Peer
      /\ Numbered(net[n][p], peer[n][p], peer[p][n])
      /\ Numbered(net[p][n], peer[p][n], peer[n][p])
  BY <1>0, LinkFacts
<1>2. n # p
  BY <1>0, LinkFacts
<1>3. Tail(net[p][n]) \in Seq(Message) /\ Append(net[n][p], x) \in Seq(Message)
  BY <1>1, HeadTailProperties, AppendProperties
<1>4. /\ net' \in Links /\ net'[n][p] = Append(net[n][p], x) /\ net'[p][n] = Tail(net[p][n])
      /\ \A a, b \in Node : <<a, b>> \notin {<<n, p>>, <<p, n>>} => net'[a][b] = net[a][b]
  BY <1>0, <1>1, <1>2, <1>3 DEF Links, Taken
<1>5. Numbered(net'[n][p], f, peer[p][n])
  <2>1. Numbered(Append(net[n][p], x), f, peer[p][n])
    BY <1>1, NumberedPosts
  <2> QED
    BY <1>4, <2>1
<1>6. Numbered(net'[p][n], peer[p][n], f)
  <2>1. Numbered(Tail(net[p][n]), peer[p][n], f)
    BY <1>1, NumberedTakes
  <2> QED
    BY <1>4, <2>1
<1> QED
  BY <1>2, <1>4, <1>5, <1>6 DEF LinkDoes

\* n is disconnected from p, after it took the head of net[p][n] or not.
LEMMA LinkCuts ==
    ASSUME TypeOK, Apart, InSequence, NEW n \in live, NEW p \in Node, n # p,
           NEW f \in Peer, f.on = FALSE, f.kind = "known",
           NEW q \in Written(net[n][p], p), NEW r \in Seq(Message),
           r = net[p][n] \/ (net[p][n] # <<>> /\ r = Tail(net[p][n])),
           peer' = [peer EXCEPT ![n][p] = f],
           net' = [net EXCEPT ![p][n] = r, ![n][p] = q]
    PROVE  LinkDoes(n, p, f)
<1>0. n \in Node
  BY DEF TypeOK
<1>1. /\ net \in Links /\ net[n][p] \in Seq(Message) /\ net[p][n] \in Seq(Message)
      /\ peer[n][p] \in Peer /\ peer[p][n] \in Peer
      /\ Numbered(net[n][p], peer[n][p], peer[p][n])
      /\ Numbered(net[p][n], peer[p][n], peer[n][p])
      /\ peer[p][n].kind = "pending" => peer[p][n].sent = 1 /\ peer[p][n].want = 0
  BY <1>0, LinkFacts
<1>2. q \in Seq(Message)
  BY <1>1, WrittenIs
<1>3. /\ net' \in Links /\ net'[n][p] = q /\ net'[p][n] = r
      /\ \A a, b \in Node : <<a, b>> \notin {<<n, p>>, <<p, n>>} => net'[a][b] = net[a][b]
  BY <1>0, <1>1, <1>2 DEF Links
<1>4. Numbered(q, f, peer[p][n])
  BY <1>1, NumberedCut
<1>5. Numbered(r, peer[p][n], f)
  <2>1. CASE r = net[p][n]
    BY <1>1, <2>1, NumberedStays
  <2>2. CASE net[p][n] # <<>> /\ r = Tail(net[p][n])
    BY <1>1, <2>2, NumberedTakes
  <2> QED
    BY <2>1, <2>2
<1> QED
  BY <1>3, <1>4, <1>5 DEF LinkDoes

-----------------------------------------------------------------------------
(* Every handler *)

LEMMA MessageIs ==
    ASSUME NEW e \in Peer, NEW cmd \in Commands
    PROVE  [cmd |-> cmd, seq |-> NextSeq(e)] \in Message
BY NextSeqIs DEF Message

LEMMA DialDoes ==
    ASSUME TypeOK, Apart, InSequence, NEW n \in Node, NEW p \in Node, Dial(n, p)
    PROVE  \E f : LinkDoes(n, p, f) /\ f.kind = "pending"
<1>0. PICK f, x : /\ f = [Stamped(NoPeer) EXCEPT !.kind = "pending", !.on = TRUE]
                  /\ x = [cmd |-> "HELLO", seq |-> NextSeq(NoPeer)]
  OBVIOUS
<1>1. /\ n \in live /\ n # p /\ peer[n][p].kind = "none"
      /\ peer' = [peer EXCEPT ![n][p] = f] /\ net' = [net EXCEPT ![n][p] = Append(@, x)]
  BY <1>0 DEF Dial, Set, Posted, Awake
<1>3. f \in Peer /\ f.kind = "pending" /\ f.sent = 1 /\ f.want = 0
  BY <1>0, GreetingIs
<1>4. x \in Message /\ x.cmd = "HELLO" /\ x.seq = 1
  BY <1>0, NoPeerFacts, MessageIs DEF Commands
<1>5. NextSeq(peer[n][p]) = 1
  BY <1>1, LinkFacts, NoPeerFacts
<1> QED
  BY <1>1, <1>3, <1>4, <1>5, LinkPosts

LEMMA AnnounceDoes ==
    ASSUME TypeOK, Apart, InSequence, NEW n \in Node, NEW p \in Node, Announce(n, p)
    PROVE  \E f : /\ LinkDoes(n, p, f)
                  /\ f.kind = IF InTable(n, p) THEN peer[n][p].kind ELSE "known"
                  /\ InTable(n, p) => f.on = peer[n][p].on
<1>1. /\ n \in live /\ n # p
      /\ peer[n][p] \in Peer /\ net \in Links
  BY LinkFacts DEF Announce, Awake
<1>2. 0 \in 0 .. Width - 1
  BY WidthAssumption
<1>3. CASE InTable(n, p)
  <2>1. PICK f : f = Refresh(peer[n][p])
    OBVIOUS
  <2>2. peer' = [peer EXCEPT ![n][p] = f] /\ net' = net
    BY <1>3, <2>1 DEF Announce, Set
  <2>3. /\ f \in Peer /\ f.kind = peer[n][p].kind /\ f.on = peer[n][p].on
        /\ f.sent = peer[n][p].sent /\ f.want = peer[n][p].want
    BY <1>1, <1>2, <2>1, EntryOperators
  <2>4. Numbered(net[n][p], f, peer[p][n]) /\ Numbered(net[p][n], peer[p][n], f)
    <3>1. /\ Numbered(net[n][p], peer[n][p], peer[p][n])
          /\ Numbered(net[p][n], peer[p][n], peer[n][p])
          /\ peer[p][n].kind = "pending" => peer[p][n].sent = 1 /\ peer[p][n].want = 0
      BY LinkFacts
    <3>2. NextSeq(f) = NextSeq(peer[n][p]) /\ f.kind # "pending"
      BY <1>3, <2>3 DEF NextSeq, InTable
    <3> QED
      BY <2>3, <3>1, <3>2, NumberedStays
  <2>5. LinkDoes(n, p, f)
    BY <1>1, <2>2, <2>3, <2>4 DEF LinkDoes
  <2> QED
    BY <1>3, <2>3, <2>5
<1>4. CASE ~InTable(n, p)
  <2>1. PICK f, x : /\ f = [Refresh(Stamped(peer[n][p])) EXCEPT !.kind = "known", !.on = TRUE]
                    /\ x = [cmd |-> "HELLO", seq |-> NextSeq(peer[n][p])]
    OBVIOUS
  <2>2. peer' = [peer EXCEPT ![n][p] = f] /\ net' = [net EXCEPT ![n][p] = Append(@, x)]
    BY <1>4, <2>1 DEF Announce, Set, Posted
  <2>3. f \in Peer /\ f.kind = "known" /\ f.sent = NextSeq(peer[n][p])
    <3>1. /\ Stamped(peer[n][p]) \in Peer /\ Stamped(peer[n][p]).sent = NextSeq(peer[n][p])
      BY <1>1, <1>2, EntryOperators
    <3>2. /\ Refresh(Stamped(peer[n][p])) \in Peer
          /\ Refresh(Stamped(peer[n][p])).sent = NextSeq(peer[n][p])
      BY <1>2, <3>1, EntryOperators
    <3> QED
      BY <2>1, <3>2, ConnectedIs
  <2>4. x \in Message /\ x.cmd = "HELLO" /\ x.seq = NextSeq(peer[n][p])
    BY <1>1, <2>1, MessageIs DEF Commands
  <2>5. x.seq \in {1, 2}
    <3>1. CASE peer[n][p].kind = "none"
      BY <2>4, <3>1, LinkFacts, NoPeerFacts
    <3>2. CASE peer[n][p].kind = "pending"
      <4>1. peer[n][p].sent = 1
        BY <3>2, LinkFacts
      <4> QED
        BY <1>1, <2>4, <4>1, NextSeqIs, WidthAssumption
    <3> QED
      BY <1>1, <1>4, <3>1, <3>2 DEF InTable, Peer
  <2>6. LinkDoes(n, p, f)
    BY <1>1, <2>2, <2>3, <2>4, <2>5, LinkPosts
  <2> QED
    BY <1>4, <2>3, <2>6
<1> QED
  BY <1>3, <1>4

LEMMA WhisperDoes ==
    ASSUME TypeOK, Apart, InSequence, NEW n \in Node, NEW p \in Node, Whisper(n, p)
    PROVE  \E f : LinkDoes(n, p, f) /\ f.kind = peer[n][p].kind /\ f.on = peer[n][p].on
<1>0. PICK f, x : /\ f = Stamped(peer[n][p])
                  /\ x = [cmd |-> "WHISPER", seq |-> NextSeq(peer[n][p])]
  OBVIOUS
<1>1. /\ n \in live /\ InTable(n, p) /\ peer[n][p].on /\ peer[n][p] \in Peer
      /\ peer' = [peer EXCEPT ![n][p] = f] /\ net' = [net EXCEPT ![n][p] = Append(@, x)]
  BY <1>0, LinkFacts DEF Whisper, Set, Posted, Awake
<1>2. n # p
  BY <1>1, LinkFacts, NoPeerFacts DEF InTable
<1>3. 0 \in 0 .. Width - 1
  BY WidthAssumption
<1>4. /\ f \in Peer /\ f.kind = peer[n][p].kind /\ f.sent = NextSeq(peer[n][p])
      /\ f.want = peer[n][p].want /\ f.on = peer[n][p].on
  BY <1>0, <1>1, <1>3, EntryOperators
<1>5. x \in Message /\ x.cmd = "WHISPER" /\ x.seq = NextSeq(peer[n][p])
  BY <1>0, <1>1, MessageIs DEF Commands
<1>6. LinkDoes(n, p, f)
  BY <1>1, <1>2, <1>4, <1>5, LinkPosts DEF InTable
<1> QED
  BY <1>4, <1>6

LEMMA WhisperCutDoes ==
    ASSUME TypeOK, Apart, InSequence, NEW n \in Node, NEW p \in Node, WhisperCut(n, p)
    PROVE  \E f : LinkDoes(n, p, f) /\ f.kind = "known" /\ f.on = FALSE
<1>0. PICK f : f = Cut(peer[n][p])
  OBVIOUS
<1>1. PICK q \in Written(net[n][p], p) : net' = [net EXCEPT ![n][p] = q]
  BY DEF WhisperCut
<1>2. /\ n \in live /\ InTable(n, p) /\ peer[n][p] \in Peer /\ net \in Links
      /\ peer' = [peer EXCEPT ![n][p] = f]
  BY <1>0, LinkFacts DEF WhisperCut, Set, Awake
<1>3. n # p
  BY <1>2, LinkFacts, NoPeerFacts DEF InTable
<1>4. f \in Peer /\ f.kind = "known" /\ f.on = FALSE
  <2>1. 0 \in 0 .. Width - 1
    BY WidthAssumption
  <2> QED
    BY <1>0, <1>2, <2>1, EntryOperators
<1>5. PICK r : r = net[p][n]
  OBVIOUS
<1>6. r \in Seq(Message) /\ net' = [net EXCEPT ![p][n] = r, ![n][p] = q]
  BY <1>1, <1>2, <1>3, <1>5 DEF Links
<1>7. LinkDoes(n, p, f)
  BY <1>1, <1>2, <1>3, <1>4, <1>5, <1>6, LinkCuts
<1> QED
  BY <1>4, <1>7

\* Everything that is taken is of another node, and has a number.
LEMMA TakeFacts ==
    ASSUME TypeOK, Apart, InSequence, NEW n \in Node, NEW p \in Node, NEW cmd, Taking(n, p, cmd)
    PROVE  /\ n \in live /\ net[p][n] # <<>> /\ n # p /\ peer[n][p] \in Peer
           /\ Head(net[p][n]).cmd = cmd /\ Head(net[p][n]).seq \in 0 .. Width - 1
<1>1. /\ n \in live /\ net[p][n] # <<>> /\ Head(net[p][n]).cmd = cmd
  BY DEF Taking, Awake
<1>2. n # p /\ peer[n][p] \in Peer /\ net[p][n] \in Seq(Message)
  BY <1>1, LinkFacts
<1>3. Head(net[p][n]) \in Message
  BY <1>1, <1>2, HeadTailProperties
<1> QED
  BY <1>1, <1>2, <1>3 DEF Message

LEMMA RecvHelloDoes ==
    ASSUME TypeOK, Apart, InSequence, NEW n \in Node, NEW p \in Node, RecvHello(n, p)
    PROVE  \E f : /\ LinkDoes(n, p, f) /\ f.kind = "ready"
                  /\ peer[n][p].kind = "ready" => f.on = peer[n][p].on
<1>1. /\ n \in live /\ net[p][n] # <<>> /\ n # p /\ peer[n][p] \in Peer
      /\ Head(net[p][n]).cmd = "HELLO"
  BY TakeFacts DEF RecvHello, Take
<1>2. 0 \in 0 .. Width - 1 /\ 1 \in 0..Width
  BY WidthAssumption
<1>3. PICK e : e = peer[n][p]
  OBVIOUS
<1>4. /\ Refresh(e) \in Peer /\ Refresh(e).kind = e.kind
      /\ Refresh(e).sent = e.sent /\ Refresh(e).want = e.want /\ Refresh(e).on = e.on
  BY <1>1, <1>2, <1>3, EntryOperators
<1>5. CASE e.kind = "ready"
  <2>1. PICK f : f = [Refresh(e) EXCEPT !.want = 1]
    OBVIOUS
  <2>2. peer' = [peer EXCEPT ![n][p] = f] /\ net' = Taken(n, p)
    BY <1>3, <1>5, <2>1 DEF RecvHello, Set
  <2>3. f \in Peer /\ f.kind = "ready" /\ f.sent = e.sent /\ f.on = e.on /\ f.want = 1
    BY <1>2, <1>4, <1>5, <2>1 DEF Peer
  <2>4. LinkDoes(n, p, f)
    BY <1>1, <1>3, <1>5, <2>2, <2>3, LinkTakes
  <2> QED
    BY <1>3, <2>3, <2>4
<1>6. CASE e.kind = "known"
  <2>1. PICK f : f = [e EXCEPT !.want = 1, !.kind = "ready"]
    OBVIOUS
  <2>2. peer' = [peer EXCEPT ![n][p] = f] /\ net' = Taken(n, p)
    BY <1>3, <1>6, <2>1 DEF RecvHello, Set
  <2>3. f \in Peer /\ f.kind = "ready" /\ f.sent = e.sent /\ f.on = e.on /\ f.want = 1
    <3> DEFINE d == [e EXCEPT !.want = 1]
    <3>1. d \in Peer /\ d.sent = e.sent /\ d.on = e.on /\ d.want = 1
      BY <1>1, <1>2, <1>3 DEF Peer
    <3>2. f = [d EXCEPT !.kind = "ready"]
      BY <2>1
    <3> HIDE DEF d
    <3> QED
      BY <3>1, <3>2 DEF Peer
  <2>4. LinkDoes(n, p, f)
    BY <1>1, <1>3, <1>6, <2>2, <2>3, LinkTakes
  <2> QED
    BY <1>3, <1>6, <2>3, <2>4
<1>7. CASE e.kind = "pending"
  <2>1. PICK f : f = [Refresh(e) EXCEPT !.kind = "ready"]
    OBVIOUS
  <2>2. peer' = [peer EXCEPT ![n][p] = f] /\ net' = Taken(n, p)
    BY <1>3, <1>7, <2>1 DEF RecvHello, Set
  <2>3. e.want = 0
    BY <1>3, <1>7, LinkFacts
  <2>4. f \in Peer /\ f.kind = "ready" /\ f.sent = e.sent /\ f.on = e.on /\ f.want = 0
    BY <1>4, <2>1, <2>3 DEF Peer
  <2>5. LinkDoes(n, p, f)
    BY <1>1, <1>3, <1>7, <2>2, <2>4, LinkTakes
  <2> QED
    BY <1>3, <1>7, <2>4, <2>5
<1>8. CASE e.kind = "none"
  <2>1. PICK f, x : /\ f = [Stamped(NoPeer) EXCEPT !.kind = "ready", !.on = TRUE]
                    /\ x = [cmd |-> "HELLO", seq |-> NextSeq(NoPeer)]
    OBVIOUS
  <2>2. /\ peer' = [peer EXCEPT ![n][p] = f]
        /\ net' = [Taken(n, p) EXCEPT ![n][p] = Append(@, x)]
    BY <1>3, <1>8, <2>1 DEF RecvHello, Set, Posted
  <2>3. f \in Peer /\ f.kind = "ready" /\ f.sent = 1 /\ f.want = 0
    BY <2>1, GreetingIs
  <2>4. x \in Message /\ x.cmd = "HELLO" /\ x.seq = 1 /\ NextSeq(peer[n][p]) = 1
    BY <1>3, <1>8, <2>1, LinkFacts, NoPeerFacts, MessageIs DEF Commands
  <2>5. LinkDoes(n, p, f)
    BY <1>1, <2>2, <2>3, <2>4, LinkAnswers
  <2> QED
    BY <1>3, <1>8, <2>3, <2>5
<1> QED
  BY <1>1, <1>3, <1>5, <1>6, <1>7, <1>8 DEF Peer

LEMMA RecvCheckedDoes ==
    ASSUME TypeOK, Apart, InSequence, NEW n \in Node, NEW p \in Node,
           RecvWhisper(n, p) \/ RecvPingOk(n, p)
    PROVE  \E f : LinkDoes(n, p, f) /\ f.kind = "ready" /\ f.on = peer[n][p].on
<1>1. PICK cmd \in {"WHISPER", "PING_OK"} : Take(n, p, cmd)
  BY DEF RecvWhisper, RecvPingOk
<1>2. /\ n \in live /\ net[p][n] # <<>> /\ peer[n][p] \in Peer
      /\ Head(net[p][n]).cmd # "HELLO" /\ Head(net[p][n]).seq \in 0 .. Width - 1
  BY <1>1, TakeFacts DEF Take
<1>3. PICK f : f = Checked(peer[n][p], Head(net[p][n]).seq)
  OBVIOUS
<1>4. peer[n][p].kind = "ready" /\ peer' = [peer EXCEPT ![n][p] = f] /\ net' = Taken(n, p)
  BY <1>3 DEF RecvWhisper, RecvPingOk, Set, Ready
<1>5. /\ f \in Peer /\ f.kind = "ready" /\ f.sent = peer[n][p].sent
      /\ f.want = Head(net[p][n]).seq /\ f.on = peer[n][p].on
  BY <1>2, <1>3, <1>4, EntryOperators
<1>6. LinkDoes(n, p, f)
  BY <1>2, <1>4, <1>5, LinkTakes
<1> QED
  BY <1>5, <1>6

LEMMA RecvPingDoes ==
    ASSUME TypeOK, Apart, InSequence, NEW n \in Node, NEW p \in Node, RecvPing(n, p)
    PROVE  \E f : LinkDoes(n, p, f) /\ f.kind = "ready" /\ f.on = peer[n][p].on
<1>1. /\ n \in live /\ net[p][n] # <<>> /\ peer[n][p] \in Peer
      /\ Head(net[p][n]).cmd = "PING" /\ Head(net[p][n]).seq \in 0 .. Width - 1
  BY TakeFacts DEF RecvPing, Take
<1>2. PICK c, f, x : /\ c = Checked(peer[n][p], Head(net[p][n]).seq) /\ f = Stamped(c)
                     /\ x = [cmd |-> "PING_OK", seq |-> NextSeq(c)]
  OBVIOUS
<1>3. peer[n][p].kind = "ready"
  BY DEF RecvPing, Ready
<1>4. /\ c \in Peer /\ c.kind = "ready" /\ c.sent = peer[n][p].sent
      /\ c.want = Head(net[p][n]).seq /\ c.on = peer[n][p].on
  BY <1>1, <1>2, <1>3, EntryOperators
<1>5. CASE c.on
  <2>1. /\ peer' = [peer EXCEPT ![n][p] = f]
        /\ net' = [Taken(n, p) EXCEPT ![n][p] = Append(@, x)]
    BY <1>2, <1>5 DEF RecvPing, Set, Posted
  <2>2. /\ f \in Peer /\ f.kind = "ready" /\ f.sent = NextSeq(c) /\ f.want = Head(net[p][n]).seq
        /\ f.on = c.on
    BY <1>1, <1>2, <1>4, EntryOperators
  <2>3. NextSeq(c) = NextSeq(peer[n][p])
    BY <1>4 DEF NextSeq
  <2>4. x \in Message /\ x.cmd = "PING_OK" /\ x.seq = NextSeq(peer[n][p])
    BY <1>2, <1>4, <2>3, MessageIs DEF Commands
  <2>5. LinkDoes(n, p, f)
    BY <1>1, <1>4, <1>5, <2>1, <2>2, <2>3, <2>4, LinkAnswers
  <2> QED
    BY <1>4, <2>2, <2>5
<1>6. CASE ~c.on
  <2>1. peer' = [peer EXCEPT ![n][p] = c] /\ net' = Taken(n, p)
    BY <1>2, <1>6 DEF RecvPing, Set
  <2>2. LinkDoes(n, p, c)
    BY <1>1, <1>4, <1>6, <2>1, LinkTakes
  <2> QED
    BY <1>4, <2>2
<1> QED
  BY <1>5, <1>6

LEMMA RecvPingCutDoes ==
    ASSUME TypeOK, Apart, InSequence, NEW n \in Node, NEW p \in Node, RecvPingCut(n, p)
    PROVE  \E f : LinkDoes(n, p, f) /\ f.kind = "known" /\ f.on = FALSE
<1>1. /\ n \in live /\ net[p][n] # <<>> /\ peer[n][p] \in Peer /\ n # p
      /\ Head(net[p][n]).seq \in 0 .. Width - 1
  BY TakeFacts DEF RecvPingCut
<1>2. PICK c, f : c = Checked(peer[n][p], Head(net[p][n]).seq) /\ f = Cut(c)
  OBVIOUS
<1>3. f \in Peer /\ f.kind = "known" /\ f.on = FALSE
  <2>1. c \in Peer
    BY <1>1, <1>2, EntryOperators
  <2> QED
    BY <1>1, <1>2, <2>1, EntryOperators
<1>4. PICK q \in Written(net[n][p], p) : net' = [Taken(n, p) EXCEPT ![n][p] = q]
  BY DEF RecvPingCut
<1>5. peer' = [peer EXCEPT ![n][p] = f]
  BY <1>2 DEF RecvPingCut, Set
<1>6. PICK r : r = Tail(net[p][n])
  OBVIOUS
<1>7. net \in Links /\ net[p][n] \in Seq(Message)
  BY LinkFacts
<1>8. r \in Seq(Message) /\ net' = [net EXCEPT ![p][n] = r, ![n][p] = q]
  <2>1. r \in Seq(Message)
    BY <1>1, <1>6, <1>7, HeadTailProperties
  <2> QED
    BY <1>4, <1>6, <1>7, <2>1 DEF Links, Taken
<1>9. LinkDoes(n, p, f)
  BY <1>1, <1>3, <1>4, <1>5, <1>6, <1>8, LinkCuts
<1> QED
  BY <1>3, <1>9

LEMMA RecvIgnoredDoes ==
    ASSUME TypeOK, Apart, InSequence, NEW n \in Node, NEW p \in Node, RecvIgnored(n, p)
    PROVE  LinkDoes(n, p, peer[n][p])
<1>1. /\ n \in live /\ net[p][n] # <<>> /\ peer[n][p] \in Peer
      /\ peer[n][p].kind # "ready" /\ peer' = peer /\ net' = Taken(n, p)
  BY TakeFacts DEF RecvIgnored, Take, Ready
<1>2. PICK f : f = peer[n][p]
  OBVIOUS
<1>3. peer' = [peer EXCEPT ![n][p] = f]
  BY <1>1, <1>2, LinkFacts
<1>4. LinkDoes(n, p, f)
  BY <1>1, <1>2, <1>3, LinkFacts, LinkTakes
<1> QED
  BY <1>2, <1>4

LEMMA RecvGoodbyeDoes ==
    ASSUME TypeOK, Apart, InSequence, NEW n \in Node, NEW p \in Node, RecvGoodbye(n, p)
    PROVE  LinkDoes(n, p, NoPeer)
<1>1. /\ n \in live /\ net[p][n] # <<>> /\ n # p
      /\ peer' = [peer EXCEPT ![n][p] = NoPeer] /\ net' = Shut(Taken(n, p), n, {p})
  BY TakeFacts DEF RecvGoodbye, Take, Set
<1>2. /\ net \in Links /\ net[p][n] \in Seq(Message) /\ net[n][p] \in Seq(Message)
      /\ peer[n][p] \in Peer /\ peer[p][n] \in Peer
      /\ Numbered(net[n][p], peer[n][p], peer[p][n])
      /\ Numbered(net[p][n], peer[p][n], peer[n][p])
  BY LinkFacts
<1>3. Tail(net[p][n]) \in Seq(Message) /\ <<>> \in Seq(Message)
  BY <1>1, <1>2, HeadTailProperties, EmptySeq
<1>4. Taken(n, p) \in Links /\ Taken(n, p)[p][n] = Tail(net[p][n])
      /\ \A a, b \in Node : <<a, b>> # <<p, n>> => Taken(n, p)[a][b] = net[a][b]
  BY <1>2, <1>3 DEF Links, Taken
<1>5. /\ net' \in Links /\ net'[p][n] = Tail(net[p][n])
      /\ net'[n][p] = IF p \in live THEN net[n][p] ELSE <<>>
      /\ \A a, b \in Node : <<a, b>> \notin {<<n, p>>, <<p, n>>} => net'[a][b] = net[a][b]
  BY <1>1, <1>3, <1>4 DEF Links, Shut
<1>6. Numbered(net'[n][p], NoPeer, peer[p][n])
  <2>1. CASE p \in live
    <3>1. Numbered(net[n][p], NoPeer, peer[p][n])
      BY <1>2, NumberedStays, NoPeerFacts
    <3> QED
      BY <1>5, <2>1, <3>1
  <2>2. CASE p \notin live
    <3>1. peer[p][n].kind # "ready"
      BY <2>2, NoPeerFacts DEF Apart
    <3>2. Numbered(<<>>, NoPeer, peer[p][n])
      BY <3>1, NumberedShut, NoPeerFacts
    <3> QED
      BY <1>5, <2>2, <3>2
  <2> QED
    BY <2>1, <2>2
<1>7. Numbered(net'[p][n], peer[p][n], NoPeer)
  <2>1. Numbered(Tail(net[p][n]), peer[p][n], NoPeer)
    BY <1>1, <1>2, NumberedTakes, NoPeerFacts
  <2> QED
    BY <1>5, <2>1
<1> QED
  BY <1>1, <1>5, <1>6, <1>7, NoPeerFacts DEF LinkDoes

-----------------------------------------------------------------------------
(* The connections are kept by every step *)

\* What is proved of peer and net together.
Linked ==
    /\ peer \in [Node -> [Node -> Peer]] /\ net \in Links
    /\ \A n \in Node : peer[n][n] = NoPeer
    /\ Apart
    /\ InSequence

\* It is proved of one pair of nodes after the other.
LEMMA LinkedNext ==
    ASSUME peer' \in [Node -> [Node -> Peer]], net' \in Links,
           \A n \in Node : peer'[n][n] = NoPeer /\ net'[n][n] = <<>>,
           \A n, p \in Node : peer'[n][p].kind = "none" \/ n \notin live' => peer'[n][p] = NoPeer,
           \A n, p \in Node : n # p => Numbered(net'[n][p], peer'[n][p], peer'[p][n])
    PROVE  Linked'
<1>1. Apart'
  BY DEF Apart
<1>2. ASSUME NEW p \in Node, NEW n \in Node PROVE Numbered(net'[p][n], peer'[p][n], peer'[n][p])
  <2>1. CASE p = n
    BY <2>1, NumberedShut, NoPeerFacts
  <2>2. CASE p # n
    BY <2>2
  <2> QED
    BY <2>1, <2>2
<1>3. InSequence'
  <2>1. \A p, n \in Node : Numbered(net'[p][n], peer'[p][n], peer'[n][p])
    BY <1>2
  <2> QED
    BY <2>1 DEF InSequence, Numbered, NextSeq
<1> QED
  BY <1>1, <1>3 DEF Linked

LEMMA LinkStep ==
    ASSUME TypeOK, Apart, InSequence, NEW n \in Node, NEW p \in Node, NEW f, LinkDoes(n, p, f),
           f.kind = "none" => f = NoPeer, live' = live
    PROVE  Linked'
<1>1. /\ n # p /\ n \in live /\ f \in Peer /\ peer' = [peer EXCEPT ![n][p] = f] /\ net' \in Links
      /\ \A a, b \in Node : <<a, b>> \notin {<<n, p>>, <<p, n>>} => net'[a][b] = net[a][b]
      /\ Numbered(net'[n][p], f, peer[p][n])
      /\ Numbered(net'[p][n], peer[p][n], f)
  BY DEF LinkDoes
<1>2. peer \in [Node -> [Node -> Peer]] /\ \A a \in Node : peer[a][a] = NoPeer
  BY DEF TypeOK
<1>3. /\ peer' \in [Node -> [Node -> Peer]]
      /\ peer'[n][p] = f /\ peer'[p][n] = peer[p][n]
      /\ \A a, b \in Node : <<a, b>> # <<n, p>> => peer'[a][b] = peer[a][b]
  BY <1>1, <1>2
<1>4. \A a \in Node : <<a, a>> \notin {<<n, p>>, <<p, n>>} /\ <<a, a>> # <<n, p>>
  BY <1>1
<1>5. \A a \in Node : peer'[a][a] = NoPeer /\ net'[a][a] = <<>>
  BY <1>1, <1>2, <1>3, <1>4, Zenon DEF Apart
<1>6. ASSUME NEW a \in Node, NEW b \in Node
      PROVE  peer'[a][b].kind = "none" \/ a \notin live' => peer'[a][b] = NoPeer
  <2>1. CASE <<a, b>> = <<n, p>>
    BY <1>1, <1>3, <2>1
  <2>2. CASE <<a, b>> # <<n, p>>
    <3>1. peer'[a][b] = peer[a][b]
      BY <1>3, <2>2, Zenon
    <3> QED
      BY <3>1 DEF Apart
  <2> QED
    BY <2>1, <2>2
<1>7. ASSUME NEW a \in Node, NEW b \in Node, a # b
      PROVE  Numbered(net'[a][b], peer'[a][b], peer'[b][a])
  <2>1. CASE a = n /\ b = p
    BY <1>1, <1>3, <2>1
  <2>2. CASE a = p /\ b = n
    BY <1>1, <1>3, <2>2
  <2>3. CASE ~(a = n /\ b = p) /\ ~(a = p /\ b = n)
    <3>1. <<a, b>> \notin {<<n, p>>, <<p, n>>} /\ <<a, b>> # <<n, p>> /\ <<b, a>> # <<n, p>>
      BY <2>3
    <3>2. net'[a][b] = net[a][b] /\ peer'[a][b] = peer[a][b] /\ peer'[b][a] = peer[b][a]
      BY <1>1, <1>3, <3>1, Zenon
    <3>3. Numbered(net[a][b], peer[a][b], peer[b][a])
      BY DEF InSequence
    <3> QED
      BY <3>2, <3>3
  <2> QED
    BY <2>1, <2>2, <2>3
<1> QED
  BY <1>1, <1>3, <1>5, <1>6, <1>7, LinkedNext

\* A pair of nodes whose connections nothing happens on.
LEMMA PairOf ==
    ASSUME TypeOK, Apart, InSequence, NEW n \in Node, NEW p \in Node,
           net'[n][p] = net[n][p], peer'[n][p] = peer[n][p], peer'[p][n] = peer[p][n]
    PROVE  Numbered(net'[n][p], peer'[n][p], peer'[p][n])
BY LinkFacts

LEMMA BootLinks ==
    ASSUME TypeOK, Apart, InSequence, NEW n \in Node, Boot(n)
    PROVE  Linked'
<1>1. peer' = peer /\ net' = net /\ live' = live \cup {n}
  BY DEF Boot
<1>2. /\ peer \in [Node -> [Node -> Peer]] /\ net \in Links
      /\ \A a \in Node : peer[a][a] = NoPeer /\ net[a][a] = <<>>
  BY LinkFacts DEF TypeOK, Links, Message
<1>3. \A a, b \in Node : peer'[a][b].kind = "none" \/ a \notin live' => peer'[a][b] = NoPeer
  BY <1>1 DEF Apart
<1>4. \A a, b \in Node : a # b => Numbered(net'[a][b], peer'[a][b], peer'[b][a])
  BY <1>1, PairOf
<1> QED
  BY <1>1, <1>2, <1>3, <1>4, LinkedNext

LEMMA OlderIs ==
    ASSUME NEW limit \in Nat, NEW age \in 0..limit
    PROVE  Older(age, limit) \in 0..limit
BY DEF Older

\* What a tick makes of an entry.
LEMMA TickEntry ==
    ASSUME NEW e \in Peer
    PROVE  LET f == [e EXCEPT !.evasive = Older(@, EV + 1), !.expired = Older(@, EX + 1)]
           IN  f \in Peer /\ f.kind = e.kind /\ f.on = e.on /\ f.sent = e.sent /\ f.want = e.want
<1>1. EV + 1 \in Nat /\ EX + 1 \in Nat
  BY TimeAssumption
<1>2. Older(e.evasive, EV + 1) \in 0 .. EV + 1 /\ Older(e.expired, EX + 1) \in 0 .. EX + 1
  BY <1>1, OlderIs DEF Peer
<1> DEFINE d == [e EXCEPT !.evasive = Older(@, EV + 1)]
           f == [e EXCEPT !.evasive = Older(@, EV + 1), !.expired = Older(@, EX + 1)]
<1>3. /\ d \in Peer /\ d.kind = e.kind /\ d.on = e.on /\ d.sent = e.sent /\ d.want = e.want
      /\ d.expired = e.expired
  BY <1>2 DEF Peer
<1>4. f = [d EXCEPT !.expired = Older(e.expired, EX + 1)]
  BY DEF Peer
<1> HIDE DEF d
<1>5. f \in Peer /\ f.kind = e.kind /\ f.on = e.on /\ f.sent = e.sent /\ f.want = e.want
  BY <1>2, <1>3, <1>4 DEF Peer
<1> QED
  BY <1>5

LEMMA TickLinks ==
    ASSUME TypeOK, Apart, InSequence, NEW S, Tick(S)
    PROVE  Linked'
<1>1. net' = net /\ live' = live
  BY DEF Tick
<1>2. /\ peer \in [Node -> [Node -> Peer]] /\ net \in Links
      /\ \A a \in Node : peer[a][a] = NoPeer /\ net[a][a] = <<>>
  BY LinkFacts DEF TypeOK, Links, Message
<1>3. ASSUME NEW a \in Node, NEW b \in Node
      PROVE  /\ peer'[a][b] \in Peer /\ peer'[a][b].kind = peer[a][b].kind
             /\ peer'[a][b].on = peer[a][b].on
             /\ peer'[a][b].sent = peer[a][b].sent /\ peer'[a][b].want = peer[a][b].want
             /\ peer[a][b].kind = "none" => peer'[a][b] = NoPeer
  <2>1. peer'[a][b] = IF peer[a][b].kind = "none" THEN NoPeer
                      ELSE [peer[a][b] EXCEPT !.evasive = Older(@, EV + 1),
                                              !.expired = Older(@, EX + 1)]
    BY DEF Tick
  <2>2. CASE peer[a][b].kind = "none"
    BY <2>1, <2>2, LinkFacts, NoPeerFacts
  <2>3. CASE peer[a][b].kind # "none"
    <3>1. PICK e, f : /\ e = peer[a][b]
                      /\ f = [e EXCEPT !.evasive = Older(@, EV + 1),
                                       !.expired = Older(@, EX + 1)]
      OBVIOUS
    <3>2. e \in Peer
      BY <1>2, <3>1
    <3>3. f \in Peer /\ f.kind = e.kind /\ f.on = e.on /\ f.sent = e.sent /\ f.want = e.want
      BY <3>1, <3>2, TickEntry
    <3>4. peer'[a][b] = f
      BY <2>1, <2>3, <3>1
    <3> QED
      BY <2>3, <3>1, <3>3, <3>4
  <2> QED
    BY <2>2, <2>3
<1>4. peer' \in [Node -> [Node -> Peer]]
  <2>1. PICK g : g = [n \in Node |-> [p \in Node |->
           IF peer[n][p].kind = "none" THEN NoPeer
           ELSE [peer[n][p] EXCEPT !.evasive = Older(@, EV + 1),
                                   !.expired = Older(@, EX + 1)]]]
    OBVIOUS
  <2>2. peer' = g
    BY <2>1 DEF Tick
  <2>3. \A a, b \in Node : g[a][b] \in Peer
    BY <1>3, <2>2
  <2>4. g \in [Node -> [Node -> Peer]]
    BY <2>1, <2>3
  <2> QED
    BY <2>2, <2>4
<1>5. \A a \in Node : peer'[a][a] = NoPeer /\ net'[a][a] = <<>>
  BY <1>1, <1>2, <1>3, NoPeerFacts
<1>6. \A a, b \in Node : peer'[a][b].kind = "none" \/ a \notin live' => peer'[a][b] = NoPeer
  BY <1>1, <1>3, NoPeerFacts DEF Apart
<1>7. ASSUME NEW a \in Node, NEW b \in Node
      PROVE  Numbered(net'[a][b], peer'[a][b], peer'[b][a])
  <2>1. Numbered(net[a][b], peer[a][b], peer[b][a])
    BY LinkFacts
  <2>2. NextSeq(peer'[a][b]) = NextSeq(peer[a][b])
    BY <1>3 DEF NextSeq
  <2>3. peer[a][b].kind = "pending" => peer[a][b].sent = 1 /\ peer[a][b].want = 0
    BY LinkFacts
  <2>4. Numbered(net[a][b], peer'[a][b], peer'[b][a])
    BY <1>3, <2>1, <2>2, <2>3, NumberedStays
  <2> QED
    BY <1>1, <2>4
<1> QED
  BY <1>1, <1>2, <1>4, <1>5, <1>6, <1>7, LinkedNext

\* What _reap makes of a link, and of the entry at its end: of a peer that is overdue,
\* of one that is quiet and probed, has no connection, or is disconnected, and of others.
Removed(n, p) ==
    /\ p \in Overdue(n) /\ p # n /\ peer'[n][p] = NoPeer
    /\ net'[n][p] = IF p \in live THEN net[n][p] ELSE <<>>

Pinged(n, p) ==
    /\ p \in Quiet(n) /\ p # n /\ InTable(n, p) /\ peer'[n][p] = Probed(peer[n][p])
    /\ IF peer[n][p].on
       THEN net'[n][p] = Append(net[n][p], [cmd |-> "PING", seq |-> NextSeq(peer[n][p])])
       ELSE net'[n][p] = net[n][p]

Jammed(n, p) ==
    /\ p \in Quiet(n) /\ p # n /\ InTable(n, p) /\ Charge("jam")
    /\ peer'[n][p] = [Cut(peer[n][p]) EXCEPT !.evasive = 0]
    /\ net'[n][p] \in Written(net[n][p], p)

Untouched(n, p) ==
    /\ p \notin Overdue(n) \cup Quiet(n)
    /\ peer'[n][p] = peer[n][p] /\ net'[n][p] = net[n][p]

LEMMA CutIs ==
    ASSUME NEW e \in Peer
    PROVE  LET f == [Cut(e) EXCEPT !.evasive = 0]
           IN  f \in Peer /\ f.kind = "known" /\ f.on = FALSE
<1>1. PICK d : d = Cut(e)
  OBVIOUS
<1>2. 0 \in 0 .. Width - 1 /\ EV + 1 \in Nat
  BY WidthAssumption, TimeAssumption
<1>3. d \in Peer /\ d.kind = "known" /\ d.on = FALSE
  BY <1>1, <1>2, EntryOperators
<1>4. [d EXCEPT !.evasive = 0] \in Peer /\ [d EXCEPT !.evasive = 0].kind = "known"
      /\ [d EXCEPT !.evasive = 0].on = FALSE
  BY <1>2, <1>3 DEF Peer
<1> QED
  BY <1>1, <1>4

LEMMA JamsAre ==
    ASSUME NEW n \in Node, NEW left \in Jams(n)
    PROVE  /\ DOMAIN left \subseteq Quiet(n)
           /\ \A p \in DOMAIN left : CanJam(n, p) /\ left[p] \in Written(net[n][p], p)
<1>1. PICK J \in SUBSET {p \in Quiet(n) : CanJam(n, p)} :
         /\ left \in [J -> UNION {Written(net[n][p], p) : p \in J}]
         /\ \A p \in J : left[p] \in Written(net[n][p], p)
  BY DEF Jams
<1>2. DOMAIN left = J
  BY <1>1
<1> QED
  BY <1>1, <1>2

LEMMA ReapDoes ==
    ASSUME TypeOK, Apart, InSequence, NEW n \in Node, Reap(n)
    PROVE  /\ n \in live /\ live' = live
           /\ spent' = spent \/ Charge("jam")
           /\ peer' \in [Node -> [Node -> Peer]] /\ net' \in Links
           /\ \A a, b \in Node : a # n => peer'[a][b] = peer[a][b] /\ net'[a][b] = net[a][b]
           /\ \A p \in Node : Removed(n, p) \/ Pinged(n, p) \/ Jammed(n, p) \/ Untouched(n, p)
<1>1. n \in live /\ live' = live
  BY DEF Reap, Awake
<1>2. /\ peer \in [Node -> [Node -> Peer]] /\ net \in Links
      /\ \A a \in Node : peer[a][a] = NoPeer
  BY LinkFacts DEF TypeOK, Links, Message
<1>3. PICK O, Q : O = Overdue(n) /\ Q = Quiet(n)
  OBVIOUS
<1>a. PICK left \in Jams(n) :
          /\ IF DOMAIN left = {} THEN spent' = spent ELSE Charge("jam")
          /\ peer' = [peer EXCEPT ![n] = [p \in Node |->
                 IF p \in O THEN NoPeer
                 ELSE IF p \in DOMAIN left THEN [Cut(@[p]) EXCEPT !.evasive = 0]
                 ELSE IF p \in Q THEN Probed(@[p]) ELSE @[p]]]
          /\ net' = [Shut(net, n, O) EXCEPT ![n] = [p \in Node |->
                 IF p \in DOMAIN left THEN left[p]
                 ELSE IF p \in Q /\ peer[n][p].on
                 THEN Append(@[p], [cmd |-> "PING", seq |-> NextSeq(peer[n][p])])
                 ELSE @[p]]]
  BY <1>3 DEF Reap
<1>b. PICK D : D = DOMAIN left
  OBVIOUS
<1>c. D \subseteq Q /\ \A p \in D : left[p] \in Written(net[n][p], p)
  BY <1>3, <1>b, JamsAre
<1>4. O \subseteq Node /\ Q \subseteq Node /\ O \cap Q = {} /\ \A p \in Q : InTable(n, p)
  BY <1>3 DEF Overdue, Quiet
<1>5. n \notin O \cup Q
  BY <1>2, <1>3, NoPeerFacts DEF Overdue, Quiet, InTable
<1>6. PICK G : G = [p \in Node |->
           IF p \in O THEN NoPeer
           ELSE IF p \in D THEN [Cut(peer[n][p]) EXCEPT !.evasive = 0]
           ELSE IF p \in Q THEN Probed(peer[n][p]) ELSE peer[n][p]]
  OBVIOUS
<1>7. peer' = [peer EXCEPT ![n] = G]
  BY <1>2, <1>a, <1>b, <1>6
<1>8. G \in [Node -> Peer]
  <2>1. 0 \in 0 .. Width - 1
    BY WidthAssumption
  <2>2. ASSUME NEW p \in Node PROVE G[p] \in Peer
    <3>1. peer[n][p] \in Peer
      BY <1>2
    <3>2. NoPeer \in Peer /\ Probed(peer[n][p]) \in Peer /\ [Cut(peer[n][p]) EXCEPT !.evasive = 0] \in Peer
      BY <2>1, <3>1, NoPeerFacts, EntryOperators, CutIs
    <3> QED
      BY <1>6, <3>1, <3>2
  <2> QED
    BY <1>6, <2>2
<1>9. PICK P : P = [p \in Node |-> [cmd |-> "PING", seq |-> NextSeq(peer[n][p])]]
  OBVIOUS
<1>10. \A p \in Node : P[p] \in Message
  BY <1>2, <1>9, MessageIs DEF Commands
<1>11. PICK H : H = [p \in Node |-> IF p \in O \ live THEN <<>> ELSE net[n][p]]
  OBVIOUS
<1>12. Shut(net, n, O) = [net EXCEPT ![n] = H]
  BY <1>2, <1>11 DEF Shut, Links
<1>13. PICK J : J = [p \in Node |-> IF p \in D THEN left[p]
                                    ELSE IF p \in Q /\ peer[n][p].on THEN Append(H[p], P[p])
                                    ELSE H[p]]
  OBVIOUS
<1>14. net' = [net EXCEPT ![n] = J]
  <2>1. net' = [Shut(net, n, O) EXCEPT ![n] = [p \in Node |->
           IF p \in D THEN left[p]
           ELSE IF p \in Q /\ peer[n][p].on
           THEN Append(@[p], [cmd |-> "PING", seq |-> NextSeq(peer[n][p])])
           ELSE @[p]]]
    BY <1>a, <1>b
  <2>2. net' = [[net EXCEPT ![n] = H] EXCEPT ![n] = J]
    BY <1>2, <1>9, <1>12, <1>13, <2>1 DEF Links
  <2> QED
    BY <1>2, <2>2 DEF Links
<1>15. H \in [Node -> Seq(Message)]
  <2>1. <<>> \in Seq(Message)
    BY EmptySeq
  <2> QED
    BY <1>2, <1>11, <2>1 DEF Links
<1>16. J \in [Node -> Seq(Message)]
  <2>1. ASSUME NEW p \in Node PROVE J[p] \in Seq(Message)
    <3>1. H[p] \in Seq(Message) /\ Append(H[p], P[p]) \in Seq(Message)
      BY <1>10, <1>15, AppendProperties
    <3>2. p \in D => left[p] \in Seq(Message)
      <4>1. net[n][p] \in Seq(Message)
        BY <1>2 DEF Links
      <4> QED
        BY <1>c, <4>1, WrittenIs
    <3> QED
      BY <1>13, <3>1, <3>2
  <2> QED
    BY <1>13, <2>1
<1>17. peer' \in [Node -> [Node -> Peer]] /\ net' \in Links
  BY <1>2, <1>7, <1>8, <1>14, <1>16 DEF Links
<1>18. \A a, b \in Node : a # n => peer'[a][b] = peer[a][b] /\ net'[a][b] = net[a][b]
  BY <1>2, <1>7, <1>14 DEF Links
<1>19. \A p \in Node : peer'[n][p] = G[p] /\ net'[n][p] = J[p]
  BY <1>2, <1>7, <1>14 DEF Links
<1>20. ASSUME NEW p \in Node, p \in O
       PROVE  Removed(n, p)
  <2>1. p # n /\ p \notin Q /\ p \notin D
    BY <1>4, <1>5, <1>c, <1>20
  <2>2. G[p] = NoPeer /\ J[p] = IF p \in live THEN net[n][p] ELSE <<>>
    BY <1>6, <1>11, <1>13, <1>20, <2>1
  <2> QED
    BY <1>3, <1>19, <1>20, <2>1, <2>2 DEF Removed
<1>21. ASSUME NEW p \in Node, p \in Q, p \notin D
       PROVE  Pinged(n, p)
  <2>1. p \notin O /\ p # n /\ InTable(n, p)
    BY <1>4, <1>5, <1>21
  <2>2. G[p] = Probed(peer[n][p]) /\ H[p] = net[n][p]
    BY <1>6, <1>11, <1>21, <2>1
  <2>3. J[p] = IF peer[n][p].on THEN Append(net[n][p], P[p]) ELSE net[n][p]
    BY <1>13, <1>21, <2>2
  <2> QED
    BY <1>3, <1>9, <1>19, <1>21, <2>1, <2>2, <2>3 DEF Pinged
<1>22. ASSUME NEW p \in Node, p \in D
       PROVE  Jammed(n, p)
  <2>1. p \in Q /\ p \notin O /\ p # n /\ InTable(n, p)
    BY <1>4, <1>5, <1>c, <1>22
  <2>2. G[p] = [Cut(peer[n][p]) EXCEPT !.evasive = 0] /\ J[p] = left[p]
    BY <1>6, <1>13, <1>22, <2>1
  <2>3. Charge("jam")
    BY <1>a, <1>b, <1>22
  <2> QED
    BY <1>3, <1>19, <1>c, <1>22, <2>1, <2>2, <2>3 DEF Jammed
<1>23. ASSUME NEW p \in Node, p \notin O \cup Q
       PROVE  Untouched(n, p)
  <2>1. p \notin D
    BY <1>c, <1>23
  <2>2. G[p] = peer[n][p] /\ J[p] = net[n][p]
    BY <1>6, <1>11, <1>13, <1>23, <2>1
  <2> QED
    BY <1>3, <1>19, <1>23, <2>2 DEF Untouched
<1>24. spent' = spent \/ Charge("jam")
  BY <1>a
<1>25. \A p \in Node : Removed(n, p) \/ Pinged(n, p) \/ Jammed(n, p) \/ Untouched(n, p)
  BY <1>20, <1>21, <1>22, <1>23
<1> QED
  BY <1>1, <1>17, <1>18, <1>24, <1>25

LEMMA ReapLinks ==
    ASSUME TypeOK, Apart, InSequence, NEW n \in Node, Reap(n)
    PROVE  Linked'
<1>1. /\ n \in live /\ live' = live
      /\ peer' \in [Node -> [Node -> Peer]] /\ net' \in Links
      /\ \A a, b \in Node : a # n => peer'[a][b] = peer[a][b] /\ net'[a][b] = net[a][b]
  BY ReapDoes
<1>2. ASSUME NEW p \in Node
      PROVE  Removed(n, p) \/ Pinged(n, p) \/ Jammed(n, p) \/ Untouched(n, p)
  BY ReapDoes
<1>3. ASSUME NEW p \in Node, p # n
      PROVE  /\ Numbered(net'[n][p], peer'[n][p], peer[p][n])
             /\ Numbered(net'[p][n], peer[p][n], peer'[n][p])
             /\ peer'[n][p].kind = "none" => peer'[n][p] = NoPeer
  <2>1. /\ net[n][p] \in Seq(Message) /\ peer[n][p] \in Peer /\ peer[p][n] \in Peer
        /\ Numbered(net[n][p], peer[n][p], peer[p][n])
        /\ Numbered(net[p][n], peer[p][n], peer[n][p])
        /\ peer[n][p].kind = "none" => peer[n][p] = NoPeer
        /\ peer[p][n].kind = "pending" => peer[p][n].sent = 1 /\ peer[p][n].want = 0
        /\ net'[p][n] = net[p][n]
    BY <1>1, <1>3, LinkFacts
  <2>2. CASE Removed(n, p)
    <3>1. Numbered(net[n][p], NoPeer, peer[p][n]) /\ Numbered(net[p][n], peer[p][n], NoPeer)
      BY <2>1, NumberedStays, NoPeerFacts
    <3>2. p \notin live => Numbered(<<>>, NoPeer, peer[p][n])
      BY NumberedShut, NoPeerFacts DEF Apart
    <3> QED
      BY <2>1, <2>2, <3>1, <3>2 DEF Removed
  <2>3. CASE Pinged(n, p)
    <3>1. PICK x, f : /\ x = [cmd |-> "PING", seq |-> NextSeq(peer[n][p])]
                      /\ f = Probed(peer[n][p])
      OBVIOUS
    <3>2. x \in Message /\ x.seq = NextSeq(peer[n][p]) /\ x.cmd = "PING"
      BY <2>1, <3>1, MessageIs DEF Commands
    <3>3. 0 \in 0 .. Width - 1
      BY WidthAssumption
    <3>4. /\ f \in Peer /\ f.kind = peer[n][p].kind /\ f.on = peer[n][p].on
          /\ f.sent = (IF peer[n][p].on THEN x.seq ELSE peer[n][p].sent) /\ f.want = peer[n][p].want
      BY <2>1, <3>1, <3>2, <3>3, EntryOperators
    <3>5. f.kind \in {"known", "ready"} /\ peer'[n][p] = f
      BY <2>3, <3>1, <3>4 DEF InTable, Pinged
    <3>6. Numbered(net'[n][p], f, peer[p][n])
      <4>1. CASE peer[n][p].on
        <5>1. Numbered(Append(net[n][p], x), f, peer[p][n])
          BY <2>1, <3>2, <3>4, <3>5, <4>1, NumberedPosts
        <5> QED
          BY <2>3, <3>1, <4>1, <5>1 DEF Pinged
      <4>2. CASE ~peer[n][p].on
        <5>1. Numbered(net[n][p], f, peer[p][n])
          BY <2>1, <3>4, <3>5, <4>2, NumberedStays
        <5> QED
          BY <2>3, <4>2, <5>1 DEF Pinged
      <4> QED
        BY <4>1, <4>2
    <3>7. Numbered(net[p][n], peer[p][n], f)
      BY <2>1, <3>4, NumberedStays
    <3> QED
      BY <2>1, <3>5, <3>6, <3>7
  <2>4. CASE Jammed(n, p)
    <3>1. PICK f : f = [Cut(peer[n][p]) EXCEPT !.evasive = 0]
      OBVIOUS
    <3>2. f.kind = "known" /\ f.on = FALSE
      BY <2>1, <3>1, CutIs
    <3>3. peer'[n][p] = f /\ net'[n][p] \in Written(net[n][p], p)
      BY <2>4, <3>1 DEF Jammed
    <3>4. Numbered(net'[n][p], f, peer[p][n])
      BY <2>1, <3>2, <3>3, NumberedCut
    <3>5. Numbered(net[p][n], peer[p][n], f)
      BY <2>1, <3>2, NumberedStays
    <3> QED
      BY <2>1, <3>2, <3>3, <3>4, <3>5
  <2>5. CASE Untouched(n, p)
    BY <2>1, <2>5 DEF Untouched
  <2> QED
    BY <1>2, <2>2, <2>3, <2>4, <2>5
<1>4. peer'[n][n] = peer[n][n] /\ net'[n][n] = net[n][n]
  BY <1>2 DEF Removed, Pinged, Jammed, Untouched
<1>5. \A a \in Node : peer'[a][a] = NoPeer /\ net'[a][a] = <<>>
  BY <1>1, <1>4, LinkFacts
<1>6. ASSUME NEW a \in Node, NEW b \in Node
      PROVE  peer'[a][b].kind = "none" \/ a \notin live' => peer'[a][b] = NoPeer
  <2>1. CASE a # n
    BY <1>1, <2>1 DEF Apart
  <2>2. CASE a = n
    BY <1>1, <1>3, <1>5, <2>2
  <2> QED
    BY <2>1, <2>2
<1>7. ASSUME NEW a \in Node, NEW b \in Node, a # b
      PROVE  Numbered(net'[a][b], peer'[a][b], peer'[b][a])
  <2>1. CASE a # n /\ b # n
    BY <1>1, <2>1, LinkFacts
  <2>2. CASE a = n
    BY <1>1, <1>3, <1>7, <2>2
  <2>3. CASE b = n
    BY <1>1, <1>3, <1>7, <2>3
  <2> QED
    BY <2>1, <2>2, <2>3
<1> QED
  BY <1>1, <1>5, <1>6, <1>7, LinkedNext

LEMMA DepartLinks ==
    ASSUME TypeOK, Apart, InSequence, NEW n \in Node, Depart(n)
    PROVE  Linked'
<1>1. /\ peer \in [Node -> [Node -> Peer]] /\ net \in Links
      /\ \A a \in Node : peer[a][a] = NoPeer
  BY LinkFacts DEF TypeOK, Links, Message
<1>2. live' = live \ {n} /\ peer' = [peer EXCEPT ![n] = [p \in Node |-> NoPeer]]
  BY DEF Depart
<1>3. /\ peer' \in [Node -> [Node -> Peer]]
      /\ \A a, b \in Node : peer'[a][b] = IF a = n THEN NoPeer ELSE peer[a][b]
  BY <1>1, <1>2, NoPeerFacts
<1>4. PICK lost : lost = [p \in Node |-> [Shut(net, n, Node)[p] EXCEPT ![n] = <<>>]]
  OBVIOUS
<1>5. ASSUME NEW a \in Node, NEW b \in Node
      PROVE  lost[a][b] = IF b = n \/ (a = n /\ b \notin live) THEN <<>> ELSE net[a][b]
  <2>1. PICK T : T = Shut(net, n, Node)
    OBVIOUS
  <2>2. T \in [Node -> [Node -> Seq(Message)]]
    <3>1. <<>> \in Seq(Message)
      BY EmptySeq
    <3> QED
      BY <1>1, <2>1, <3>1 DEF Shut, Links
  <2>3. T[a][b] = IF a = n /\ b \notin live THEN <<>> ELSE net[a][b]
    BY <1>1, <2>1 DEF Shut, Links
  <2>4. lost[a] = [T[a] EXCEPT ![n] = <<>>]
    BY <1>4, <2>1
  <2> QED
    BY <2>2, <2>3, <2>4
<1>6. lost \in Links
  <2>1. Shut(net, n, Node) \in Links /\ <<>> \in Seq(Message)
    <3>1. <<>> \in Seq(Message)
      BY EmptySeq
    <3> QED
      BY <1>1, <3>1 DEF Shut, Links
  <2> QED
    BY <1>4, <2>1 DEF Links
<1>7. PICK B : B = [p \in Node |-> [cmd |-> "GOODBYE", seq |-> NextSeq(peer[n][p])]]
  OBVIOUS
<1>8. \A p \in Node : B[p] \in Message /\ B[p].cmd = "GOODBYE" /\ B[p].seq = NextSeq(peer[n][p])
  BY <1>1, <1>7, MessageIs DEF Commands
\* The queues to n are gone, and those of n to nodes that do not run; to the others
\* of its table a GOODBYE is sent, or not.
<1>9. /\ net' \in Links
      /\ \A a, b \in Node : a # n => net'[a][b] = IF b = n THEN <<>> ELSE net[a][b]
      /\ net'[n][n] = <<>>
      /\ \A p \in Node : p # n =>
            \/ p \notin live /\ net'[n][p] = <<>>
            \/ p \in live /\ net'[n][p] = net[n][p]
            \/ p \in live /\ peer[n][p].on /\ net'[n][p] = Append(net[n][p], B[p])
  <2>1. CASE net' = lost
    BY <1>5, <1>6, <2>1
  <2>2. CASE net' = [lost EXCEPT ![n] = [p \in Node |->
                  IF InTable(n, p) /\ peer[n][p].on /\ p \in live
                  THEN Append(@[p], [cmd |-> "GOODBYE", seq |-> NextSeq(peer[n][p])])
                  ELSE @[p]]]
    <3>1. PICK J : J = [p \in Node |-> IF InTable(n, p) /\ peer[n][p].on /\ p \in live
                                       THEN Append(lost[n][p], B[p]) ELSE lost[n][p]]
      OBVIOUS
    <3>2. net' = [lost EXCEPT ![n] = J]
      BY <1>6, <1>7, <2>2, <3>1 DEF Links
    <3>3. \A p \in Node : Append(lost[n][p], B[p]) \in Seq(Message)
      BY <1>6, <1>8, AppendProperties DEF Links
    <3>4. J \in [Node -> Seq(Message)]
      BY <1>6, <3>1, <3>3 DEF Links
    <3>5. net' \in Links /\ \A p \in Node : net'[n][p] = J[p]
      BY <1>6, <3>2, <3>4 DEF Links
    <3>6. \A a, b \in Node : a # n => net'[a][b] = lost[a][b]
      BY <1>6, <3>2 DEF Links
    <3>7. ~InTable(n, n)
      BY <1>1, NoPeerFacts DEF InTable
    <3>8. net'[n][n] = <<>>
      BY <1>5, <3>1, <3>5, <3>7
    <3>9. ASSUME NEW p \in Node, p # n
          PROVE  \/ p \notin live /\ net'[n][p] = <<>>
                 \/ p \in live /\ net'[n][p] = net[n][p]
                 \/ p \in live /\ peer[n][p].on /\ net'[n][p] = Append(net[n][p], B[p])
      BY <1>5, <3>1, <3>5, <3>9
    <3> QED
      BY <1>5, <3>5, <3>6, <3>8, <3>9
  <2> QED
    BY <1>4, <2>1, <2>2 DEF Depart
<1>10. ASSUME NEW p \in Node, p # n
       PROVE  Numbered(net'[n][p], NoPeer, peer[p][n]) /\ Numbered(net'[p][n], peer[p][n], NoPeer)
  <2>1. /\ net[n][p] \in Seq(Message) /\ peer[n][p] \in Peer
        /\ Numbered(net[n][p], peer[n][p], peer[p][n])
        /\ peer[p][n].kind = "pending" => peer[p][n].sent = 1 /\ peer[p][n].want = 0
    BY LinkFacts
  <2>2. Numbered(net'[p][n], peer[p][n], NoPeer)
    BY <1>9, <1>10, <2>1, NumberedShut, NoPeerFacts
  <2>3. Numbered(net[n][p], NoPeer, peer[p][n])
    BY <2>1, NumberedStays, NoPeerFacts
  <2>4. peer[n][p].on => Numbered(Append(net[n][p], B[p]), NoPeer, peer[p][n])
    <3>1. B[p] \in Message /\ B[p].cmd = "GOODBYE" /\ B[p].seq = NextSeq(peer[n][p])
      BY <1>8
    <3> QED
      BY <2>1, <3>1, NumberedPosts, NoPeerFacts
  <2>5. p \notin live => Numbered(<<>>, NoPeer, peer[p][n])
    BY NumberedShut, NoPeerFacts DEF Apart
  <2> QED
    BY <1>9, <1>10, <2>2, <2>3, <2>4, <2>5
<1>11. \A a \in Node : peer'[a][a] = NoPeer /\ net'[a][a] = <<>>
  <2>1. \A a \in Node : net[a][a] = <<>>
    BY DEF Apart
  <2> QED
    BY <1>1, <1>3, <1>9, <2>1
<1>12. \A a, b \in Node : peer'[a][b].kind = "none" \/ a \notin live' => peer'[a][b] = NoPeer
  BY <1>2, <1>3 DEF Apart
<1>13. ASSUME NEW a \in Node, NEW b \in Node, a # b
       PROVE  Numbered(net'[a][b], peer'[a][b], peer'[b][a])
  <2>1. CASE a # n /\ b # n
    <3>1. peer'[a][b] = peer[a][b] /\ peer'[b][a] = peer[b][a] /\ net'[a][b] = net[a][b]
      BY <1>3, <1>9, <2>1
    <3> QED
      BY <3>1, PairOf
  <2>2. CASE a = n
    BY <1>3, <1>10, <1>13, <2>2
  <2>3. CASE b = n
    BY <1>3, <1>10, <1>13, <2>3
  <2> QED
    BY <2>1, <2>2, <2>3
<1> QED
  BY <1>3, <1>9, <1>11, <1>12, <1>13, LinkedNext

-----------------------------------------------------------------------------
(* The connections, whatever happens *)

LEMMA LinkedSteps ==
    ASSUME TypeOK, Apart, InSequence, [Next]_vars
    PROVE  Linked'
<1>1. ASSUME NEW n \in Node, NEW p \in Node,
             Dial(n, p) \/ Announce(n, p) \/ Whisper(n, p) \/ WhisperCut(n, p)
             \/ Receive(n, p)
      PROVE  Linked'
  <2>1. CASE Dial(n, p)
    <3>1. PICK f : LinkDoes(n, p, f) /\ f.kind = "pending"
      BY <2>1, DialDoes
    <3>2. live' = live
      BY <2>1 DEF Dial
    <3> QED
      BY <3>1, <3>2, LinkStep
  <2>2. CASE Announce(n, p)
    <3>1. PICK f : LinkDoes(n, p, f) /\ f.kind = IF InTable(n, p) THEN peer[n][p].kind ELSE "known"
      BY <2>2, AnnounceDoes
    <3>2. live' = live /\ f.kind # "none"
      BY <2>2, <3>1 DEF Announce, InTable
    <3> QED
      BY <3>1, <3>2, LinkStep
  <2>3. CASE Whisper(n, p)
    <3>1. PICK f : LinkDoes(n, p, f) /\ f.kind = peer[n][p].kind
      BY <2>3, WhisperDoes
    <3>2. live' = live /\ f.kind # "none"
      BY <2>3, <3>1 DEF Whisper, InTable
    <3> QED
      BY <3>1, <3>2, LinkStep
  <2>4. CASE RecvHello(n, p)
    <3>1. PICK f : LinkDoes(n, p, f) /\ f.kind = "ready"
      BY <2>4, RecvHelloDoes
    <3>2. live' = live
      BY <2>4 DEF RecvHello, Take, Taking
    <3> QED
      BY <3>1, <3>2, LinkStep
  <2>5. CASE RecvWhisper(n, p) \/ RecvPingOk(n, p)
    <3>1. PICK f : LinkDoes(n, p, f) /\ f.kind = "ready"
      BY <2>5, RecvCheckedDoes
    <3>2. live' = live
      BY <2>5 DEF RecvWhisper, RecvPingOk, Take, Taking
    <3> QED
      BY <3>1, <3>2, LinkStep
  <2>6. CASE RecvPing(n, p)
    <3>1. PICK f : LinkDoes(n, p, f) /\ f.kind = "ready"
      BY <2>6, RecvPingDoes
    <3>2. live' = live
      BY <2>6 DEF RecvPing, Take, Taking
    <3> QED
      BY <3>1, <3>2, LinkStep
  <2>7. CASE RecvGoodbye(n, p)
    <3>1. LinkDoes(n, p, NoPeer)
      BY <2>7, RecvGoodbyeDoes
    <3>2. live' = live
      BY <2>7 DEF RecvGoodbye, Take, Taking
    <3> QED
      BY <3>1, <3>2, LinkStep
  <2>8. CASE RecvIgnored(n, p)
    <3>1. PICK f : f = peer[n][p]
      OBVIOUS
    <3>2. LinkDoes(n, p, f)
      BY <2>8, <3>1, RecvIgnoredDoes
    <3>3. live' = live /\ (f.kind = "none" => f = NoPeer)
      BY <2>8, <3>1, LinkFacts DEF RecvIgnored, Take, Taking
    <3> QED
      BY <3>2, <3>3, LinkStep
  <2>9. CASE WhisperCut(n, p) \/ RecvPingCut(n, p)
    <3>1. PICK f : LinkDoes(n, p, f) /\ f.kind = "known"
      BY <2>9, WhisperCutDoes, RecvPingCutDoes
    <3>2. live' = live
      BY <2>9 DEF WhisperCut, RecvPingCut, Taking
    <3> QED
      BY <3>1, <3>2, LinkStep
  <2> QED
    BY <1>1, <2>1, <2>2, <2>3, <2>4, <2>5, <2>6, <2>7, <2>8, <2>9 DEF Receive
<1>2. ASSUME NEW n \in Node, Reap(n) \/ Depart(n) \/ Boot(n)
      PROVE  Linked'
  BY <1>2, ReapLinks, DepartLinks, BootLinks
<1>3. ASSUME NEW S, Tick(S)
      PROVE  Linked'
  BY <1>3, TickLinks
<1>4. CASE UNCHANGED vars
  <2>1. net' = net /\ peer' = peer /\ live' = live
    BY <1>4 DEF vars
  <2>2. /\ peer \in [Node -> [Node -> Peer]] /\ net \in Links
        /\ \A a \in Node : peer[a][a] = NoPeer /\ net[a][a] = <<>>
    BY LinkFacts DEF TypeOK, Links, Message
  <2>3. \A a, b \in Node : peer'[a][b].kind = "none" \/ a \notin live' => peer'[a][b] = NoPeer
    BY <2>1 DEF Apart
  <2>4. \A a, b \in Node : a # b => Numbered(net'[a][b], peer'[a][b], peer'[b][a])
    BY <2>1, PairOf
  <2> QED
    BY <2>1, <2>2, <2>3, <2>4, LinkedNext
<1> QED
  BY <1>1, <1>2, <1>3, <1>4 DEF Next

-----------------------------------------------------------------------------
(* The rest of the state *)

\* What is proved of the rest of TypeOK, and of the two throttles.
Booked ==
    /\ asleep \subseteq live /\ reaped \subseteq live /\ live \subseteq Node
    /\ emitted \in [Node -> [Node -> 0..IV]]
    /\ status \in [Node -> [Node -> {"unknown", "healthy", "evasive", "dead"}]]
    /\ services \in [Node -> SUBSET Node]
    /\ hush = emitted
    /\ spent \in [Kinds -> Nat]

LEMMA ChargeKeeps ==
    ASSUME Booked, NEW k \in Kinds, Charge(k)
    PROVE  spent' \in [Kinds -> Nat]
BY DEF Booked, Charge

LEMMA HeardKeeps ==
    ASSUME Booked, NEW n \in Node, NEW p \in Node, Rearm(n, p), Heard(n, p)
    PROVE  emitted' \in [Node -> [Node -> 0..IV]] /\ hush' = emitted'
<1>1. IV \in 0..IV
  BY TimeAssumption
<1> QED
  BY <1>1 DEF Booked, Rearm, Heard

LEMMA EnterKeeps ==
    ASSUME Booked, NEW n \in Node, NEW p \in Node, Enter(n, p)
    PROVE  /\ status' \in [Node -> [Node -> {"unknown", "healthy", "evasive", "dead"}]]
           /\ services' \in [Node -> SUBSET Node]
           /\ status'[n][p] = "healthy" /\ p \in services'[n]
           /\ \A a, b \in Node : <<a, b>> # <<n, p>> =>
                 status'[a][b] = status[a][b] /\ (b \in services'[a] <=> b \in services[a])
<1>1. /\ status \in [Node -> [Node -> {"unknown", "healthy", "evasive", "dead"}]]
      /\ services \in [Node -> SUBSET Node]
      /\ status' = [status EXCEPT ![n][p] = "healthy"]
      /\ services' = [services EXCEPT ![n] = @ \cup {p}]
  BY DEF Booked, Enter
<1>2. status' \in [Node -> [Node -> {"unknown", "healthy", "evasive", "dead"}]]
  BY <1>1
<1>3. services' \in [Node -> SUBSET Node]
  BY <1>1
<1>4. ASSUME NEW a \in Node, NEW b \in Node, <<a, b>> # <<n, p>>
      PROVE  status'[a][b] = status[a][b] /\ (b \in services'[a] <=> b \in services[a])
  BY <1>1, <1>4
<1> QED
  BY <1>1, <1>2, <1>3, <1>4

LEMMA ReportKeeps ==
    ASSUME Booked, NEW n \in Node, NEW Q, NEW S, Report(n, Q, S)
    PROVE  /\ status' \in [Node -> [Node -> {"unknown", "healthy", "evasive", "dead"}]]
           /\ services' \in [Node -> SUBSET Node]
           /\ \A a, b \in Node : a # n =>
                 status'[a][b] = status[a][b] /\ (b \in services'[a] <=> b \in services[a])
           /\ \A p \in Node :
                 /\ p \in services'[n] <=> p \in services[n] /\ p \notin Q
                 /\ status'[n][p] = IF p \in Q THEN Told(status[n][p], "dead")
                                    ELSE IF p \in S THEN Told(status[n][p], "evasive")
                                    ELSE status[n][p]
<1>1. /\ status \in [Node -> [Node -> {"unknown", "healthy", "evasive", "dead"}]]
      /\ services \in [Node -> SUBSET Node]
  BY DEF Booked
<1>2. PICK G : G = [p \in Node |-> IF p \in Q THEN Told(status[n][p], "dead")
                                   ELSE IF p \in S THEN Told(status[n][p], "evasive")
                                   ELSE status[n][p]]
  OBVIOUS
<1>3. status' = [status EXCEPT ![n] = G] /\ services' = [services EXCEPT ![n] = @ \ Q]
  BY <1>1, <1>2 DEF Report
<1>4. G \in [Node -> {"unknown", "healthy", "evasive", "dead"}]
  BY <1>1, <1>2 DEF Told
<1>5. /\ status' \in [Node -> [Node -> {"unknown", "healthy", "evasive", "dead"}]]
      /\ \A a \in Node : status'[a] = IF a = n THEN G ELSE status[a]
  BY <1>1, <1>3, <1>4
<1>6. /\ services' \in [Node -> SUBSET Node]
      /\ \A a \in Node : services'[a] = IF a = n THEN services[n] \ Q ELSE services[a]
  BY <1>1, <1>3
<1> QED
  BY <1>2, <1>5, <1>6

LEMMA BookedSteps ==
    ASSUME Booked, [Next]_vars
    PROVE  Booked'
<1>0. /\ asleep \subseteq live /\ reaped \subseteq live /\ live \subseteq Node
      /\ emitted \in [Node -> [Node -> 0..IV]] /\ hush = emitted
      /\ status \in [Node -> [Node -> {"unknown", "healthy", "evasive", "dead"}]]
      /\ services \in [Node -> SUBSET Node]
      /\ spent \in [Kinds -> Nat]
      /\ {"dial", "announce", "whisper", "depart", "sleep", "jam"} \subseteq Kinds
      /\ 0 \in 0..IV /\ IV \in 0..IV /\ IV \in Nat
  BY TimeAssumption DEF Booked, Kinds
<1>1. ASSUME NEW n \in Node, NEW p \in Node, 
             Dial(n, p) \/ Announce(n, p) \/ Whisper(n, p) \/ WhisperCut(n, p)
      PROVE  Booked'
  <2>1. /\ UNCHANGED <<live, asleep, reaped, emitted, hush, status, services>>
        /\ spent' = spent \/ \E k \in Kinds : Charge(k)
    BY <1>0, <1>1 DEF Dial, Announce, Whisper, WhisperCut, app
  <2>2. spent' \in [Kinds -> Nat]
    BY <1>0, <2>1, ChargeKeeps
  <2> QED
    BY <1>0, <2>1, <2>2 DEF Booked
<1>2. ASSUME NEW n \in Node, NEW p \in Node, Receive(n, p)
      PROVE  Booked'
  <2>0. UNCHANGED <<live, asleep, reaped>> /\ (spent' = spent \/ Charge("jam"))
    BY <1>2 DEF Receive, RecvHello, RecvWhisper, RecvPing, RecvPingCut, RecvPingOk, RecvGoodbye,
                RecvIgnored, Take, Taking
  <2>1. UNCHANGED <<live, asleep, reaped>> /\ spent' \in [Kinds -> Nat]
    BY <1>0, <2>0, ChargeKeeps
  <2>2. emitted' \in [Node -> [Node -> 0..IV]] /\ hush' = emitted'
    <3>1. UNCHANGED <<emitted, hush>> \/ (Rearm(n, p) /\ Heard(n, p))
      BY <1>2 DEF Receive, RecvHello, RecvWhisper, RecvPing, RecvPingCut, RecvPingOk,
                  RecvGoodbye, RecvIgnored
    <3> QED
      BY <1>0, <3>1, HeardKeeps
  <2>3. /\ status' \in [Node -> [Node -> {"unknown", "healthy", "evasive", "dead"}]]
        /\ services' \in [Node -> SUBSET Node]
    <3>1. UNCHANGED <<status, services>> \/ Enter(n, p) \/ Report(n, {p}, {})
      BY <1>2 DEF Receive, RecvHello, RecvWhisper, RecvPing, RecvPingCut, RecvPingOk,
                  RecvGoodbye, RecvIgnored, app
    <3>2. CASE UNCHANGED <<status, services>>
      BY <1>0, <3>2
    <3>3. CASE Enter(n, p)
      BY <3>3, EnterKeeps
    <3>4. CASE Report(n, {p}, {})
      BY <3>4, ReportKeeps
    <3> QED
      BY <3>1, <3>2, <3>3, <3>4
  <2> QED
    BY <1>0, <2>1, <2>2, <2>3 DEF Booked
<1>3. ASSUME NEW n \in Node, Reap(n)
      PROVE  Booked'
  <2>0. /\ n \in live /\ reaped' = reaped \cup {n} /\ UNCHANGED <<live, asleep>>
        /\ spent' = spent \/ Charge("jam")
    BY <1>3 DEF Reap, Awake
  <2>1. /\ n \in live /\ reaped' = reaped \cup {n} /\ UNCHANGED <<live, asleep>>
        /\ spent' \in [Kinds -> Nat]
    BY <1>0, <2>0, ChargeKeeps
  <2>2. PICK Q, S : Report(n, Q, S)
    BY <1>3 DEF Reap
  <2>3. /\ status' \in [Node -> [Node -> {"unknown", "healthy", "evasive", "dead"}]]
        /\ services' \in [Node -> SUBSET Node]
    BY <2>2, ReportKeeps
  <2>4. PICK G : G = [p \in Node |->
           IF p \in Overdue(n) THEN IV ELSE IF p \in Noisy(n) THEN 0 ELSE emitted[n][p]]
    OBVIOUS
  <2>5. emitted' = [emitted EXCEPT ![n] = G] /\ hush' = [hush EXCEPT ![n] = G]
    BY <1>0, <1>3, <2>4 DEF Reap
  <2>6. G \in [Node -> 0..IV]
    BY <1>0, <2>4
  <2>7. emitted' \in [Node -> [Node -> 0..IV]] /\ hush' = emitted'
    BY <1>0, <2>5, <2>6
  <2> QED
    BY <1>0, <2>1, <2>3, <2>7 DEF Booked
<1>4. ASSUME NEW S \in {{}} \cup {{n} : n \in live}, Tick(S)
      PROVE  Booked'
  <2>1. /\ reaped' = {} /\ asleep' = S /\ UNCHANGED <<live, status, services>>
        /\ UNCHANGED spent \/ Charge("sleep")
        /\ emitted' = [n \in Node |-> [p \in Node |-> Older(emitted[n][p], IV)]]
        /\ hush' = [n \in Node |-> [p \in Node |-> Older(hush[n][p], IV)]]
    BY <1>4 DEF Tick, app
  <2>2. S \subseteq live
    OBVIOUS
  <2>3. \A n, p \in Node : Older(emitted[n][p], IV) \in 0..IV
    BY <1>0, OlderIs
  <2>4. emitted' \in [Node -> [Node -> 0..IV]] /\ hush' = emitted'
    BY <1>0, <2>1, <2>3
  <2>5. spent' \in [Kinds -> Nat]
    BY <1>0, <2>1, ChargeKeeps
  <2> QED
    BY <1>0, <2>1, <2>2, <2>4, <2>5 DEF Booked
<1>5. ASSUME NEW n \in Node, Depart(n)
      PROVE  Booked'
  <2>1. /\ n \notin asleep /\ live' = live \ {n} /\ reaped' = reaped \ {n} /\ asleep' = asleep
        /\ Charge("depart")
        /\ emitted' = [emitted EXCEPT ![n] = [p \in Node |-> IV]]
        /\ hush' = [hush EXCEPT ![n] = [p \in Node |-> IV]]
        /\ status' = [status EXCEPT ![n] = [p \in Node |-> "unknown"]]
        /\ services' = [services EXCEPT ![n] = {}]
    BY <1>5 DEF Depart, Awake
  <2>2. spent' \in [Kinds -> Nat]
    BY <1>0, <2>1, ChargeKeeps
  <2>3. emitted' \in [Node -> [Node -> 0..IV]] /\ hush' = emitted'
    BY <1>0, <2>1
  <2>4. /\ status' \in [Node -> [Node -> {"unknown", "healthy", "evasive", "dead"}]]
        /\ services' \in [Node -> SUBSET Node]
    BY <1>0, <2>1
  <2> QED
    BY <1>0, <2>1, <2>2, <2>3, <2>4 DEF Booked
<1>6. ASSUME NEW n \in Node, Boot(n)
      PROVE  Booked'
  <2>1. /\ live' = live \cup {n}
        /\ UNCHANGED <<asleep, reaped, emitted, status, services, hush, spent>>
    BY <1>6 DEF Boot, app
  <2> QED
    BY <1>0, <2>1 DEF Booked
<1>7. CASE UNCHANGED vars
  BY <1>0, <1>7 DEF Booked, vars, app
<1> QED
  BY <1>1, <1>2, <1>3, <1>4, <1>5, <1>6, <1>7 DEF Next

-----------------------------------------------------------------------------
(* What the applications were told *)

\* Status x and registration r of a peer whose entry is e.
Vouches(e, x, r) ==
    /\ e.kind = "ready" => r /\ x \in {"healthy", "evasive"}
    /\ r => e.kind = "ready" \/ (e.kind = "known" /\ ~e.on)
    /\ e.kind \in {"none", "pending"} => x \in {"unknown", "dead"}

Vouched == \A n, p \in Node : Vouches(peer[n][p], status[n][p], p \in services[n])

LEMMA VouchedIs == Vouched <=> AppsRight /\ Unheard
BY DEF Vouched, Vouches, AppsRight, Unheard, Ready

\* n gets the entry f of p, of which its application knows what it should.
LEMMA VouchedStep ==
    ASSUME Vouched, peer \in [Node -> [Node -> Peer]], NEW n \in Node, NEW p \in Node, NEW f,
           peer' = [peer EXCEPT ![n][p] = f],
           \A a, b \in Node : <<a, b>> # <<n, p>> =>
              status'[a][b] = status[a][b] /\ (b \in services'[a] <=> b \in services[a]),
           Vouches(f, status'[n][p], p \in services'[n])
    PROVE  Vouched'
<1>1. ASSUME NEW a \in Node, NEW b \in Node
      PROVE  Vouches(peer'[a][b], status'[a][b], b \in services'[a])
  <2>1. CASE a = n /\ b = p
    <3>1. peer'[a][b] = f
      BY <2>1
    <3> QED
      BY <2>1, <3>1
  <2>2. CASE ~(a = n /\ b = p)
    <3>1. peer'[a][b] = peer[a][b]
      BY <2>2
    <3>2. <<a, b>> # <<n, p>>
      BY <2>2
    <3>3. status'[a][b] = status[a][b] /\ (b \in services'[a] <=> b \in services[a])
      BY <3>2, Zenon
    <3> QED
      BY <3>1, <3>3 DEF Vouched, Vouches
  <2> QED
    BY <2>1, <2>2
<1> QED
  BY <1>1 DEF Vouched, Vouches

\* The application is told nothing.
LEMMA VouchedKept ==
    ASSUME Vouched, peer \in [Node -> [Node -> Peer]], NEW n \in Node, NEW p \in Node, NEW f,
           peer' = [peer EXCEPT ![n][p] = f], UNCHANGED <<status, services>>,
           \/ f.kind = peer[n][p].kind /\ f.on = peer[n][p].on
           \/ f.kind = "known" /\ f.on = FALSE
           \/ peer[n][p].kind \in {"none", "pending"} /\ f.kind \in {"pending", "known"}
    PROVE  Vouched'
<1>1. Vouches(peer[n][p], status[n][p], p \in services[n])
  BY DEF Vouched
<1>2. Vouches(f, status'[n][p], p \in services'[n])
  BY <1>1 DEF Vouches
<1> QED
  BY <1>2, VouchedStep

LEMMA ReceiveVouched ==
    ASSUME TypeOK, Apart, InSequence, Booked, Vouched, NEW n \in Node, NEW p \in Node, Receive(n, p)
    PROVE  Vouched'
<1>0. peer \in [Node -> [Node -> Peer]] /\ Vouches(peer[n][p], status[n][p], p \in services[n])
  BY DEF TypeOK, Vouched
<1>1. CASE RecvHello(n, p)
  <2>1. PICK f : /\ peer' = [peer EXCEPT ![n][p] = f] /\ f.kind = "ready"
                 /\ peer[n][p].kind = "ready" => f.on = peer[n][p].on
    BY <1>1, RecvHelloDoes DEF LinkDoes
  <2>2. CASE Ready(n, p)
    <3>1. UNCHANGED <<status, services>>
      BY <1>1, <2>2 DEF RecvHello, app
    <3> QED
      BY <1>0, <2>1, <2>2, <3>1, VouchedKept DEF Ready
  <2>3. CASE ~Ready(n, p)
    <3>1. Enter(n, p)
      BY <1>1, <2>3 DEF RecvHello
    <3>2. /\ status'[n][p] = "healthy" /\ p \in services'[n]
          /\ \A a, b \in Node : <<a, b>> # <<n, p>> =>
                status'[a][b] = status[a][b] /\ (b \in services'[a] <=> b \in services[a])
      BY <3>1, EnterKeeps
    <3>3. Vouches(f, status'[n][p], p \in services'[n])
      BY <2>1, <3>2 DEF Vouches
    <3>4. peer \in [Node -> [Node -> Peer]] /\ peer' = [peer EXCEPT ![n][p] = f]
      BY <1>0, <2>1
    <3> QED
      BY <3>2, <3>3, <3>4, VouchedStep, Zenon
  <2> QED
    BY <2>2, <2>3
<1>2. CASE RecvWhisper(n, p) \/ RecvPing(n, p) \/ RecvPingOk(n, p)
  <2>1. PICK f : peer' = [peer EXCEPT ![n][p] = f] /\ f.kind = "ready" /\ f.on = peer[n][p].on
    BY <1>2, RecvCheckedDoes, RecvPingDoes DEF LinkDoes
  <2>2. peer[n][p].kind = "ready" /\ UNCHANGED <<status, services>>
    BY <1>2 DEF RecvWhisper, RecvPing, RecvPingOk, Ready, app
  <2> QED
    BY <1>0, <2>1, <2>2, VouchedKept
<1>3. CASE RecvGoodbye(n, p)
  <2>1. peer' = [peer EXCEPT ![n][p] = NoPeer] /\ Report(n, {p}, {})
    BY <1>3 DEF RecvGoodbye, Set
  <2>2. /\ \A a, b \in Node : a # n =>
              status'[a][b] = status[a][b] /\ (b \in services'[a] <=> b \in services[a])
        /\ \A b \in Node :
              /\ b \in services'[n] <=> b \in services[n] /\ b # p
              /\ status'[n][b] = IF b = p THEN Told(status[n][p], "dead") ELSE status[n][b]
    BY <2>1, ReportKeeps
  <2>3. \A a, b \in Node : <<a, b>> # <<n, p>> =>
           status'[a][b] = status[a][b] /\ (b \in services'[a] <=> b \in services[a])
    BY <2>2
  <2>4. Vouches(NoPeer, status'[n][p], p \in services'[n])
    BY <2>2, NoPeerFacts DEF Vouches, Told
  <2>5. peer \in [Node -> [Node -> Peer]] /\ peer' = [peer EXCEPT ![n][p] = NoPeer]
    BY <1>0, <2>1
  <2> QED
    BY <2>3, <2>4, <2>5, VouchedStep, Zenon
<1>4. CASE RecvIgnored(n, p)
  <2>1. peer' = peer /\ UNCHANGED <<status, services>>
    BY <1>4 DEF RecvIgnored, app
  <2> QED
    BY <2>1 DEF Vouched, Vouches
<1>5. CASE RecvPingCut(n, p)
  <2>1. PICK f : LinkDoes(n, p, f) /\ f.kind = "known" /\ f.on = FALSE
    BY <1>5, RecvPingCutDoes
  <2>2. UNCHANGED <<status, services>> /\ peer' = [peer EXCEPT ![n][p] = f]
    BY <1>5, <2>1 DEF RecvPingCut, app, LinkDoes
  <2> QED
    BY <1>0, <2>1, <2>2, VouchedKept
<1> QED
  BY <1>1, <1>2, <1>3, <1>4, <1>5 DEF Receive

LEMMA ReapVouched ==
    ASSUME TypeOK, Apart, InSequence, Booked, Vouched, NEW n \in Node, Reap(n)
    PROVE  Vouched'
<1>0. \A a, b \in Node : a # n => peer'[a][b] = peer[a][b]
  BY ReapDoes, Zenon
<1>1. ASSUME NEW p \in Node
      PROVE  IF p \in Overdue(n) THEN peer'[n][p] = NoPeer
             ELSE \/ peer'[n][p].kind = peer[n][p].kind /\ peer'[n][p].on = peer[n][p].on
                  \/ peer'[n][p].kind = "known" /\ peer'[n][p].on = FALSE
  <2>0. p \in Quiet(n) => p \notin Overdue(n)
    BY DEF Quiet
  <2>1. Removed(n, p) \/ Pinged(n, p) \/ Jammed(n, p) \/ Untouched(n, p)
    BY ReapDoes, Zenon
  <2>2. peer[n][p] \in Peer /\ 0 \in 0 .. Width - 1
    BY LinkFacts, WidthAssumption
  <2>3. CASE Removed(n, p)
    BY <2>3 DEF Removed
  <2>4. CASE Pinged(n, p)
    <3>1. Probed(peer[n][p]).kind = peer[n][p].kind /\ Probed(peer[n][p]).on = peer[n][p].on
      BY <2>2, EntryOperators
    <3> QED
      BY <2>0, <2>4, <3>1 DEF Pinged
  <2>5. CASE Jammed(n, p)
    <3>1. PICK f : f = [Cut(peer[n][p]) EXCEPT !.evasive = 0]
      OBVIOUS
    <3>2. f.kind = "known" /\ f.on = FALSE
      BY <2>2, <3>1, CutIs
    <3> QED
      BY <2>0, <2>5, <3>1, <3>2 DEF Jammed
  <2>6. CASE Untouched(n, p)
    BY <2>6 DEF Untouched
  <2> QED
    BY <2>1, <2>3, <2>4, <2>5, <2>6
<1>2. PICK Q, S : Q = {p \in Overdue(n) : InTable(n, p)} /\ S = Noisy(n)
  OBVIOUS
<1>3. Report(n, Q, S)
  BY <1>2 DEF Reap
<1>4. /\ \A a, b \in Node : a # n =>
            status'[a][b] = status[a][b] /\ (b \in services'[a] <=> b \in services[a])
      /\ \A p \in Node :
            /\ p \in services'[n] <=> p \in services[n] /\ p \notin Q
            /\ status'[n][p] = IF p \in Q THEN Told(status[n][p], "dead")
                               ELSE IF p \in S THEN Told(status[n][p], "evasive")
                               ELSE status[n][p]
  BY <1>3, ReportKeeps
<1>5. ASSUME NEW p \in Node
      PROVE  Vouches(peer'[n][p], status'[n][p], p \in services'[n])
  <2>0. peer[n][p] \in Peer /\ Vouches(peer[n][p], status[n][p], p \in services[n])
    BY LinkFacts DEF Vouched
  <2>1. /\ p \in services'[n] <=> p \in services[n] /\ p \notin Q
        /\ status'[n][p] = IF p \in Q THEN Told(status[n][p], "dead")
                           ELSE IF p \in S THEN Told(status[n][p], "evasive")
                           ELSE status[n][p]
    BY <1>4
  <2>2. CASE p \in Overdue(n)
    <3>1. peer'[n][p].kind = "none"
      BY <1>1, <2>2, NoPeerFacts
    <3>2. p \notin S
      BY <1>2, <2>2 DEF Noisy, Quiet
    <3>3. p \in Q <=> InTable(n, p)
      BY <1>2, <2>2
    <3> QED
      BY <2>0, <2>1, <3>1, <3>2, <3>3 DEF Vouches, Told, InTable, Peer
  <2>3. CASE p \notin Overdue(n)
    <3>1. p \notin Q
      BY <1>2, <2>3
    <3>2. p \in S => peer[n][p].kind \in {"known", "ready"}
      BY <1>2 DEF Noisy, Quiet, InTable
    <3>3. CASE peer'[n][p].kind = peer[n][p].kind /\ peer'[n][p].on = peer[n][p].on
      BY <2>0, <2>1, <3>1, <3>2, <3>3 DEF Vouches, Told
    <3>4. CASE peer'[n][p].kind = "known" /\ peer'[n][p].on = FALSE
      BY <3>4 DEF Vouches
    <3> QED
      BY <1>1, <2>3, <3>3, <3>4
  <2> QED
    BY <2>2, <2>3
<1>6. ASSUME NEW a \in Node, NEW b \in Node
      PROVE  Vouches(peer'[a][b], status'[a][b], b \in services'[a])
  <2>1. CASE a = n
    BY <1>5, <2>1
  <2>2. CASE a # n
    BY <1>0, <1>4, <2>2 DEF Vouched, Vouches
  <2> QED
    BY <2>1, <2>2
<1> QED
  BY <1>6 DEF Vouched, Vouches

LEMMA VouchedSteps ==
    ASSUME TypeOK, Apart, InSequence, Booked, Vouched, [Next]_vars
    PROVE  Vouched'
<1>0. peer \in [Node -> [Node -> Peer]]
  BY DEF TypeOK
<1>1. ASSUME NEW n \in Node, NEW p \in Node, Dial(n, p)
      PROVE  Vouched'
  <2>1. PICK f : peer' = [peer EXCEPT ![n][p] = f] /\ f.kind = "pending"
    BY <1>1, DialDoes DEF LinkDoes
  <2>2. peer[n][p].kind = "none" /\ UNCHANGED <<status, services>>
    BY <1>1 DEF Dial, app
  <2> QED
    BY <1>0, <2>1, <2>2, VouchedKept
<1>2. ASSUME NEW n \in Node, NEW p \in Node, Announce(n, p)
      PROVE  Vouched'
  <2>1. PICK f : /\ peer' = [peer EXCEPT ![n][p] = f]
                 /\ f.kind = IF InTable(n, p) THEN peer[n][p].kind ELSE "known"
                 /\ InTable(n, p) => f.on = peer[n][p].on
    BY <1>2, AnnounceDoes DEF LinkDoes
  <2>2. UNCHANGED <<status, services>> /\ peer[n][p] \in Peer
    BY <1>0, <1>2 DEF Announce, app
  <2> QED
    BY <1>0, <2>1, <2>2, VouchedKept DEF InTable, Peer
<1>3. ASSUME NEW n \in Node, NEW p \in Node, Whisper(n, p)
      PROVE  Vouched'
  <2>1. PICK f : /\ peer' = [peer EXCEPT ![n][p] = f]
                 /\ f.kind = peer[n][p].kind /\ f.on = peer[n][p].on
    BY <1>3, WhisperDoes DEF LinkDoes
  <2>2. UNCHANGED <<status, services>>
    BY <1>3 DEF Whisper, app
  <2> QED
    BY <1>0, <2>1, <2>2, VouchedKept
<1>4. ASSUME NEW n \in Node, NEW p \in Node, Receive(n, p)
      PROVE  Vouched'
  BY <1>4, ReceiveVouched
<1>5. ASSUME NEW n \in Node, Reap(n)
      PROVE  Vouched'
  BY <1>5, ReapVouched
<1>6. ASSUME NEW S, Tick(S)
      PROVE  Vouched'
  <2>1. /\ UNCHANGED <<status, services>>
        /\ peer' = [n \in Node |-> [p \in Node |->
              IF peer[n][p].kind = "none" THEN NoPeer
              ELSE [peer[n][p] EXCEPT !.evasive = Older(@, EV + 1),
                                      !.expired = Older(@, EX + 1)]]]
    BY <1>6 DEF Tick, app
  <2>2. ASSUME NEW n \in Node, NEW p \in Node
        PROVE  /\ peer'[n][p].kind = peer[n][p].kind
               /\ peer[n][p].kind # "none" => peer'[n][p].on = peer[n][p].on
    <3>1. PICK e, f : /\ e = peer[n][p]
                      /\ f = [e EXCEPT !.evasive = Older(@, EV + 1),
                                       !.expired = Older(@, EX + 1)]
      OBVIOUS
    <3>2. e \in Peer
      BY <1>0, <3>1
    <3>3. f.kind = e.kind /\ f.on = e.on
      BY <3>1, <3>2, TickEntry
    <3>4. peer'[n][p] = IF e.kind = "none" THEN NoPeer ELSE f
      BY <2>1, <3>1
    <3> QED
      BY <3>1, <3>3, <3>4, NoPeerFacts
  <2>3. status' = status /\ services' = services
    BY <2>1
  <2> QED
    BY <2>2, <2>3 DEF Vouched, Vouches
<1>7. ASSUME NEW n \in Node, Depart(n)
      PROVE  Vouched'
  <2>1. /\ peer' = [peer EXCEPT ![n] = [p \in Node |-> NoPeer]]
        /\ status' = [status EXCEPT ![n] = [p \in Node |-> "unknown"]]
        /\ services' = [services EXCEPT ![n] = {}]
    BY <1>7 DEF Depart
  <2>2. \A a, b \in Node :
           /\ peer'[a][b] = IF a = n THEN NoPeer ELSE peer[a][b]
           /\ status'[a][b] = IF a = n THEN "unknown" ELSE status[a][b]
           /\ services'[a] = IF a = n THEN {} ELSE services[a]
    BY <1>0, <2>1 DEF Booked
  <2> QED
    BY <2>2, NoPeerFacts DEF Vouched, Vouches
<1>8. ASSUME NEW n \in Node, Boot(n)
      PROVE  Vouched'
  <2>1. UNCHANGED <<peer, status, services>>
    BY <1>8 DEF Boot, app
  <2> QED
    BY <2>1 DEF Vouched, Vouches
<1>9. ASSUME NEW n \in Node, NEW p \in Node, WhisperCut(n, p)
      PROVE  Vouched'
  <2>1. PICK f : LinkDoes(n, p, f) /\ f.kind = "known" /\ f.on = FALSE
    BY <1>9, WhisperCutDoes
  <2>2. UNCHANGED <<status, services>> /\ peer' = [peer EXCEPT ![n][p] = f]
    BY <1>9, <2>1 DEF WhisperCut, app, LinkDoes
  <2> QED
    BY <1>0, <2>1, <2>2, VouchedKept
<1>10. CASE UNCHANGED vars
  BY <1>10 DEF vars, app, Vouched, Vouches
<1> QED
  BY <1>1, <1>2, <1>3, <1>4, <1>5, <1>6, <1>7, <1>8, <1>9, <1>10 DEF Next

-----------------------------------------------------------------------------
(* The theorems *)

Inv == TypeOK /\ Apart /\ InSequence /\ Booked /\ Vouched

LEMMA InvInit == ASSUME Init PROVE Inv
<1>1. /\ live = Node /\ asleep = {} /\ reaped = {}
      /\ peer = [n \in Node |-> [p \in Node |-> NoPeer]]
      /\ emitted = [n \in Node |-> [p \in Node |-> IV]]
      /\ net = [n \in Node |-> [p \in Node |-> <<>>]]
      /\ status = [n \in Node |-> [p \in Node |-> "unknown"]]
      /\ services = [n \in Node |-> {}]
      /\ hush = emitted
      /\ spent = [k \in Kinds |-> 0]
  BY DEF Init
<1>2. IV \in 0..IV /\ <<>> \in Seq(Message)
  BY TimeAssumption, EmptySeq
<1>3. Booked
  BY <1>1, <1>2 DEF Booked
<1>4. \A n, p \in Node : peer[n][p] = NoPeer /\ net[n][p] = <<>>
  BY <1>1
<1>5. net \in Links /\ peer \in [Node -> [Node -> Peer]]
  BY <1>1, <1>2, NoPeerFacts DEF Links
<1>6. TypeOK
  BY <1>3, <1>4, <1>5 DEF TypeOK, Booked, Links, Message
<1>7. Apart
  BY <1>4 DEF Apart
<1>8. \A n, p \in Node : Numbered(net[p][n], peer[p][n], peer[n][p])
  BY <1>4, NumberedShut, NoPeerFacts
<1>9. Vouched
  BY <1>1, <1>4, NoPeerFacts DEF Vouched, Vouches
<1> QED
  BY <1>3, <1>6, <1>7, <1>8, <1>9 DEF Inv, InSequence

LEMMA InvStep == ASSUME Inv, [Next]_vars PROVE Inv'
<1>0. TypeOK /\ Apart /\ InSequence /\ Booked /\ Vouched
  BY DEF Inv
<1>1. Linked'
  BY <1>0, LinkedSteps
<1>2. Booked'
  BY <1>0, BookedSteps
<1>3. Vouched'
  BY <1>0, VouchedSteps
<1>4. TypeOK'
  BY <1>1, <1>2 DEF Linked, Booked, TypeOK, Links, Message
<1> QED
  BY <1>1, <1>2, <1>3, <1>4 DEF Linked, Inv

LEMMA InvHolds == Spec => []Inv
<1> QED
  BY InvInit, InvStep, PTL DEF Spec

\* The types of the connections and of the timers: that a peer's own entry, and
\* the numbers next_seq stamps, stay in their ranges whatever a node sends or loses.
THEOREM TypesHold == Spec => []TypeOK
<1>1. Inv => TypeOK
  BY DEF Inv
<1> QED
  BY <1>1, InvHolds, PTL

\* As of the events emitted: service_discovery.py has every ready peer in its
\* registry, and besides them nobody but those that a full queue disconnected, which
\* are still in the table; health_monitor.py takes nobody for alive whom the node
\* removed.
THEOREM AppsRightHolds == Spec => []AppsRight
<1>1. Inv => AppsRight
  BY VouchedIs DEF Inv
<1> QED
  BY <1>1, InvHolds, PTL

\* After an EVASIVE of a peer _reap reports no other for the whole interval,
\* unless the peer was heard of, or left, in between.
THEOREM EpisodesHold == Spec => Episodes
<1>1. ASSUME Inv, NEW n \in Node, NEW p \in Node, p \in Noisy(n)
      PROVE  hush[n][p] = IV
  <2>1. hush = emitted /\ emitted[n][p] \in 0..IV
    BY <1>1 DEF Inv, Booked
  <2>2. emitted[n][p] >= IV /\ IV \in Nat
    BY <1>1, TimeAssumption DEF Noisy
  <2> QED
    BY <2>1, <2>2
<1>2. Inv => \A n, p \in Node : p \in Noisy(n) /\ n \in reaped' \ reaped => hush[n][p] = IV
  BY <1>1
<1>3. Spec => [][\A n, p \in Node : p \in Noisy(n) /\ n \in reaped' \ reaped => hush[n][p] = IV]_vars
  BY <1>2, InvHolds, PTL DEF Spec
<1> QED
  BY <1>3 DEF Episodes

\* Peer.check_seq reports a gap on a connection that lost nothing in the three
\* explained cases only.
THEOREM GapsExplainedHolds == Spec => GapsExplained
<1>1. ASSUME Inv, NEW n \in Node, NEW p \in Node, NEW cmd \in {"WHISPER", "PING", "PING_OK"},
             Taking(n, p, cmd), Ready(n, p), Gap(peer[n][p], Head(net[p][n]).seq)
      PROVE  \/ peer[n][p].want = 0 /\ Head(net[p][n]).seq \in {2, 3}
             \/ peer[n][p].want = 1 /\ Head(net[p][n]).seq = 3
             \/ Head(net[p][n]).seq = 0
  <2>1. /\ net[p][n] # <<>> /\ Head(net[p][n]).cmd # "HELLO"
        /\ Numbered(net[p][n], peer[p][n], peer[n][p])
    BY <1>1, LinkFacts DEF Inv, Taking
  <2>2. Head(net[p][n]) = net[p][n][1]
    OBVIOUS
  <2>3. Fits(peer[n][p].want, Head(net[p][n]).seq)
    BY <1>1, <2>1, <2>2 DEF Numbered, Ready
  <2> QED
    BY <1>1, <2>3 DEF Fits, Gap
<1>2. Inv => \A n, p \in Node :
         \A cmd \in {"WHISPER", "PING", "PING_OK"} :
           LET e == peer[n][p]
               seq == Head(net[p][n]).seq
           IN  /\ Taking(n, p, cmd)
               /\ net'[p][n] = Tail(net[p][n])
               /\ Ready(n, p)
               /\ Gap(e, seq)
               => \/ e.want = 0 /\ seq \in {2, 3}
                  \/ e.want = 1 /\ seq = 3
                  \/ seq = 0
  BY <1>1
<1> QED
  BY <1>2, InvHolds, PTL DEF Spec, GapsExplained

-----------------------------------------------------------------------------
(* Patience: the queues *)

LEMMA HasFacts ==
    ASSUME NEW q \in Seq(Message), NEW cmd
    PROVE  /\ ~Has(<<>>, cmd)
           /\ \A m \in Message : Has(Append(q, m), cmd) <=> Has(q, cmd) \/ m.cmd = cmd
           /\ q # <<>> => /\ Has(Tail(q), cmd) => Has(q, cmd)
                          /\ Has(q, cmd) => Head(q).cmd = cmd \/ Has(Tail(q), cmd)
<1>1. ~Has(<<>>, cmd)
  <2> DEFINE e == <<>>
  <2>1. e \in Seq(Message) /\ Len(e) = 0
    BY EmptySeq
  <2> HIDE DEF e
  <2>2. ~Has(e, cmd)
    BY <2>1 DEF Has
  <2> QED
    BY <2>2 DEF e
<1>2. ASSUME NEW m \in Message
      PROVE  Has(Append(q, m), cmd) <=> Has(q, cmd) \/ m.cmd = cmd
  <2> DEFINE r == Append(q, m)
  <2>1. /\ Len(r) = Len(q) + 1 /\ r[Len(q) + 1] = m /\ \A i \in 1..Len(q) : r[i] = q[i]
        /\ Len(q) \in Nat
    BY AppendProperties, LenProperties
  <2> HIDE DEF r
  <2>2. 1..Len(r) = 1..Len(q) \cup {Len(q) + 1}
    BY <2>1
  <2>3. Has(r, cmd) <=> Has(q, cmd) \/ m.cmd = cmd
    BY <2>1, <2>2 DEF Has
  <2> QED
    BY <2>3 DEF r
<1>3. ASSUME q # <<>>
      PROVE  /\ Has(Tail(q), cmd) => Has(q, cmd)
             /\ Has(q, cmd) => Head(q).cmd = cmd \/ Has(Tail(q), cmd)
  <2> DEFINE r == Tail(q)
  <2>1. /\ Len(r) = Len(q) - 1 /\ \A i \in 1..Len(r) : r[i] = q[i + 1]
    BY <1>3, HeadTailProperties
  <2>2. Len(q) \in Nat \ {0} /\ Head(q) = q[1]
    BY <1>3, EmptySeq
  <2> HIDE DEF r
  <2>3. ASSUME Has(r, cmd) PROVE Has(q, cmd)
    <3>1. PICK i \in 1..Len(r) : r[i].cmd = cmd
      BY <2>3 DEF Has
    <3>2. i + 1 \in 1..Len(q) /\ q[i + 1].cmd = cmd
      BY <2>1, <2>2, <3>1
    <3> QED
      BY <3>2 DEF Has
  <2>4. ASSUME Has(q, cmd), Head(q).cmd # cmd PROVE Has(r, cmd)
    <3>1. PICK i \in 1..Len(q) : q[i].cmd = cmd
      BY <2>4 DEF Has
    <3>2. i # 1
      BY <2>2, <2>4, <3>1
    <3>3. PICK j : j = i - 1
      OBVIOUS
    <3>4. j \in 1..Len(r) /\ r[j] = q[i]
      <4>1. j \in 1..Len(r) /\ j + 1 = i
        BY <2>1, <2>2, <3>1, <3>2, <3>3
      <4> QED
        BY <2>1, <4>1
    <3> QED
      BY <3>1, <3>4 DEF Has
  <2>5. (Has(r, cmd) => Has(q, cmd)) /\ (Has(q, cmd) => Head(q).cmd = cmd \/ Has(r, cmd))
    BY <2>3, <2>4
  <2> QED
    BY <2>5 DEF r
<1> QED
  BY <1>1, <1>2, <1>3

LEMMA GreetedStays ==
    ASSUME NEW q, NEW s, NEW e, NEW t, NEW f, Greeted(q, s, e),
           t.kind = "none" <=> s.kind = "none", t.on = s.on, f.kind = "ready" <=> e.kind = "ready"
    PROVE  Greeted(q, t, f)
BY DEF Greeted

LEMMA GreetedPosts ==
    ASSUME NEW q \in Seq(Message), NEW s, NEW e, NEW t, NEW m \in Message, Greeted(q, s, e),
           m.cmd # "GOODBYE", t.kind # "none", t.on = TRUE, s.kind = "none" => m.cmd = "HELLO"
    PROVE  Greeted(Append(q, m), t, e)
<1> DEFINE r == Append(q, m)
<1>1. r # <<>> /\ Head(r) = IF q = <<>> THEN m ELSE Head(q)
  <2>1. Len(r) = Len(q) + 1 /\ Len(q) \in Nat /\ r \in Seq(Message)
        /\ r[Len(q) + 1] = m /\ \A i \in 1..Len(q) : r[i] = q[i]
    BY AppendProperties, LenProperties
  <2>2. (Len(q) = 0 <=> q = <<>>) /\ (Len(r) = 0 <=> r = <<>>)
    BY <2>1, EmptySeq
  <2>3. r # <<>>
    BY <2>1, <2>2
  <2> HIDE DEF r
  <2>4. Head(r) = r[1]
    BY <2>3
  <2>5. q # <<>> => Head(q) = q[1] /\ 1 \in 1..Len(q)
    BY <2>1, <2>2
  <2> QED
    BY <2>1, <2>2, <2>3, <2>4, <2>5
<1>2. ~Has(r, "GOODBYE")
  BY HasFacts DEF Greeted
<1> HIDE DEF r
<1>3. Greeted(r, t, e)
  BY <1>1, <1>2 DEF Greeted
<1> QED
  BY <1>3 DEF r

LEMMA GreetedTakes ==
    ASSUME NEW q \in Seq(Message), q # <<>>, NEW s, NEW e, NEW f, Greeted(q, s, e), f.kind = "ready"
    PROVE  Greeted(Tail(q), s, f)
<1>1. ~Has(Tail(q), "GOODBYE")
  BY HasFacts DEF Greeted
<1> QED
  BY <1>1 DEF Greeted

\* More is on its way, or what is looked at in e is the same.
LEMMA ProbingStays ==
    ASSUME NEW e, NEW f, NEW q, NEW r, NEW x, NEW y, Probing(e, q, r),
           f.kind \in {"known", "ready"} =>
              f.evasive = f.expired \/
              (e.kind \in {"known", "ready"} /\ f.evasive = e.evasive /\ f.expired = e.expired),
           Has(q, "PING") => Has(x, "PING") \/ Has(y, "PING_OK"),
           Has(r, "PING_OK") => Has(y, "PING_OK") \/ f.evasive = f.expired
    PROVE  Probing(f, x, y)
BY DEF Probing

LEMMA EntryTimers ==
    ASSUME NEW e \in Peer, NEW seq \in 0 .. Width - 1
    PROVE  /\ Refresh(e).evasive = 0 /\ Refresh(e).expired = 0
           /\ Stamped(e).evasive = e.evasive /\ Stamped(e).expired = e.expired
           /\ Checked(e, seq).evasive = 0 /\ Checked(e, seq).expired = 0
           /\ Probed(e).evasive = 0 /\ Probed(e).expired = e.expired
<1>1. Refresh(e).evasive = 0 /\ Refresh(e).expired = 0
  BY DEF Refresh, Peer
<1>2. Stamped(e).evasive = e.evasive /\ Stamped(e).expired = e.expired
  BY DEF Stamped, Peer
<1>3. Checked(e, seq).evasive = 0 /\ Checked(e, seq).expired = 0
  <2>1. Refresh(e) \in Peer
    BY EntryOperators
  <2> QED
    BY <1>1, <2>1 DEF Checked, Peer
<1>4. Probed(e).evasive = 0 /\ Probed(e).expired = e.expired
  <2>1. PICK d : d = IF e.on THEN Stamped(e) ELSE e
    OBVIOUS
  <2>2. d \in Peer /\ d.expired = e.expired
    BY <1>2, <2>1, EntryOperators
  <2>3. Probed(e) = [d EXCEPT !.evasive = 0]
    BY <2>1 DEF Probed
  <2> QED
    BY <2>2, <2>3 DEF Peer
<1> QED
  BY <1>1, <1>2, <1>3, <1>4

(* Patience: one entry and its two queues *)

\* Nothing but the entry of p at n and what is between them changes.
Between(n, p, f) ==
    /\ n # p /\ f \in Peer
    /\ peer' = [peer EXCEPT ![n][p] = f]
    /\ \A a, b \in Node : <<a, b>> \notin {<<n, p>>, <<p, n>>} => net'[a][b] = net[a][b]
    /\ UNCHANGED <<live, asleep, reaped>>
    /\ spent'["sleep"] = spent["sleep"]

\* A new entry, or one that is refreshed, or one whose timers stay.
Timers(e, f) ==
    \/ f.evasive = 0 /\ f.expired = 0
    \/ /\ f.evasive = e.evasive /\ f.expired = e.expired
       /\ e.kind = f.kind \/ (e.kind = "known" /\ f.kind = "ready")

LEMMA LinksAre ==
    ASSUME Inv
    PROVE  0 \in 0 .. Width - 1 /\ net \in Links
<1>1. 0 \in 0 .. Width - 1
  BY WidthAssumption
<1>2. net \in Links
  BY DEF Inv, TypeOK, Links, Message
<1> QED
  BY <1>1, <1>2

LEMMA PeacefulFacts ==
    ASSUME Inv, Kept, Peaceful, NEW n \in Node, NEW p \in Node, n # p
    PROVE  /\ live = Node /\ Nap <= spent["sleep"]
           /\ Greeted(net[n][p], peer[n][p], peer[p][n])
           /\ Greeted(net[p][n], peer[p][n], peer[n][p])
           /\ Probing(peer[n][p], net[n][p], net[p][n])
           /\ Probing(peer[p][n], net[p][n], net[n][p])
           /\ Timed(n, p)
           /\ net[n][p] \in Seq(Message) /\ net[p][n] \in Seq(Message)
           /\ peer[n][p] \in Peer /\ peer[p][n] \in Peer
BY LinkFacts DEF Kept, Inv

LEMMA KeptPair ==
    ASSUME Inv, Kept, NEW n \in Node, NEW p \in Node, NEW f,
           Between(n, p, f), Timers(peer[n][p], f), Peaceful,
           Greeted(net'[n][p], f, peer[p][n]), Greeted(net'[p][n], peer[p][n], f),
           Probing(f, net'[n][p], net'[p][n]), Probing(peer[p][n], net'[p][n], net'[n][p])
    PROVE  Kept'
<1>1. /\ n # p /\ f \in Peer /\ peer' = [peer EXCEPT ![n][p] = f]
      /\ \A a, b \in Node : <<a, b>> \notin {<<n, p>>, <<p, n>>} => net'[a][b] = net[a][b]
      /\ live' = live /\ asleep' = asleep /\ reaped' = reaped
      /\ spent'["sleep"] = spent["sleep"]
  BY DEF Between
<1>2. peer \in [Node -> [Node -> Peer]] /\ spent["sleep"] \in Nat
  BY DEF Inv, TypeOK, Kinds
<1>3. /\ peer'[n][p] = f /\ peer'[p][n] = peer[p][n]
      /\ \A a, b \in Node : <<a, b>> # <<n, p>> => peer'[a][b] = peer[a][b]
  BY <1>1, <1>2
<1>4. live' = Node /\ Nap' <= spent'["sleep"] /\ Nap' = Nap
  <2>1. live = Node /\ Nap <= spent["sleep"]
    BY DEF Kept
  <2>2. Nap' = Nap
    BY <1>1 DEF Nap
  <2> QED
    BY <1>1, <2>1, <2>2
<1>5. ASSUME NEW a \in Node, NEW b \in Node, a # b
      PROVE  Timed(a, b)'
  <2>1. Timed(a, b)
    BY <1>5, PeacefulFacts
  <2>2. CASE a = n /\ b = p
    <3>1. Timed(n, p)
      BY <2>1, <2>2
    <3>2. EV \in Nat /\ Nap \in Nat /\ Nap <= spent["sleep"]
      BY <1>4, <1>1, TimeAssumption DEF Nap
    <3>3. /\ n \in reaped /\ f.kind \in {"known", "ready"} => f.evasive <= EV
          /\ f.kind # "none" => f.expired + Nap <= EV + 1 + spent["sleep"]
      BY <1>2, <3>1, <3>2 DEF Timed, Timers, InTable
    <3> QED
      BY <1>1, <1>3, <1>4, <2>2, <3>3 DEF Timed, InTable
  <2>3. CASE ~(a = n /\ b = p)
    <3>1. peer'[a][b] = peer[a][b]
      BY <1>3, <2>3
    <3> QED
      BY <1>1, <1>4, <2>1, <3>1 DEF Timed, InTable
  <2> QED
    BY <2>2, <2>3
<1>6. ASSUME NEW a \in Node, NEW b \in Node, a # b
      PROVE  /\ Greeted(net'[b][a], peer'[b][a], peer'[a][b])
             /\ Probing(peer'[a][b], net'[a][b], net'[b][a])
  <2>1. CASE a = n /\ b = p
    BY <1>3, <2>1
  <2>2. CASE a = p /\ b = n
    BY <1>3, <2>2
  <2>3. CASE ~(a = n /\ b = p) /\ ~(a = p /\ b = n)
    <3>1. /\ <<a, b>> \notin {<<n, p>>, <<p, n>>} /\ <<b, a>> \notin {<<n, p>>, <<p, n>>}
          /\ <<a, b>> # <<n, p>> /\ <<b, a>> # <<n, p>>
      BY <2>3
    <3>2. /\ net'[a][b] = net[a][b] /\ net'[b][a] = net[b][a]
          /\ peer'[a][b] = peer[a][b] /\ peer'[b][a] = peer[b][a]
      BY <1>1, <1>3, <3>1, Zenon
    <3> QED
      BY <1>6, <3>2, PeacefulFacts
  <2> QED
    BY <2>1, <2>2, <2>3
<1>7. \A a, b \in Node : a # b => /\ Greeted(net'[b][a], peer'[b][a], peer'[a][b])
                                  /\ Probing(peer'[a][b], net'[a][b], net'[b][a])
                                  /\ Timed(a, b)'
  BY <1>5, <1>6
<1> QED
  BY <1>4, <1>7 DEF Kept, Greeted, Probing, Has, InTable, Timed, Nap

LEMMA KeptPosts ==
    ASSUME Inv, Kept, Peaceful, NEW n \in Node, NEW p \in Node, NEW f, NEW x \in Message,
           Between(n, p, f), Timers(peer[n][p], f),
           x.cmd # "GOODBYE", f.kind # "none", f.on = TRUE, peer[n][p].kind = "none" => x.cmd = "HELLO",
           f.kind = "ready" <=> peer[n][p].kind = "ready",
           net' = [net EXCEPT ![n][p] = Append(@, x)]
    PROVE  Kept'
<1>1. n # p
  BY DEF Between
<1>2. PICK q, r, e, d : q = net[n][p] /\ r = net[p][n] /\ e = peer[n][p] /\ d = peer[p][n]
  OBVIOUS
<1>3. /\ q \in Seq(Message) /\ Greeted(q, e, d) /\ Greeted(r, d, e)
      /\ Probing(e, q, r) /\ Probing(d, r, q)
  BY <1>1, <1>2, PeacefulFacts
<1>4. net'[n][p] = Append(q, x) /\ net'[p][n] = r
  <2>1. net \in Links
    BY LinksAre
  <2> QED
    BY <1>1, <1>2, <2>1 DEF Links
<1>5. Greeted(Append(q, x), f, d)
  BY <1>2, <1>3, GreetedPosts
<1>6. Greeted(r, d, f)
  BY <1>2, <1>3, GreetedStays
<1>7. /\ Has(q, "PING") => Has(Append(q, x), "PING")
      /\ Has(q, "PING_OK") => Has(Append(q, x), "PING_OK")
  BY <1>3, HasFacts
<1>8. Probing(d, r, Append(q, x))
  BY <1>3, <1>7 DEF Probing
<1>9. Probing(f, Append(q, x), r)
  BY <1>2, <1>3, <1>7 DEF Probing, Timers
<1> QED
  BY <1>2, <1>4, <1>5, <1>6, <1>8, <1>9, KeptPair

\* n takes the head of net[p][n], and answers with x or not.
LEMMA KeptTakes ==
    ASSUME Inv, Kept, Peaceful, NEW n \in Node, NEW p \in Node, NEW f,
           Between(n, p, f), Timers(peer[n][p], f),
           net[p][n] # <<>>, f.kind = "ready", f.on = peer[n][p].on,
           peer[n][p].kind # "none", Head(net[p][n]).cmd # "PING",
           Head(net[p][n]).cmd = "PING_OK" => f.evasive = f.expired,
           net' = Taken(n, p)
    PROVE  Kept'
<1>1. n # p
  BY DEF Between
<1>2. PICK q, r, e, d : q = net[n][p] /\ r = net[p][n] /\ e = peer[n][p] /\ d = peer[p][n]
  OBVIOUS
<1>3. /\ q \in Seq(Message) /\ r \in Seq(Message) /\ Greeted(q, e, d) /\ Greeted(r, d, e)
      /\ Probing(e, q, r) /\ Probing(d, r, q)
  BY <1>1, <1>2, PeacefulFacts
<1>4. net'[n][p] = q /\ net'[p][n] = Tail(r)
  <2>1. net \in Links
    BY LinksAre
  <2> QED
    BY <1>1, <1>2, <2>1 DEF Links, Taken
<1>5. Greeted(q, f, d)
  BY <1>2, <1>3, GreetedStays
<1>6. Greeted(Tail(r), d, f)
  BY <1>2, <1>3, GreetedTakes
<1>7. /\ Has(r, "PING") => Has(Tail(r), "PING")
      /\ Has(r, "PING_OK") => Has(Tail(r), "PING_OK") \/ f.evasive = f.expired
  BY <1>2, <1>3, HasFacts
<1>8. Probing(d, Tail(r), q)
  BY <1>3, <1>7 DEF Probing
<1>9. Probing(f, q, Tail(r))
  BY <1>2, <1>3, <1>7 DEF Probing, Timers
<1> QED
  BY <1>2, <1>4, <1>5, <1>6, <1>8, <1>9, KeptPair

LEMMA KeptAnswers ==
    ASSUME Inv, Kept, Peaceful, NEW n \in Node, NEW p \in Node, NEW f, NEW x \in Message,
           Between(n, p, f), f.evasive = 0, f.expired = 0,
           net[p][n] # <<>>, f.kind = "ready", f.on = TRUE, x.cmd # "GOODBYE",
           peer[n][p].kind = "none" => x.cmd = "HELLO",
           Head(net[p][n]).cmd = "PING" => x.cmd = "PING_OK",
           net' = [Taken(n, p) EXCEPT ![n][p] = Append(@, x)]
    PROVE  Kept'
<1>1. n # p
  BY DEF Between
<1>2. PICK q, r, e, d : q = net[n][p] /\ r = net[p][n] /\ e = peer[n][p] /\ d = peer[p][n]
  OBVIOUS
<1>3. /\ q \in Seq(Message) /\ r \in Seq(Message) /\ Greeted(q, e, d) /\ Greeted(r, d, e)
      /\ Probing(e, q, r) /\ Probing(d, r, q)
  BY <1>1, <1>2, PeacefulFacts
<1>4. net'[n][p] = Append(q, x) /\ net'[p][n] = Tail(r)
  <2>1. net \in Links
    BY LinksAre
  <2> QED
    BY <1>1, <1>2, <2>1 DEF Links, Taken
<1>5. Greeted(Append(q, x), f, d)
  BY <1>2, <1>3, GreetedPosts
<1>6. Greeted(Tail(r), d, f)
  BY <1>2, <1>3, GreetedTakes
<1>7. /\ Has(r, "PING") => Has(Tail(r), "PING") \/ Has(Append(q, x), "PING_OK")
      /\ Has(q, "PING_OK") => Has(Append(q, x), "PING_OK")
  <2>1. Has(r, "PING") => Head(r).cmd = "PING" \/ Has(Tail(r), "PING")
    BY <1>2, <1>3, HasFacts
  <2>2. Has(q, "PING_OK") \/ x.cmd = "PING_OK" => Has(Append(q, x), "PING_OK")
    BY <1>3, HasFacts
  <2> QED
    BY <1>2, <2>1, <2>2
<1>8. Probing(d, Tail(r), Append(q, x))
  BY <1>3, <1>7 DEF Probing
<1>9. Probing(f, Append(q, x), Tail(r))
  BY DEF Probing
<1>10. Timers(e, f)
  BY DEF Timers
<1> QED
  BY <1>2, <1>4, <1>5, <1>6, <1>8, <1>9, <1>10, KeptPair

(* Patience: every step *)

LEMMA Charged ==
    ASSUME Inv, NEW k \in Kinds, Charge(k)
    PROVE  /\ spent' \in [Kinds -> Nat]
           /\ \A j \in Kinds : spent'[j] = IF j = k THEN spent[j] + 1 ELSE spent[j]
<1>1. spent \in [Kinds -> Nat] /\ spent' = [spent EXCEPT ![k] = @ + 1]
  BY DEF Inv, TypeOK, Charge
<1> QED
  BY <1>1

LEMMA ChargeElsewhere ==
    ASSUME Inv, NEW k \in {"dial", "announce", "whisper"}, Charge(k)
    PROVE  spent'["sleep"] = spent["sleep"]
BY DEF Inv, TypeOK, Kinds, Charge

LEMMA DialKept ==
    ASSUME Inv, Kept, Peaceful, NEW n \in Node, NEW p \in Node, Dial(n, p)
    PROVE  Kept'
<1>0. PICK f, x : /\ f = [Stamped(NoPeer) EXCEPT !.kind = "pending", !.on = TRUE]
                  /\ x = [cmd |-> "HELLO", seq |-> NextSeq(NoPeer)]
  OBVIOUS
<1>1. /\ n # p /\ peer[n][p].kind = "none" /\ UNCHANGED <<live, asleep, reaped>>
      /\ peer' = [peer EXCEPT ![n][p] = f] /\ net' = [net EXCEPT ![n][p] = Append(@, x)]
  BY <1>0 DEF Dial, Set, Posted
<1>3. f \in Peer /\ f.kind = "pending" /\ f.on = TRUE /\ f.evasive = 0 /\ f.expired = 0
  BY <1>0, GreetingIs
<1>4. x \in Message /\ x.cmd = "HELLO"
  BY <1>0, NoPeerFacts, MessageIs DEF Commands
<1>5. spent'["sleep"] = spent["sleep"]
  BY ChargeElsewhere DEF Dial
<1>6. \A a, b \in Node : <<a, b>> \notin {<<n, p>>, <<p, n>>} => net'[a][b] = net[a][b]
  <2>1. net \in Links
    BY LinksAre
  <2> QED
    BY <1>1, <2>1 DEF Links
<1>7. Between(n, p, f)
  BY <1>1, <1>3, <1>5, <1>6 DEF Between
<1>8. Timers(peer[n][p], f)
  BY <1>3 DEF Timers
<1> QED
  BY <1>1, <1>3, <1>4, <1>7, <1>8, KeptPosts

LEMMA AnnounceKept ==
    ASSUME Inv, Kept, Peaceful, NEW n \in Node, NEW p \in Node, Announce(n, p)
    PROVE  Kept'
<1>0. 0 \in 0 .. Width - 1 /\ net \in Links
  BY LinksAre
<1>1. /\ n # p /\ peer[n][p] \in Peer /\ UNCHANGED <<live, asleep, reaped>>
  BY LinkFacts DEF Announce, Inv
<1>2. spent'["sleep"] = spent["sleep"]
  BY ChargeElsewhere DEF Announce
<1>3. CASE InTable(n, p)
  <2>1. PICK f : f = Refresh(peer[n][p])
    OBVIOUS
  <2>2. peer' = [peer EXCEPT ![n][p] = f] /\ net' = net
    BY <1>3, <2>1 DEF Announce, Set
  <2>3. f \in Peer /\ f.kind = peer[n][p].kind /\ f.on = peer[n][p].on /\ f.evasive = 0 /\ f.expired = 0
    BY <1>0, <1>1, <2>1, EntryOperators, EntryTimers
  <2>4. Between(n, p, f) /\ Timers(peer[n][p], f)
    BY <1>1, <1>2, <2>2, <2>3 DEF Between, Timers
  <2>5. /\ Greeted(net[n][p], f, peer[p][n]) /\ Greeted(net[p][n], peer[p][n], f)
    BY <1>1, <2>3, PeacefulFacts, GreetedStays
  <2>6. Probing(f, net[n][p], net[p][n]) /\ Probing(peer[p][n], net[p][n], net[n][p])
    BY <1>1, <2>3, PeacefulFacts DEF Probing
  <2> QED
    BY <2>2, <2>4, <2>5, <2>6, KeptPair
<1>4. CASE ~InTable(n, p)
  <2>1. PICK f, x : /\ f = [Refresh(Stamped(peer[n][p])) EXCEPT !.kind = "known", !.on = TRUE]
                    /\ x = [cmd |-> "HELLO", seq |-> NextSeq(peer[n][p])]
    OBVIOUS
  <2>2. peer' = [peer EXCEPT ![n][p] = f] /\ net' = [net EXCEPT ![n][p] = Append(@, x)]
    BY <1>4, <2>1 DEF Announce, Set, Posted
  <2>3. f \in Peer /\ f.kind = "known" /\ f.on = TRUE /\ f.evasive = 0 /\ f.expired = 0
    <3>1. Stamped(peer[n][p]) \in Peer
      BY <1>0, <1>1, EntryOperators
    <3>2. /\ Refresh(Stamped(peer[n][p])) \in Peer
          /\ Refresh(Stamped(peer[n][p])).evasive = 0 /\ Refresh(Stamped(peer[n][p])).expired = 0
      BY <1>0, <3>1, EntryOperators, EntryTimers
    <3> QED
      BY <2>1, <3>2, ConnectedIs
  <2>4. x \in Message /\ x.cmd = "HELLO"
    BY <1>1, <2>1, MessageIs DEF Commands
  <2>5. \A a, b \in Node : <<a, b>> \notin {<<n, p>>, <<p, n>>} => net'[a][b] = net[a][b]
    BY <1>0, <2>2 DEF Links
  <2>6. Between(n, p, f) /\ Timers(peer[n][p], f)
    BY <1>1, <1>2, <2>2, <2>3, <2>5 DEF Between, Timers
  <2> QED
    BY <1>4, <2>2, <2>3, <2>4, <2>6, KeptPosts DEF InTable
<1> QED
  BY <1>3, <1>4

LEMMA WhisperKept ==
    ASSUME Inv, Kept, Peaceful, NEW n \in Node, NEW p \in Node, Whisper(n, p)
    PROVE  Kept'
<1>0. PICK f, x : /\ f = Stamped(peer[n][p])
                  /\ x = [cmd |-> "WHISPER", seq |-> NextSeq(peer[n][p])]
  OBVIOUS
<1>1. /\ InTable(n, p) /\ peer[n][p].on /\ peer[n][p] \in Peer /\ UNCHANGED <<live, asleep, reaped>>
      /\ peer' = [peer EXCEPT ![n][p] = f] /\ net' = [net EXCEPT ![n][p] = Append(@, x)]
  BY <1>0, LinkFacts DEF Whisper, Set, Posted, Inv
<1>2. n # p
  BY <1>1, LinkFacts, NoPeerFacts DEF InTable, Inv
<1>3. 0 \in 0 .. Width - 1 /\ net \in Links
  BY LinksAre
<1>4. /\ f \in Peer /\ f.kind = peer[n][p].kind /\ f.on = TRUE
      /\ f.evasive = peer[n][p].evasive /\ f.expired = peer[n][p].expired
  BY <1>0, <1>1, <1>3, EntryOperators, EntryTimers
<1>5. x \in Message /\ x.cmd = "WHISPER"
  BY <1>0, <1>1, MessageIs DEF Commands
<1>6. spent'["sleep"] = spent["sleep"]
  BY ChargeElsewhere DEF Whisper
<1>7. \A a, b \in Node : <<a, b>> \notin {<<n, p>>, <<p, n>>} => net'[a][b] = net[a][b]
  BY <1>1, <1>3 DEF Links
<1>8. Between(n, p, f) /\ Timers(peer[n][p], f)
  BY <1>1, <1>2, <1>4, <1>6, <1>7 DEF Between, Timers
<1> QED
  BY <1>1, <1>4, <1>5, <1>8, KeptPosts DEF InTable

\* What is taken from another node changes nothing beside the two.
LEMMA TakeBetween ==
    ASSUME Inv, NEW n \in Node, NEW p \in Node, NEW f \in Peer, NEW cmd, Take(n, p, cmd),
           peer' = [peer EXCEPT ![n][p] = f],
           \/ net' = Taken(n, p)
           \/ \E x \in Message : net' = [Taken(n, p) EXCEPT ![n][p] = Append(@, x)]
    PROVE  Between(n, p, f)
<1>1. /\ n # p /\ UNCHANGED <<live, asleep, reaped, spent>>
  BY TakeFacts DEF Inv, Take, Taking
<1>2. net \in Links /\ Taken(n, p) = [net EXCEPT ![p][n] = Tail(@)]
  BY DEF Inv, TypeOK, Links, Message, Taken
<1>3. Taken(n, p) \in [Node -> [Node -> Seq(Message) \cup {Tail(net[p][n])}]]
  BY <1>2 DEF Links
<1>4. \A a, b \in Node : <<a, b>> \notin {<<n, p>>, <<p, n>>} => Taken(n, p)[a][b] = net[a][b]
  BY <1>2 DEF Links
<1>5. ASSUME NEW x, net' = [Taken(n, p) EXCEPT ![n][p] = Append(@, x)]
      PROVE  \A a, b \in Node : <<a, b>> \notin {<<n, p>>, <<p, n>>} => net'[a][b] = net[a][b]
  BY <1>3, <1>4, <1>5
<1> QED
  BY <1>1, <1>4, <1>5 DEF Between

\* Only a HELLO is taken of a peer that is not ready.
LEMMA NotReadyTakes ==
    ASSUME Inv, Kept, Peaceful, NEW n \in Node, NEW p \in Node, NEW cmd, Take(n, p, cmd)
    PROVE  (Ready(n, p) \/ cmd = "HELLO") /\ cmd # "GOODBYE"
<1>1. /\ n # p /\ net[p][n] # <<>> /\ Head(net[p][n]).cmd = cmd
  BY TakeFacts DEF Inv, Take
<1>2. net[p][n] \in Seq(Message) /\ Greeted(net[p][n], peer[p][n], peer[n][p])
  BY <1>1, PeacefulFacts
<1>3. Head(net[p][n]).cmd # "GOODBYE"
  <2>1. 1 \in 1..Len(net[p][n]) /\ Head(net[p][n]) = net[p][n][1]
    BY <1>1, <1>2, EmptySeq
  <2> QED
    BY <1>2, <2>1 DEF Greeted, Has
<1> QED
  BY <1>1, <1>2, <1>3 DEF Greeted, Ready

LEMMA RecvHelloKept ==
    ASSUME Inv, Kept, Peaceful, NEW n \in Node, NEW p \in Node, RecvHello(n, p)
    PROVE  Kept'
<1>1. /\ net[p][n] # <<>> /\ n # p /\ peer[n][p] \in Peer /\ Take(n, p, "HELLO")
      /\ Head(net[p][n]).cmd = "HELLO"
  BY TakeFacts DEF RecvHello, Inv, Take
<1>2. 0 \in 0 .. Width - 1 /\ 1 \in 0..Width
  BY WidthAssumption
<1>3. PICK e : e = peer[n][p]
  OBVIOUS
<1>4. /\ Refresh(e) \in Peer /\ Refresh(e).kind = e.kind
      /\ Refresh(e).evasive = 0 /\ Refresh(e).expired = 0 /\ Refresh(e).on = e.on
  BY <1>1, <1>2, <1>3, EntryOperators, EntryTimers
<1>5. CASE e.kind \in {"ready", "known", "pending"}
  <2>1. PICK f : f = IF e.kind = "ready" THEN [Refresh(e) EXCEPT !.want = 1]
                     ELSE IF e.kind = "known" THEN [e EXCEPT !.want = 1, !.kind = "ready"]
                     ELSE [Refresh(e) EXCEPT !.kind = "ready"]
    OBVIOUS
  <2>2. peer' = [peer EXCEPT ![n][p] = f] /\ net' = Taken(n, p)
    <3>1. CASE e.kind = "ready"
      BY <1>3, <2>1, <3>1 DEF RecvHello, Set
    <3>2. CASE e.kind = "known"
      BY <1>3, <2>1, <3>2 DEF RecvHello, Set
    <3>3. CASE e.kind = "pending"
      BY <1>3, <2>1, <3>3 DEF RecvHello, Set
    <3> QED
      BY <1>5, <3>1, <3>2, <3>3
  <2>3. f \in Peer /\ f.kind = "ready" /\ f.on = e.on /\ Timers(e, f)
    <3>1. CASE e.kind = "ready"
      <4>1. f \in Peer /\ f.kind = "ready" /\ f.on = e.on /\ f.evasive = 0 /\ f.expired = 0
        BY <1>2, <1>4, <2>1, <3>1 DEF Peer
      <4> QED
        BY <4>1 DEF Timers
    <3>2. CASE e.kind = "known"
      <4> DEFINE d == [e EXCEPT !.want = 1]
      <4>1. d \in Peer /\ d.on = e.on /\ d.evasive = e.evasive /\ d.expired = e.expired
        BY <1>1, <1>2, <1>3 DEF Peer
      <4>2. f = [d EXCEPT !.kind = "ready"]
        BY <2>1, <3>2
      <4> HIDE DEF d
      <4>3. /\ f \in Peer /\ f.kind = "ready" /\ f.on = e.on
            /\ f.evasive = e.evasive /\ f.expired = e.expired
        BY <4>1, <4>2 DEF Peer
      <4> QED
        BY <3>2, <4>3 DEF Timers
    <3>3. CASE e.kind = "pending"
      <4>1. f \in Peer /\ f.kind = "ready" /\ f.on = e.on /\ f.evasive = 0 /\ f.expired = 0
        BY <1>4, <2>1, <3>3 DEF Peer
      <4> QED
        BY <4>1 DEF Timers
    <3> QED
      BY <1>5, <3>1, <3>2, <3>3
  <2>4. Between(n, p, f)
    BY <1>1, <2>2, <2>3, TakeBetween
  <2> QED
    BY <1>1, <1>3, <1>5, <2>2, <2>3, <2>4, KeptTakes
<1>6. CASE e.kind = "none"
  <2>1. PICK f, x : /\ f = [Stamped(NoPeer) EXCEPT !.kind = "ready", !.on = TRUE]
                    /\ x = [cmd |-> "HELLO", seq |-> NextSeq(NoPeer)]
    OBVIOUS
  <2>2. /\ peer' = [peer EXCEPT ![n][p] = f]
        /\ net' = [Taken(n, p) EXCEPT ![n][p] = Append(@, x)]
    BY <1>3, <1>6, <2>1 DEF RecvHello, Set, Posted
  <2>3. f \in Peer /\ f.kind = "ready" /\ f.on = TRUE /\ f.evasive = 0 /\ f.expired = 0
    BY <2>1, GreetingIs
  <2>4. x \in Message /\ x.cmd = "HELLO"
    BY <2>1, NoPeerFacts, MessageIs DEF Commands
  <2>5. Between(n, p, f)
    BY <1>1, <2>2, <2>3, <2>4, TakeBetween
  <2> QED
    BY <1>1, <2>2, <2>3, <2>4, <2>5, KeptAnswers
<1> QED
  BY <1>1, <1>3, <1>5, <1>6 DEF Peer

LEMMA RecvCheckedKept ==
    ASSUME Inv, Kept, Peaceful, NEW n \in Node, NEW p \in Node,
           RecvWhisper(n, p) \/ RecvPingOk(n, p)
    PROVE  Kept'
<1>1. PICK cmd \in {"WHISPER", "PING_OK"} : Take(n, p, cmd)
  BY DEF RecvWhisper, RecvPingOk
<1>2. /\ net[p][n] # <<>> /\ peer[n][p] \in Peer
      /\ Head(net[p][n]).cmd = cmd /\ Head(net[p][n]).seq \in 0 .. Width - 1
  BY <1>1, TakeFacts DEF Inv, Take
<1>3. PICK f : f = Checked(peer[n][p], Head(net[p][n]).seq)
  OBVIOUS
<1>4. peer[n][p].kind = "ready" /\ peer' = [peer EXCEPT ![n][p] = f] /\ net' = Taken(n, p)
  BY <1>3 DEF RecvWhisper, RecvPingOk, Set, Ready
<1>5. f \in Peer /\ f.kind = "ready" /\ f.on = peer[n][p].on /\ f.evasive = 0 /\ f.expired = 0
  BY <1>2, <1>3, <1>4, EntryOperators, EntryTimers
<1>6. Between(n, p, f) /\ Timers(peer[n][p], f)
  BY <1>1, <1>4, <1>5, TakeBetween DEF Timers
<1> QED
  BY <1>2, <1>4, <1>5, <1>6, KeptTakes

LEMMA RecvPingKept ==
    ASSUME Inv, Kept, Peaceful, NEW n \in Node, NEW p \in Node, RecvPing(n, p)
    PROVE  Kept'
<1>1. /\ net[p][n] # <<>> /\ peer[n][p] \in Peer /\ Take(n, p, "PING") /\ n # p
      /\ Head(net[p][n]).cmd = "PING" /\ Head(net[p][n]).seq \in 0 .. Width - 1
  BY TakeFacts DEF RecvPing, Inv, Take
<1>2. PICK c, f, x : /\ c = Checked(peer[n][p], Head(net[p][n]).seq) /\ f = Stamped(c)
                     /\ x = [cmd |-> "PING_OK", seq |-> NextSeq(c)]
  OBVIOUS
<1>3. peer[n][p].kind = "ready" /\ peer[n][p].on
  <2>1. peer[n][p].kind = "ready"
    BY DEF RecvPing, Ready
  <2>2. Greeted(net[n][p], peer[n][p], peer[p][n])
    BY <1>1, PeacefulFacts
  <2> QED
    BY <2>1, <2>2 DEF Greeted
<1>4. /\ c \in Peer /\ c.kind = "ready" /\ c.on
      /\ c.evasive = 0 /\ c.expired = 0
  <2>1. PICK e : e = peer[n][p]
    OBVIOUS
  <2>2. PICK seq \in 0 .. Width - 1 : seq = Head(net[p][n]).seq
    BY <1>1
  <2>3. e \in Peer /\ e.kind = "ready" /\ c = Checked(e, seq)
    BY <1>1, <1>2, <1>3, <2>1, <2>2
  <2>4. c \in Peer /\ c.kind = "ready" /\ c.on = e.on
    BY <2>2, <2>3, EntryOperators
  <2>5. c.evasive = 0 /\ c.expired = 0
    BY <2>2, <2>3, EntryTimers
  <2> QED
    BY <1>3, <2>1, <2>4, <2>5
<1>5. /\ peer' = [peer EXCEPT ![n][p] = f]
      /\ net' = [Taken(n, p) EXCEPT ![n][p] = Append(@, x)]
  BY <1>2, <1>3, <1>4 DEF RecvPing, Set, Posted
<1>6. f \in Peer /\ f.kind = "ready" /\ f.on = TRUE /\ f.evasive = 0 /\ f.expired = 0
  <2>1. 0 \in 0 .. Width - 1
    BY WidthAssumption
  <2>2. f \in Peer /\ f.kind = "ready" /\ f.on = c.on
    BY <1>2, <1>4, <2>1, EntryOperators
  <2>3. f.evasive = 0 /\ f.expired = 0
    BY <1>2, <1>4, <2>1, EntryTimers
  <2>4. f.on = TRUE
    BY <1>4, <2>2 DEF Peer
  <2> QED
    BY <2>2, <2>3, <2>4
<1>7. x \in Message /\ x.cmd = "PING_OK"
  BY <1>2, <1>4, MessageIs DEF Commands
<1>8. Between(n, p, f)
  BY <1>1, <1>5, <1>6, <1>7, TakeBetween
<1> QED
  BY <1>1, <1>3, <1>5, <1>6, <1>7, <1>8, KeptAnswers

LEMMA NobodyOverdue ==
    ASSUME Inv, Kept, Peaceful, NEW n \in Node
    PROVE  Overdue(n) = {}
<1>1. ASSUME NEW p \in Overdue(n) PROVE FALSE
  <2>1. p \in Node /\ peer[n][p].kind # "none" /\ peer[n][p].expired > EX
    BY DEF Overdue
  <2>2. n # p
    BY <2>1, LinkFacts, NoPeerFacts DEF Inv
  <2>3. peer[n][p].expired + Nap <= EV + 1 + spent["sleep"]
    BY <2>1, <2>2, PeacefulFacts DEF Timed
  <2>4. /\ peer[n][p].expired \in Nat /\ Nap \in Nat /\ spent["sleep"] \in Nat
        /\ EV \in Nat /\ EX \in Nat /\ EV < EX
    <3>1. peer[n][p] \in Peer /\ spent["sleep"] \in Nat
      BY <2>1 DEF Inv, TypeOK, Kinds
    <3> QED
      BY <3>1, TimeAssumption DEF Peer, Nap
  <2>5. spent["sleep"] <= EX - EV - 1
    BY DEF Peaceful, Slack
  <2> QED
    BY <2>1, <2>3, <2>4, <2>5
<1> QED
  BY <1>1

LEMMA ReapKept ==
    ASSUME Inv, Kept, Peaceful, NEW n \in Node, Reap(n), ~Charge("jam")
    PROVE  Kept'
<1>0. /\ \A a, b \in Node : a # n => peer'[a][b] = peer[a][b] /\ net'[a][b] = net[a][b]
      /\ \A p \in Node : Pinged(n, p) \/ Untouched(n, p)
      /\ spent' = spent
  <2>1. \A p \in Node : ~Removed(n, p) /\ ~Jammed(n, p)
    BY NobodyOverdue DEF Removed, Jammed
  <2> QED
    BY <2>1, ReapDoes DEF Inv
<1>1. /\ \A a, b \in Node : a # n => peer'[a][b] = peer[a][b] /\ net'[a][b] = net[a][b]
      /\ \A p \in Node :
            /\ p \in Quiet(n) =>
                  /\ p # n /\ InTable(n, p) /\ peer[n][p].on /\ peer'[n][p] = Probed(peer[n][p])
                  /\ net'[n][p] = Append(net[n][p], [cmd |-> "PING", seq |-> NextSeq(peer[n][p])])
            /\ p \notin Quiet(n) => peer'[n][p] = peer[n][p] /\ net'[n][p] = net[n][p]
  <2>1. ASSUME NEW p \in Node, p \in Quiet(n)
        PROVE  /\ p # n /\ InTable(n, p) /\ peer[n][p].on /\ peer'[n][p] = Probed(peer[n][p])
               /\ net'[n][p] = Append(net[n][p], [cmd |-> "PING", seq |-> NextSeq(peer[n][p])])
    <3>1. Pinged(n, p)
      BY <1>0, <2>1 DEF Untouched
    <3>2. Greeted(net[n][p], peer[n][p], peer[p][n])
      BY <3>1, PeacefulFacts DEF Pinged
    <3>3. peer[n][p].on
      BY <3>1, <3>2 DEF Pinged, Greeted, InTable
    <3> QED
      BY <3>1, <3>3 DEF Pinged
  <2>2. ASSUME NEW p \in Node, p \notin Quiet(n)
        PROVE  peer'[n][p] = peer[n][p] /\ net'[n][p] = net[n][p]
    BY <1>0, <2>2 DEF Pinged, Untouched
  <2> QED
    BY <1>0, <2>1, <2>2
<1>2. reaped' = reaped \cup {n} /\ UNCHANGED <<live, asleep, spent>>
  BY <1>0 DEF Reap
<1>3. live' = Node /\ Nap' = Nap /\ Nap <= spent["sleep"] /\ spent["sleep"] \in Nat /\ EV \in Nat
  <2>1. live = Node /\ Nap <= spent["sleep"]
    BY DEF Kept
  <2>2. spent["sleep"] \in Nat
    BY DEF Inv, TypeOK, Kinds
  <2> QED
    BY <1>2, <2>1, <2>2, TimeAssumption DEF Nap
<1>4. ASSUME NEW p \in Node, p # n
      PROVE  /\ Greeted(net'[n][p], peer'[n][p], peer[p][n])
             /\ Greeted(net[p][n], peer[p][n], peer'[n][p])
             /\ Probing(peer'[n][p], net'[n][p], net[p][n])
             /\ Probing(peer[p][n], net[p][n], net'[n][p])
             /\ InTable(n, p)' => peer'[n][p].evasive <= EV
             /\ peer'[n][p].kind # "none" => peer'[n][p].expired + Nap <= EV + 1 + spent["sleep"]
  <2>1. PICK q, r, e, d : q = net[n][p] /\ r = net[p][n] /\ e = peer[n][p] /\ d = peer[p][n]
    OBVIOUS
  <2>2. /\ q \in Seq(Message) /\ e \in Peer /\ Greeted(q, e, d) /\ Greeted(r, d, e)
        /\ Probing(e, q, r) /\ Probing(d, r, q) /\ Timed(n, p)
    BY <1>4, <2>1, PeacefulFacts
  <2>3. CASE p \in Quiet(n)
    <3>1. PICK x, f : x = [cmd |-> "PING", seq |-> NextSeq(e)] /\ f = Probed(e)
      OBVIOUS
    <3>2. InTable(n, p) /\ e.on /\ peer'[n][p] = f /\ net'[n][p] = Append(q, x)
      BY <1>1, <2>1, <2>3, <3>1
    <3>3. x \in Message /\ x.cmd = "PING"
      BY <2>2, <3>1, MessageIs DEF Commands
    <3>4. f.kind = e.kind /\ f.on = e.on /\ f.evasive = 0 /\ f.expired = e.expired
      BY <2>2, <3>1, LinksAre, EntryOperators, EntryTimers
    <3>5. e.kind \in {"known", "ready"}
      BY <2>1, <3>2 DEF InTable
    <3>6. Greeted(Append(q, x), f, d)
      BY <2>2, <3>2, <3>3, <3>4, <3>5, GreetedPosts
    <3>7. Greeted(r, d, f)
      BY <2>2, <3>4, GreetedStays
    <3>8. /\ Has(Append(q, x), "PING")
          /\ Has(q, "PING_OK") => Has(Append(q, x), "PING_OK")
      BY <2>2, <3>3, HasFacts
    <3>9. Probing(f, Append(q, x), r) /\ Probing(d, r, Append(q, x))
      BY <2>2, <3>8 DEF Probing
    <3>10. f.evasive <= EV /\ (f.kind # "none" => f.expired + Nap <= EV + 1 + spent["sleep"])
      BY <1>3, <2>1, <2>2, <3>4 DEF Timed
    <3> QED
      BY <2>1, <3>2, <3>6, <3>7, <3>9, <3>10
  <2>4. CASE p \notin Quiet(n)
    <3>1. peer'[n][p] = e /\ net'[n][p] = q
      BY <1>1, <2>1, <2>4
    <3>2. e.kind \in {"known", "ready"} => e.evasive <= EV
      <4>1. e.kind \in {"known", "ready"} => ~(e.evasive > EV)
        BY <2>1, <2>4, NobodyOverdue DEF Quiet, InTable
      <4> QED
        BY <1>3, <2>2, <4>1 DEF Peer
    <3>3. e.kind # "none" => e.expired + Nap <= EV + 1 + spent["sleep"]
      BY <2>1, <2>2 DEF Timed
    <3> QED
      BY <2>1, <2>2, <3>1, <3>2, <3>3 DEF InTable
  <2> QED
    BY <2>3, <2>4
<1>5. ASSUME NEW a \in Node, NEW b \in Node, a # b
      PROVE  /\ Greeted(net'[b][a], peer'[b][a], peer'[a][b])
             /\ Probing(peer'[a][b], net'[a][b], net'[b][a])
             /\ Timed(a, b)'
  <2>1. CASE a = n
    <3>1. net'[b][n] = net[b][n] /\ peer'[b][n] = peer[b][n]
      BY <1>1, <1>5, <2>1
    <3>2. Timed(n, b)'
      BY <1>2, <1>3, <1>4, <1>5, <2>1 DEF Timed, InTable
    <3> QED
      BY <1>4, <1>5, <2>1, <3>1, <3>2
  <2>2. CASE b = n
    <3>1. net'[a][n] = net[a][n] /\ peer'[a][n] = peer[a][n]
      BY <1>1, <1>5, <2>2
    <3>2. Timed(a, n)
      BY <1>5, <2>2, PeacefulFacts
    <3>3. Timed(a, n)'
      BY <1>2, <1>3, <1>5, <2>2, <3>1, <3>2 DEF Timed, InTable
    <3> QED
      BY <1>4, <1>5, <2>2, <3>1, <3>3
  <2>3. CASE a # n /\ b # n
    <3>1. /\ net'[a][b] = net[a][b] /\ net'[b][a] = net[b][a]
          /\ peer'[a][b] = peer[a][b] /\ peer'[b][a] = peer[b][a]
      BY <1>1, <2>3
    <3>2. /\ Greeted(net[b][a], peer[b][a], peer[a][b]) /\ Timed(a, b)
          /\ Probing(peer[a][b], net[a][b], net[b][a])
      BY <1>5, PeacefulFacts
    <3>3. Timed(a, b)'
      BY <1>2, <1>3, <2>3, <3>1, <3>2 DEF Timed, InTable
    <3> QED
      BY <3>1, <3>2, <3>3
  <2> QED
    BY <2>1, <2>2, <2>3
<1> QED
  BY <1>2, <1>3, <1>5 DEF Kept, Greeted, Probing, Has, InTable, Timed, Nap

LEMMA TickKept ==
    ASSUME Inv, Kept, Peaceful, NEW S, Tick(S)
    PROVE  Kept'
<1>1. /\ Awake \subseteq reaped /\ \A n \in Awake, p \in Node : net[p][n] = <<>>
      /\ reaped' = {} /\ asleep' = S /\ net' = net /\ live' = live
      /\ IF S = {} THEN spent' = spent ELSE Charge("sleep")
      /\ peer' = [n \in Node |-> [p \in Node |->
            IF peer[n][p].kind = "none" THEN NoPeer
            ELSE [peer[n][p] EXCEPT !.evasive = Older(@, EV + 1),
                                    !.expired = Older(@, EX + 1)]]]
  BY DEF Tick
<1>2. EV \in Nat /\ EX \in Nat /\ EV < EX /\ spent \in [Kinds -> Nat] /\ spent["sleep"] \in Nat
  BY TimeAssumption DEF Inv, TypeOK, Kinds
<1>3. live = Node /\ Nap <= spent["sleep"] /\ Nap \in {0, 1} /\ Nap' \in {0, 1}
  BY DEF Kept, Nap
<1>4. spent'["sleep"] = spent["sleep"] + Nap'
  <2>0. asleep' = S
    BY <1>1
  <2>1. CASE S = {}
    <3>1. Nap' = 0
      BY <2>0, <2>1 DEF Nap
    <3>2. spent' = spent
      BY <1>1, <2>1
    <3> QED
      BY <1>2, <3>1, <3>2
  <2>2. CASE S # {}
    <3>1. Nap' = 1
      BY <2>0, <2>2 DEF Nap
    <3>2. "sleep" \in Kinds /\ Charge("sleep")
      BY <1>1, <2>2 DEF Kinds
    <3>3. spent'["sleep"] = spent["sleep"] + 1
      BY <3>2, Charged
    <3> QED
      BY <3>1, <3>3
  <2> QED
    BY <2>1, <2>2
<1>5. ASSUME NEW a \in Node, NEW b \in Node, a # b
      PROVE  /\ Greeted(net'[b][a], peer'[b][a], peer'[a][b])
             /\ Probing(peer'[a][b], net'[a][b], net'[b][a])
             /\ Timed(a, b)'
  <2>1. PICK q, r, e, d : q = net[a][b] /\ r = net[b][a] /\ e = peer[a][b] /\ d = peer[b][a]
    OBVIOUS
  <2>2. /\ e \in Peer /\ d \in Peer /\ Greeted(q, e, d) /\ Greeted(r, d, e)
        /\ q \in Seq(Message) /\ r \in Seq(Message)
        /\ Probing(e, q, r) /\ Timed(a, b)
    BY <1>5, <2>1, PeacefulFacts
  <2>3. /\ peer'[a][b].kind = e.kind /\ peer'[b][a].kind = d.kind
        /\ d.kind # "none" => peer'[b][a].on = d.on
    <3>1. ASSUME NEW x \in Peer
          PROVE  LET f == [x EXCEPT !.evasive = Older(@, EV + 1), !.expired = Older(@, EX + 1)]
                 IN  f.kind = x.kind /\ f.on = x.on
      BY TickEntry
    <3>2. /\ peer'[a][b] = IF e.kind = "none" THEN NoPeer ELSE
                [e EXCEPT !.evasive = Older(@, EV + 1), !.expired = Older(@, EX + 1)]
          /\ peer'[b][a] = IF d.kind = "none" THEN NoPeer ELSE
                [d EXCEPT !.evasive = Older(@, EV + 1), !.expired = Older(@, EX + 1)]
      BY <1>1, <2>1
    <3> QED
      BY <2>2, <3>1, <3>2, NoPeerFacts
  <2>4. e.kind # "none" => /\ peer'[a][b].evasive = Older(e.evasive, EV + 1)
                           /\ peer'[a][b].expired = Older(e.expired, EX + 1)
    <3>1. e.kind # "none" => peer'[a][b] =
             [e EXCEPT !.evasive = Older(@, EV + 1), !.expired = Older(@, EX + 1)]
      BY <1>1, <2>1
    <3> QED
      BY <2>2, <3>1 DEF Peer
  <2>5. Greeted(net'[b][a], peer'[b][a], peer'[a][b])
    <3>1. Greeted(r, peer'[b][a], peer'[a][b])
      BY <2>2, <2>3 DEF Greeted
    <3> QED
      BY <1>1, <2>1, <3>1
  <2>6. e.kind # "none" => e.evasive \in 0 .. EV + 1 /\ e.expired \in 0 .. EX + 1
    BY <2>2 DEF Peer
  <2>7. Probing(peer'[a][b], net'[a][b], net'[b][a])
    <3>1. e.kind # "none" /\ e.evasive = e.expired /\ e.evasive <= EV =>
             Older(e.evasive, EV + 1) = Older(e.expired, EX + 1)
      BY <1>2, <2>6 DEF Older
    <3>2. e.kind # "none" /\ e.evasive > EV => Older(e.evasive, EV + 1) > EV
      BY <1>2, <2>6 DEF Older
    <3>3. e.kind # "none" => e.evasive <= EV \/ e.evasive > EV
      BY <1>2, <2>6
    <3> QED
      BY <1>1, <2>1, <2>2, <2>3, <2>4, <3>1, <3>2, <3>3 DEF Probing
  \* If nobody slept, both took all there was, so who is known is ready, and heard.
  <2>8. ASSUME e.kind # "none", asleep = {}
        PROVE  e.expired <= EV
    <3>1. a \in Awake /\ b \in Awake
      BY <1>3, <2>8 DEF Awake
    <3>2. q = <<>> /\ r = <<>> /\ a \in reaped
      BY <1>1, <2>1, <3>1
    <3>3. d.kind = "ready"
      BY <2>2, <2>8, <3>2 DEF Greeted
    <3>4. e.kind = "ready"
      BY <2>2, <3>2, <3>3 DEF Greeted
    <3>5. ~Has(<<>>, "PING") /\ ~Has(<<>>, "PING_OK")
      BY <2>2, HasFacts
    <3>6. e.evasive <= EV
      BY <2>1, <2>2, <3>2, <3>4 DEF Timed, InTable
    <3>7. e.evasive = e.expired \/ e.evasive > EV
      BY <2>2, <3>2, <3>4, <3>5 DEF Probing
    <3> QED
      BY <1>2, <2>6, <2>8, <3>6, <3>7
  <2>9. e.kind # "none" => Older(e.expired, EX + 1) <= EV + 1 + spent["sleep"]
    <3>1. CASE asleep = {}
      BY <1>2, <2>6, <2>8, <3>1 DEF Older
    <3>2. CASE asleep # {}
      <4>1. Nap = 1
        BY <3>2 DEF Nap
      <4>2. e.kind # "none" => e.expired + 1 <= EV + 1 + spent["sleep"]
        BY <2>1, <2>2, <4>1 DEF Timed
      <4> QED
        BY <1>2, <2>6, <4>2 DEF Older
    <3> QED
      BY <3>1, <3>2
  <2>10. Timed(a, b)'
    <3>1. peer'[a][b].kind # "none" =>
             peer'[a][b].expired + Nap' <= EV + 1 + spent'["sleep"]
      <4>1. e.kind # "none" => Older(e.expired, EX + 1) \in Nat
        BY <1>2, <2>6 DEF Older
      <4> QED
        BY <1>2, <1>3, <1>4, <2>3, <2>4, <2>9, <4>1
    <3> QED
      BY <1>1, <3>1 DEF Timed
  <2> QED
    BY <2>5, <2>7, <2>10
<1>6. live' = Node /\ Nap' <= spent'["sleep"]
  <2>1. live' = live
    BY <1>1
  <2> QED
    BY <1>2, <1>3, <1>4, <2>1
<1> QED
  BY <1>5, <1>6 DEF Kept, Greeted, Probing, Has, InTable, Timed, Nap

LEMMA KeptInit == ASSUME Init PROVE Kept
<1>1. /\ live = Node /\ asleep = {} /\ reaped = {}
      /\ \A n, p \in Node : peer[n][p] = NoPeer /\ net[n][p] = <<>>
      /\ spent["sleep"] = 0
  BY DEF Init, Kinds
<1>2. ~Has(<<>>, "GOODBYE")
  <2>1. <<>> \in Seq(Message)
    BY EmptySeq
  <2> QED
    BY <2>1, HasFacts
<1>3. Nap = 0
  BY <1>1 DEF Nap
<1> QED
  BY <1>1, <1>2, <1>3, NoPeerFacts DEF Kept, Greeted, Probing, Timed, InTable

\* While nobody departs and no queue is full, the budget of sleep only grows.
LEMMA PeacefulBefore ==
    ASSUME Inv, [Next]_vars, Peaceful'
    PROVE  Peaceful /\ ~Charge("jam") /\ \A n \in Node : ~Depart(n)
<1>1. spent \in [Kinds -> Nat] /\ {"dial", "announce", "whisper", "depart", "sleep", "jam"} = Kinds
  BY DEF Inv, TypeOK, Kinds
<1>2. spent' = spent \/ \E k \in Kinds : Charge(k)
  <2>1. ASSUME NEW n \in Node, NEW p \in Node,
               Dial(n, p) \/ Announce(n, p) \/ Whisper(n, p) \/ WhisperCut(n, p)
        PROVE  spent' = spent \/ \E k \in Kinds : Charge(k)
    BY <1>1, <2>1 DEF Dial, Announce, Whisper, WhisperCut
  <2>2. ASSUME NEW n \in Node, NEW p \in Node, Receive(n, p)
        PROVE  spent' = spent \/ \E k \in Kinds : Charge(k)
    BY <1>1, <2>2 DEF Receive, RecvHello, RecvWhisper, RecvPing, RecvPingCut, RecvPingOk,
                RecvGoodbye, RecvIgnored, Take
  <2>3. ASSUME NEW n \in Node, Reap(n) \/ Boot(n)
        PROVE  spent' = spent \/ \E k \in Kinds : Charge(k)
    BY <1>1, <2>3 DEF Reap, Boot
  <2>4. ASSUME NEW n \in Node, Depart(n)
        PROVE  \E k \in Kinds : Charge(k)
    BY <1>1, <2>4 DEF Depart
  <2>5. ASSUME NEW S, Tick(S)
        PROVE  spent' = spent \/ \E k \in Kinds : Charge(k)
    BY <1>1, <2>5 DEF Tick
  <2>6. CASE UNCHANGED vars
    BY <2>6 DEF vars
  <2> QED
    BY <2>1, <2>2, <2>3, <2>4, <2>5, <2>6 DEF Next
<1>3. /\ spent["sleep"] <= spent'["sleep"] /\ spent["depart"] <= spent'["depart"]
      /\ spent["jam"] <= spent'["jam"]
      /\ spent'["sleep"] \in Nat
  <2>1. CASE spent' = spent
    BY <1>1, <2>1
  <2>2. CASE \E k \in Kinds : Charge(k)
    BY <1>1, <2>2, Charged
  <2> QED
    BY <1>2, <2>1, <2>2
<1>4. ASSUME NEW n \in Node, Depart(n)
      PROVE  FALSE
  <2>1. spent'["depart"] = spent["depart"] + 1
    BY <1>1, <1>4, Charged DEF Depart
  <2> QED
    BY <1>1, <2>1 DEF Peaceful
<1>a. ASSUME Charge("jam")
      PROVE  FALSE
  <2>1. spent'["jam"] = spent["jam"] + 1
    BY <1>1, <1>a, Charged
  <2> QED
    BY <1>1, <2>1 DEF Peaceful
<1>5. spent'["depart"] = 0 /\ spent'["jam"] = 0 /\ spent'["sleep"] <= Slack /\ Slack \in Int
  <2>1. spent'["depart"] = 0 /\ spent'["jam"] = 0 /\ spent'["sleep"] <= Slack
    BY DEF Peaceful, Slack
  <2>2. Slack \in Int
    BY TimeAssumption DEF Slack
  <2> QED
    BY <2>1, <2>2
<1>6. Peaceful
  BY <1>1, <1>3, <1>5 DEF Peaceful
<1> QED
  BY <1>4, <1>a, <1>6

LEMMA KeptStep ==
    ASSUME Inv, Kept, [Next]_vars
    PROVE  Kept'
<1>1. CASE ~Peaceful'
  BY <1>1 DEF Kept
<1>2. CASE Peaceful'
  <2>0. Peaceful /\ ~Charge("jam") /\ \A n \in Node : ~Depart(n)
    BY <1>2, PeacefulBefore
  <2>1. ASSUME NEW n \in Node, NEW p \in Node, 
               Dial(n, p) \/ Announce(n, p) \/ Whisper(n, p) \/ WhisperCut(n, p)
        PROVE  Kept'
    <3>1. ~WhisperCut(n, p)
      BY <2>0 DEF WhisperCut
    <3> QED
      BY <2>0, <2>1, <3>1, DialKept, AnnounceKept, WhisperKept
  <2>2. ASSUME NEW n \in Node, NEW p \in Node, Receive(n, p)
        PROVE  Kept'
    <3>1. ~RecvGoodbye(n, p) /\ ~RecvIgnored(n, p) /\ ~RecvPingCut(n, p)
      BY <2>0, NotReadyTakes DEF RecvGoodbye, RecvIgnored, RecvPingCut
    <3> QED
      BY <2>0, <2>2, <3>1, RecvHelloKept, RecvCheckedKept, RecvPingKept DEF Receive
  <2>3. ASSUME NEW n \in Node, Reap(n)
        PROVE  Kept'
    BY <2>0, <2>3, ReapKept
  <2>4. ASSUME NEW n \in Node, Boot(n)
        PROVE  FALSE
    BY <2>0, <2>4 DEF Kept, Boot
  <2>5. ASSUME NEW S, Tick(S)
        PROVE  Kept'
    BY <2>0, <2>5, TickKept
  <2>6. CASE UNCHANGED vars
    BY <2>6 DEF vars, Kept, Peaceful, Greeted, Probing, Has, InTable, Ready, Timed, Nap
  <2> QED
    BY <2>0, <2>1, <2>2, <2>3, <2>4, <2>5, <2>6 DEF Next
<1> QED
  BY <1>1, <1>2

\* However long EX is over EV, as long as nobody departs, no queue is full and the nodes
\* sleep for no more ticks than lie between the two, _reap removes nobody who is ready: every
\* silence is probed in time, and every PING is answered.
THEOREM PatienceHolds == Spec => Patience
<1>1. Init => Inv /\ Kept
  BY InvInit, KeptInit
<1>2. Inv /\ Kept /\ [Next]_vars => Inv' /\ Kept'
  BY InvStep, KeptStep
<1>3. ASSUME Inv, Kept, [Next]_vars, 
             spent'["depart"] = 0 /\ spent'["jam"] = 0 /\ spent'["sleep"] <= Slack, NEW n \in Node
      PROVE  services[n] \subseteq services'[n]
  <2>0. /\ Peaceful /\ \A m \in Node : ~Depart(m)
        /\ services \in [Node -> SUBSET Node]
    <3>1. Peaceful'
      BY <1>3 DEF Peaceful, Slack
    <3> QED
      BY <1>3, <3>1, PeacefulBefore DEF Inv, Booked
  <2>1. ASSUME NEW m \in Node, NEW p \in Node,
               Dial(m, p) \/ Announce(m, p) \/ Whisper(m, p) \/ WhisperCut(m, p)
        PROVE  services' = services
    BY <2>1 DEF Dial, Announce, Whisper, WhisperCut, app
  <2>2. ASSUME NEW m \in Node, NEW p \in Node, Receive(m, p)
        PROVE  services' = services \/ Enter(m, p)
    <3>1. ~RecvGoodbye(m, p)
      BY <1>3, <2>0, NotReadyTakes DEF RecvGoodbye
    <3> QED
      BY <2>2, <3>1 DEF Receive, RecvHello, RecvWhisper, RecvPing, RecvPingCut,
                  RecvPingOk, RecvIgnored, app
  <2>3. ASSUME NEW m \in Node, Reap(m)
        PROVE  services' = services
    <3>1. Overdue(m) = {}
      BY <1>3, <2>0, NobodyOverdue
    <3>2. PICK S : Report(m, {p \in Overdue(m) : InTable(m, p)}, S)
      BY <2>3 DEF Reap
    <3>3. services' = [services EXCEPT ![m] = @ \ {}]
      <4>1. {p \in Overdue(m) : InTable(m, p)} = {}
        BY <3>1
      <4> QED
        BY <3>2, <4>1 DEF Report
    <3> QED
      BY <2>0, <3>3
  <2>4. ASSUME NEW m \in Node, Boot(m)
        PROVE  services' = services
    BY <2>4 DEF Boot, app
  <2>5. ASSUME NEW S, Tick(S)
        PROVE  services' = services
    BY <2>5 DEF Tick, app
  <2>6. CASE UNCHANGED vars
    BY <2>6 DEF vars, app
  <2>7. ASSUME NEW m \in Node, NEW p \in Node, Enter(m, p)
        PROVE  services[n] \subseteq services'[n]
    BY <2>0, <2>7 DEF Enter
  <2> QED
    BY <1>3, <2>0, <2>1, <2>2, <2>3, <2>4, <2>5, <2>6, <2>7 DEF Next
<1>4. Inv /\ Kept /\ [Next]_vars =>
         (spent'["depart"] = 0 /\ spent'["jam"] = 0 /\ spent'["sleep"] <= Slack =>
             \A n \in Node : services[n] \subseteq services'[n])
  BY <1>3
<1> QED
  BY <1>1, <1>2, <1>4, PTL DEF Spec, Patience
=============================================================================
