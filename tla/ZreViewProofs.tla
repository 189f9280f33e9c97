---------------------------- MODULE ZreViewProofs ----------------------------
(***************************************************************************)
(* What nodes and applications see of each other, for any set of nodes and *)
(* groups, any queue bound and any budget of environment steps: undisturbed *)
(* nodes agree on each other's groups, and ZreMesh implements Presence.    *)
(* Both arguments rest on the invariants of ZreMeshProofs.                 *)
(***************************************************************************)
EXTENDS ZreMeshPresence, ZreMeshProofs

(* Queues: what a message appended or taken changes of what a queue says *)

LEMMA QueueAppend ==
    ASSUME NEW q \in Seq(Message), NEW m \in Message, NEW g \in Group,
           NEW b \in BOOLEAN
    PROVE  /\ Says(m, g, b) => LastTells(Append(q, m), g, b)
           /\ ~Tells(m, g) /\ LastTells(q, g, b) => LastTells(Append(q, m), g, b)
           /\ ~Tells(m, g) /\ Quiet(q, g) => Quiet(Append(q, m), g)
<1>1. /\ Len(Append(q, m)) = Len(q) + 1
      /\ \A i \in 1 .. Len(q) : Append(q, m)[i] = q[i]
      /\ Append(q, m)[Len(q) + 1] = m
      /\ Append(q, m) \in Seq(Message)
  BY AppendProperties
<1>2. /\ DOMAIN q = 1 .. Len(q) /\ Len(q) \in Nat
      /\ DOMAIN Append(q, m) = 1 .. Len(q) + 1
  BY <1>1
<1>3. Says(m, g, b) => LastTells(Append(q, m), g, b)
  BY <1>1, <1>2 DEF LastTells
<1>4. ASSUME ~Tells(m, g), LastTells(q, g, b)
      PROVE  LastTells(Append(q, m), g, b)
  <2>1. PICK i \in DOMAIN q : /\ Says(q[i], g, b)
                              /\ \A j \in DOMAIN q : j > i => ~Tells(q[j], g)
    BY <1>4 DEF LastTells
  <2>2. \A j \in DOMAIN Append(q, m) : j > i => ~Tells(Append(q, m)[j], g)
    BY <1>1, <1>2, <1>4, <2>1
  <2> QED BY <1>1, <1>2, <2>1, <2>2 DEF LastTells
<1>5. ~Tells(m, g) /\ Quiet(q, g) => Quiet(Append(q, m), g)
  BY <1>1, <1>2 DEF Quiet
<1> QED BY <1>3, <1>4, <1>5

LEMMA QueueTail ==
    ASSUME NEW q \in Seq(Message), q # <<>>, NEW g \in Group, NEW b \in BOOLEAN
    PROVE  /\ Quiet(q, g) => Quiet(Tail(q), g) /\ ~Tells(Head(q), g)
           /\ LastTells(q, g, b) => \/ LastTells(Tail(q), g, b)
                                    \/ Quiet(Tail(q), g) /\ Says(Head(q), g, b)
<1>1. /\ Len(Tail(q)) = Len(q) - 1
      /\ \A i \in 1 .. Len(Tail(q)) : Tail(q)[i] = q[i + 1]
      /\ Head(q) = q[1] /\ 1 \in DOMAIN q
      /\ Tail(q) \in Seq(Message)
  BY HeadTailProperties, EmptySeq
<1>2. /\ DOMAIN q = 1 .. Len(q) /\ Len(q) \in Nat
      /\ DOMAIN Tail(q) = 1 .. Len(q) - 1
  BY <1>1
<1>3. \A j \in DOMAIN Tail(q) : j + 1 \in DOMAIN q /\ j + 1 > 1 /\ Tail(q)[j] = q[j + 1]
  BY <1>1, <1>2
<1>4. Quiet(q, g) => Quiet(Tail(q), g) /\ ~Tells(Head(q), g)
  BY <1>1, <1>3 DEF Quiet
<1>5. ASSUME LastTells(q, g, b)
      PROVE  \/ LastTells(Tail(q), g, b)
             \/ Quiet(Tail(q), g) /\ Says(Head(q), g, b)
  <2>1. PICK i \in DOMAIN q : /\ Says(q[i], g, b)
                              /\ \A j \in DOMAIN q : j > i => ~Tells(q[j], g)
    BY <1>5 DEF LastTells
  <2>2. CASE i = 1
    BY <1>1, <1>3, <2>1, <2>2 DEF Quiet
  <2>3. CASE i # 1
    <3>1. i - 1 \in DOMAIN Tail(q) /\ Tail(q)[i - 1] = q[i]
      BY <1>1, <1>2, <2>3
    <3>2. \A j \in DOMAIN Tail(q) : j > i - 1 => ~Tells(Tail(q)[j], g)
      BY <1>2, <1>3, <2>1
    <3> QED BY <2>1, <3>1, <3>2 DEF LastTells
  <2> QED BY <2>2, <2>3
<1> QED BY <1>4, <1>5

\* Which messages are about a group, and what they say.
LEMMA WhatTells ==
    ASSUME NEW m \in Message, NEW g \in Group
    PROVE  /\ m.type = "HELLO" => /\ Affirms(m, g) <=> g \in m.groups
                                  /\ Denies(m, g) <=> g \notin m.groups
           /\ m.type = "JOIN" => (Affirms(m, g) <=> m.group = g) /\ ~Denies(m, g)
           /\ m.type = "LEAVE" => (Denies(m, g) <=> m.group = g) /\ ~Affirms(m, g)
           /\ m.type \in {"SHOUT", "WHISPER"} => ~Tells(m, g)
BY DEF Affirms, Denies, Tells

\* A HELLO that lists n's groups says of every group whether n is in it.
LEMMA HelloSays ==
    ASSUME NEW G \in SUBSET Group, NEW g \in Group
    PROVE  LastTells(Append(<<>>, Hello(G)), g, g \in G)
<1>1. Hello(G) \in Message /\ Says(Hello(G), g, g \in G)
  BY MessageMade DEF Says, Affirms, Denies, Hello
<1>2. <<>> \in Seq(Message) /\ (g \in G) \in BOOLEAN
  OBVIOUS
<1> QED BY <1>1, <1>2, QueueAppend

-----------------------------------------------------------------------------
(* What a step of the pair's nodes does to Agrees *)

\* Nothing that Agrees(a, b, g) is about changes.
Still(a, b, g) ==
    /\ net'[a][b] = net[a][b]
    /\ g \in own'[a] <=> g \in own[a]
    /\ g \in pgroups'[b][a] <=> g \in pgroups[b][a]

LEMMA StillAgrees ==
    ASSUME NEW a \in Node, NEW b \in Node, NEW g \in Group,
           Agrees(a, b, g), Still(a, b, g)
    PROVE  Agrees(a, b, g)'
<1>1. (g \in own'[a]) = (g \in own[a])
  BY DEF Still
<1>2. CASE LastTells(net[a][b], g, g \in own[a])
  BY <1>1, <1>2 DEF Agrees, Still, LastTells
<1>3. CASE Quiet(net[a][b], g) /\ (g \in own[a] <=> g \in pgroups[b][a])
  BY <1>3 DEF Agrees, Still, Quiet
<1> QED BY <1>2, <1>3 DEF Agrees

\* A pair is not calmed but by a restart.
LEMMA UndisturbedBefore ==
    ASSUME TypeOK, NEW n \in Node, NEW p \in Node, StepOf(n, p), ~Boot(n),
           NEW a \in Node, NEW b \in Node, Undisturbed(a, b)'
    PROVE  Undisturbed(a, b)
<1>1. \A m \in Node : Up(m)' => Up(m)
  BY DEF StepOf, Stop, Close, Crash, SendWhisper, Join, Leave, Shout,
     SendBeacon, RecvHereKnown, Discover, RecvGone, Hear, LoseBeacon, HelloRefresh,
     HelloComplete, HelloAdmit, RecvJoin, RecvLeave, RecvData, RecvIgnored, Take,
     Silence, Resume, Expire, Discard, Perish, Up, TypeOK
<1>2. b \in torn[a] => b \in torn'[a]
  <2>1. CASE \E Q : Tear(n, Q)
    BY <2>1 DEF Tear, TypeOK
  <2>2. CASE UNCHANGED torn
    BY <2>2
  <2>3. (\E Q : Tear(n, Q)) \/ UNCHANGED torn
    BY DEF StepOf, Stop, Close, Crash, SendWhisper, Join, Leave, Shout, Post,
       SendBeacon, RecvHereKnown, Discover, RecvGone, Drop, LoseBeacon,
       HelloRefresh, HelloComplete, HelloAdmit, RecvJoin, RecvLeave, RecvData,
       RecvIgnored, Silence, Resume, Expire, Discard, Perish
  <2> QED BY <2>1, <2>2, <2>3
<1> QED BY <1>1, <1>2 DEF Undisturbed

\* The handshake invariant of an undisturbed pair that has met.
LEMMA Met ==
    ASSUME Handshake, NEW a \in Node, NEW b \in Node, Undisturbed(a, b)
    PROVE  Greeted(a, b) /\ Greeted(b, a) /\ Local(a) /\ Local(b)
<1>1. Session(a, b) /\ Session(b, a) /\ a \notin torn[b]
  BY DEF Handshake, Undisturbed
<1>2. phase[a] # "down" /\ phase[b] # "down"
  BY DEF Undisturbed, Up
<1> QED BY <1>1, <1>2 DEF Session, Undisturbed, Handshake, Tables

\* A pair that a restart leaves undisturbed has not met.
LEMMA BootUnmet ==
    ASSUME TypeOK, Handshake, NEW n \in Node, Boot(n),
           NEW a \in Node, NEW b \in Node, n \in {a, b}, Undisturbed(a, b)'
    PROVE  b \notin known'[a]
<1>1. a # b /\ b \notin torn'[a]
  BY DEF Undisturbed
<1>2. b \notin torn[a] \/ Clean(a, b)
  BY <1>1 DEF Boot
<1>3. ~Up(n)
  BY DEF Boot, Up
<1>4. CASE b \notin torn[a]
  <2>1. b \notin known[a]
    BY <1>1, <1>3, <1>4 DEF Handshake, Session, Unmet
  <2> QED BY <2>1 DEF Boot, Forget, TypeOK
<1>5. CASE Clean(a, b)
  BY <1>5 DEF Clean, Boot, Forget, TypeOK
<1> QED BY <1>2, <1>4, <1>5

\* A command is queued for every undisturbed peer, behind its HELLO.
LEMMA PostAgrees ==
    ASSUME TypeOK, Handshake, NEW a \in Node, NEW b \in Node, Undisturbed(a, b)',
           Undisturbed(a, b), b \in known[a], NEW g \in Group, Agrees(a, b, g),
           NEW T \in SUBSET Node, NEW m \in Message, Post(a, T, m),
           UNCHANGED pgroups,
           \/ ~Tells(m, g) /\ (g \in own'[a] <=> g \in own[a])
           \/ b \in T /\ Says(m, g, g \in own'[a])
    PROVE  Agrees(a, b, g)'
<1>1. b \notin torn'[a] /\ a # b
  BY DEF Undisturbed
<1>2. b \notin Clogged(a, T)
  BY <1>1 DEF Post, Tear
<1>3. b \in linked[a]
  BY Met DEF Greeted
<1>4. net'[a][b] = IF b \in T THEN Append(net[a][b], m) ELSE net[a][b]
  BY <1>2, <1>3 DEF Post, TypeOK
<1>5. net[a][b] \in Seq(Message) /\ (g \in own[a]) \in BOOLEAN
      /\ (g \in own'[a]) \in BOOLEAN
  BY DEF TypeOK
<1>6. CASE b \in T /\ Says(m, g, g \in own'[a])
  <2>1. LastTells(Append(net[a][b], m), g, g \in own'[a])
    BY <1>5, <1>6, QueueAppend
  <2>2. LastTells(net'[a][b], g, g \in own'[a])
    BY <1>4, <1>6, <2>1
  <2> QED BY <2>2 DEF Agrees, LastTells
<1>7. CASE ~Tells(m, g) /\ (g \in own'[a] <=> g \in own[a])
  <2>1. (g \in own'[a]) = (g \in own[a])
    BY <1>7
  <2>2. CASE LastTells(net[a][b], g, g \in own[a])
    <3>1. LastTells(net'[a][b], g, g \in own[a])
      BY <1>4, <1>5, <1>7, <2>2, QueueAppend
    <3>2. LastTells(net'[a][b], g, g \in own'[a])
      BY <2>1, <3>1
    <3> QED BY <3>2 DEF Agrees, LastTells
  <2>3. CASE Quiet(net[a][b], g) /\ (g \in own[a] <=> g \in pgroups[b][a])
    <3>1. Quiet(net'[a][b], g)
      BY <1>4, <1>5, <1>7, <2>3, QueueAppend
    <3> QED BY <1>7, <2>3, <3>1 DEF Agrees, Quiet
  <2> QED BY <2>2, <2>3 DEF Agrees
<1> QED BY <1>6, <1>7

\* A message that is taken leaves b with what it says of g.
LEMMA ConsumeAgrees ==
    ASSUME TypeOK, NEW a \in Node, NEW b \in Node, NEW g \in Group,
           Agrees(a, b, g), net[a][b] # <<>>, net'[a][b] = Tail(net[a][b]),
           own'[a] = own[a],
           Affirms(Head(net[a][b]), g) => g \in pgroups'[b][a],
           Denies(Head(net[a][b]), g) => g \notin pgroups'[b][a],
           ~Tells(Head(net[a][b]), g) =>
              (g \in pgroups'[b][a] <=> g \in pgroups[b][a])
    PROVE  Agrees(a, b, g)'
<1>1. net[a][b] \in Seq(Message) /\ (g \in own[a]) \in BOOLEAN
  BY DEF TypeOK
<1>2. CASE LastTells(net[a][b], g, g \in own[a])
  <2>1. CASE LastTells(Tail(net[a][b]), g, g \in own[a])
    <3>1. LastTells(net'[a][b], g, g \in own'[a])
      BY <2>1
    <3> QED BY <3>1 DEF Agrees, LastTells
  <2>2. CASE Quiet(Tail(net[a][b]), g) /\ Says(Head(net[a][b]), g, g \in own[a])
    <3>1. g \in own'[a] <=> g \in pgroups'[b][a]
      BY <2>2 DEF Says
    <3>2. Quiet(net'[a][b], g)
      BY <2>2
    <3> QED BY <3>1, <3>2 DEF Agrees, Quiet
  <2> QED BY <1>1, <1>2, <2>1, <2>2, QueueTail
<1>3. CASE Quiet(net[a][b], g) /\ (g \in own[a] <=> g \in pgroups[b][a])
  <2>1. Quiet(Tail(net[a][b]), g) /\ ~Tells(Head(net[a][b]), g)
    BY <1>1, <1>3, QueueTail
  <2>2. Quiet(net'[a][b], g)
    BY <2>1
  <2> QED BY <1>3, <2>1, <2>2 DEF Agrees, Quiet
<1> QED BY <1>2, <1>3 DEF Agrees

-----------------------------------------------------------------------------
(* One lemma per kind of step: an undisturbed pair that agreed still does *)

\* A step of a third node.
LEMMA OthersAgree ==
    ASSUME TypeOK, NEW n \in Node, NEW p \in Node, StepOf(n, p),
           NEW a \in Node, NEW b \in Node, NEW g \in Group, n \notin {a, b},
           b \in known[a] => Agrees(a, b, g), b \in known'[a]
    PROVE  Agrees(a, b, g)'
<1>1. Aside(a, b) /\ SameTables(a) /\ SameTables(b)
  BY OthersAside, OthersStep
<1>2. own'[a] = own[a]
  BY DEF StepOf, Boot, Forget, Stop, Close, Crash, SendWhisper, Join, Leave, Shout,
     SendBeacon, RecvHereKnown, Discover, RecvGone, Hear, LoseBeacon, HelloRefresh,
     HelloComplete, HelloAdmit, RecvJoin, RecvLeave, RecvData, RecvIgnored, Take,
     Silence, Resume, Expire, Discard, Perish, node, TypeOK
<1>3. Still(a, b, g)
  BY <1>1, <1>2 DEF Aside, SameTables, Still
<1>4. b \in known[a]
  BY <1>1 DEF Aside
<1> QED BY <1>3, <1>4, StillAgrees

\* Stopping, closing and crashing end the session.
LEMMA LifeAgrees ==
    ASSUME TypeOK, NEW n \in Node, Stop(n) \/ Close(n) \/ Crash(n),
           NEW a \in Node, NEW b \in Node, n \in {a, b}
    PROVE  ~Undisturbed(a, b)'
<1>1. phase'[n] # "up"
  BY DEF Stop, Close, Crash, TypeOK
<1> QED BY <1>1 DEF Undisturbed, Up

\* A step that touches no queue, no own group and no view of a group.
LEMMA IdleAgrees ==
    ASSUME NEW n \in Node, NEW p \in Node,
           \/ SendBeacon(n) \/ RecvHereKnown(n, p)
           \/ \E c \in {"here", "gone"} : LoseBeacon(n, p, c)
           \/ Silence(n, p) \/ Resume(n, p),
           NEW a \in Node, NEW b \in Node, NEW g \in Group,
           b \in known[a] => Agrees(a, b, g), b \in known'[a]
    PROVE  Agrees(a, b, g)'
<1>1. UNCHANGED <<net, own, pgroups, known>>
  BY DEF SendBeacon, RecvHereKnown, Hear, LoseBeacon, Silence, Resume, node
<1>2. Still(a, b, g)
  BY <1>1 DEF Still
<1> QED BY <1>1, <1>2, StillAgrees

\* JOIN and LEAVE go to every peer of the table, SHOUT and WHISPER tell nothing.
LEMMA CommandAgrees ==
    ASSUME TypeOK, Handshake, NEW n \in Node, NEW p \in Node,
           \/ SendWhisper(n, p)
           \/ \E h \in Group : Join(n, h) \/ Leave(n, h) \/ Shout(n, h),
           NEW a \in Node, NEW b \in Node, NEW g \in Group, n \in {a, b},
           Undisturbed(a, b), Undisturbed(a, b)',
           b \in known[a] => Agrees(a, b, g), b \in known'[a]
    PROVE  Agrees(a, b, g)'
<1>1. UNCHANGED <<known, pgroups>> /\ b \in known[a] /\ a # b
  BY DEF SendWhisper, Join, Leave, Shout, Undisturbed
<1>2. CASE n # a
  <2>1. own'[a] = own[a]
    BY <1>2 DEF SendWhisper, Join, Leave, Shout, TypeOK
  <2>2. PICK T, m : Post(n, T, m)
    BY DEF SendWhisper, Join, Leave, Shout
  <2>3. net'[a][b] = net[a][b]
    BY <1>2, <2>2 DEF Post, TypeOK
  <2>4. Still(a, b, g)
    BY <1>1, <2>1, <2>3 DEF Still
  <2> QED BY <1>1, <2>4, StillAgrees
<1>3. CASE n = a
  <2>1. CASE SendWhisper(n, p)
    <3>1. Post(a, {p}, Whisper) /\ own' = own /\ {p} \in SUBSET Node
      BY <1>3, <2>1 DEF SendWhisper
    <3>2. Whisper \in Message /\ ~Tells(Whisper, g)
      BY MessageMade DEF Whisper, Tells, Affirms, Denies
    <3>3. g \in own'[a] <=> g \in own[a]
      BY <3>1
    <3> QED BY <1>1, <3>1, <3>2, <3>3, PostAgrees
  <2>2. ASSUME NEW h \in Group, Shout(n, h)
        PROVE  Agrees(a, b, g)'
    <3>1. Post(a, members[a][h], Command("SHOUT", h)) /\ own' = own
      BY <1>3, <2>2 DEF Shout
    <3>2. members[a][h] \in SUBSET Node
      BY DEF TypeOK
    <3>3. Command("SHOUT", h) \in Message /\ ~Tells(Command("SHOUT", h), g)
      BY MessageMade DEF Command, Tells, Affirms, Denies
    <3>4. g \in own'[a] <=> g \in own[a]
      BY <3>1
    <3> QED BY <1>1, <3>1, <3>2, <3>3, <3>4, PostAgrees
  <2>3. ASSUME NEW h \in Group, Join(n, h)
        PROVE  Agrees(a, b, g)'
    <3>1. Post(a, known[a], Command("JOIN", h)) /\ own'[a] = own[a] \cup {h}
      BY <1>3, <2>3 DEF Join, TypeOK
    <3>2. known[a] \in SUBSET Node /\ Command("JOIN", h) \in Message
      BY MessageMade DEF TypeOK
    <3>3. CASE g = h
      <4>1. g \in own'[a] /\ Says(Command("JOIN", h), g, g \in own'[a])
        BY <3>1, <3>3 DEF Says, Affirms, Command
      <4> QED BY <1>1, <3>1, <3>2, <4>1, PostAgrees
    <3>4. CASE g # h
      <4>1. ~Tells(Command("JOIN", h), g) /\ (g \in own'[a] <=> g \in own[a])
        BY <3>1, <3>4 DEF Tells, Affirms, Denies, Command
      <4> QED BY <1>1, <3>1, <3>2, <4>1, PostAgrees
    <3> QED BY <3>3, <3>4
  <2>4. ASSUME NEW h \in Group, Leave(n, h)
        PROVE  Agrees(a, b, g)'
    <3>1. Post(a, known[a], Command("LEAVE", h)) /\ own'[a] = own[a] \ {h}
      BY <1>3, <2>4 DEF Leave, TypeOK
    <3>2. known[a] \in SUBSET Node /\ Command("LEAVE", h) \in Message
      BY MessageMade DEF TypeOK
    <3>3. CASE g = h
      <4>1. g \notin own'[a] /\ Says(Command("LEAVE", h), g, g \in own'[a])
        BY <3>1, <3>3 DEF Says, Denies, Command
      <4> QED BY <1>1, <3>1, <3>2, <4>1, PostAgrees
    <3>4. CASE g # h
      <4>1. ~Tells(Command("LEAVE", h), g) /\ (g \in own'[a] <=> g \in own[a])
        BY <3>1, <3>4 DEF Tells, Affirms, Denies, Command
      <4> QED BY <1>1, <3>1, <3>2, <4>1, PostAgrees
    <3> QED BY <3>3, <3>4
  <2> QED BY <2>1, <2>2, <2>3, <2>4
<1> QED BY <1>2, <1>3

\* A removal tears the pair, or is about another peer.
LEMMA DropAgrees ==
    ASSUME TypeOK, NEW n \in Node, NEW p \in Node, Drop(n, p),
           UNCHANGED <<net, own>>,
           NEW a \in Node, NEW b \in Node, NEW g \in Group, n \in {a, b},
           Undisturbed(a, b)',
           b \in known[a] => Agrees(a, b, g), b \in known'[a]
    PROVE  Agrees(a, b, g)'
<1>1. a # b /\ b \notin torn'[a]
  BY DEF Undisturbed
<1>2. ~(n = a /\ p = b) /\ ~(n = b /\ p = a)
  BY <1>1 DEF Drop, Tear
<1>3. pgroups'[b][a] = pgroups[b][a]
  BY <1>1, <1>2 DEF Drop, Withdraw, TypeOK
<1>4. b \in known[a]
  BY DEF Drop, TypeOK
<1>5. Still(a, b, g)
  BY <1>3 DEF Still
<1> QED BY <1>4, <1>5, StillAgrees

LEMMA LossAgrees ==
    ASSUME TypeOK, Handshake, NEW n \in Node, NEW p \in Node,
           RecvGone(n, p) \/ Expire(n, p) \/ Discard(n, p) \/ Perish(n, p),
           NEW a \in Node, NEW b \in Node, NEW g \in Group, n \in {a, b},
           Undisturbed(a, b), Undisturbed(a, b)',
           b \in known[a] => Agrees(a, b, g), b \in known'[a]
    PROVE  Agrees(a, b, g)'
<1>1. CASE RecvGone(n, p)
  <2>1. UNCHANGED <<net, own>>
    BY <1>1 DEF RecvGone, Hear
  <2>2. CASE p \in known[n]
    <3>1. Drop(n, p)
      BY <1>1, <2>2 DEF RecvGone
    <3> QED BY <2>1, <3>1, DropAgrees
  <2>3. CASE p \notin known[n]
    <3>1. UNCHANGED <<known, pgroups>>
      BY <1>1, <2>3 DEF RecvGone
    <3>2. Still(a, b, g)
      BY <2>1, <3>1 DEF Still
    <3> QED BY <3>1, <3>2, StillAgrees
  <2> QED BY <2>2, <2>3
<1>2. CASE Expire(n, p)
  <2>1. Drop(n, p) /\ UNCHANGED <<net, own>>
    BY <1>2 DEF Expire
  <2> QED BY <2>1, DropAgrees
<1>3. CASE Discard(n, p) \/ Perish(n, p)
  <2>1. UNCHANGED <<own, pgroups, known>>
    BY <1>3 DEF Discard, Perish, node
  <2>2. b \in linked[a] /\ Up(b)
    BY <2>1, Met DEF Greeted, Undisturbed
  <2>3. ~(n = a /\ p = b)
    BY <1>3, <2>2 DEF Discard, Perish, Up
  <2>4. PICK q : net' = [net EXCEPT ![n][p] = q]
    BY <1>3 DEF Discard, Perish
  <2>5. net'[a][b] = net[a][b]
    BY <2>3, <2>4 DEF TypeOK
  <2>6. Still(a, b, g)
    BY <2>1, <2>5 DEF Still
  <2> QED BY <2>1, <2>6, StillAgrees
<1> QED BY <1>1, <1>2, <1>3

\* A peer that is discovered is told every own group at once.
LEMMA DiscoverAgrees ==
    ASSUME TypeOK, Handshake, NEW n \in Node, NEW p \in Node, Discover(n, p),
           NEW a \in Node, NEW b \in Node, NEW g \in Group, n \in {a, b},
           Undisturbed(a, b),
           b \in known[a] => Agrees(a, b, g), b \in known'[a]
    PROVE  Agrees(a, b, g)'
<1>1. UNCHANGED <<own, pgroups>> /\ p \notin known[n]
  BY DEF Discover, Hear
<1>2. CASE n = a /\ p = b
  <2>1. net[a][b] = <<>>
    BY <1>1, <1>2, Met DEF Greeted
  <2>2. net'[a][b] = Append(<<>>, Hello(own[a]))
    BY <1>2, <2>1 DEF Discover, TypeOK
  <2>3. own[a] \in SUBSET Group
    BY DEF TypeOK
  <2>4. LastTells(Append(<<>>, Hello(own[a])), g, g \in own[a])
    BY <2>3, HelloSays
  <2>5. LastTells(net'[a][b], g, g \in own'[a])
    BY <1>1, <2>2, <2>4
  <2> QED BY <2>5 DEF Agrees, LastTells
<1>3. CASE ~(n = a /\ p = b)
  <2>1. net'[a][b] = net[a][b] /\ b \in known[a]
    BY <1>3 DEF Discover, TypeOK
  <2>2. Still(a, b, g)
    BY <1>1, <2>1 DEF Still
  <2> QED BY <2>1, <2>2, StillAgrees
<1> QED BY <1>2, <1>3

\* The first HELLO finds no group of its sender listed, so after it exactly the
\* groups that the HELLO names are.
LEMMA HelloAgrees ==
    ASSUME TypeOK, Handshake, NEW a \in Node, NEW b \in Node, NEW g \in Group,
           Undisturbed(a, b), Agrees(a, b, g), Take(b, a, {"HELLO"}),
           Enrol(b, a, Head(net[a][b]).groups), a \notin ready[b],
           net'[a][b] = Tail(net[a][b])
    PROVE  Agrees(a, b, g)'
<1>1. pgroups[b][a] = {}
  BY Met DEF Greeted, Local
<1>2. /\ net[a][b] # <<>> /\ Head(net[a][b]) \in Message
      /\ Head(net[a][b]).type = "HELLO"
      /\ Head(net[a][b]).groups \in SUBSET Group
  BY TakeQueue
<1>3. g \in pgroups'[b][a] <=> g \in Head(net[a][b]).groups
  BY <1>1, <1>2, EnrolEffect
<1>4. own'[a] = own[a]
  BY DEF Take
<1>5. /\ Affirms(Head(net[a][b]), g) <=> g \in Head(net[a][b]).groups
      /\ Denies(Head(net[a][b]), g) <=> g \notin Head(net[a][b]).groups
  BY <1>2, WhatTells
<1>6. Tells(Head(net[a][b]), g)
  BY <1>5 DEF Tells
<1> QED BY <1>2, <1>3, <1>4, <1>5, <1>6, ConsumeAgrees

\* A HELLO that admits its sender: the answer tells the admitting node's groups.
LEMMA AdmitAgrees ==
    ASSUME TypeOK, Handshake, NEW n \in Node, NEW p \in Node, HelloAdmit(n, p),
           NEW a \in Node, NEW b \in Node, NEW g \in Group, n \in {a, b},
           Undisturbed(a, b),
           b \in known[a] => Agrees(a, b, g), b \in known'[a]
    PROVE  Agrees(a, b, g)'
<1>1. /\ Take(n, p, {"HELLO"}) /\ p \notin known[n] /\ UNCHANGED own /\ a # b
      /\ Enrol(n, p, Head(net[p][n]).groups)
  BY DEF HelloAdmit, Take, Undisturbed
<1>2. CASE n = a /\ p = b
  <2>1. net[a][b] = <<>>
    BY <1>1, <1>2, Met DEF Greeted
  <2>2. net'[a][b] = Append(<<>>, Hello(own[a]))
    BY <1>1, <1>2, <2>1 DEF HelloAdmit, TypeOK
  <2>3. own[a] \in SUBSET Group
    BY DEF TypeOK
  <2>4. LastTells(Append(<<>>, Hello(own[a])), g, g \in own[a])
    BY <2>3, HelloSays
  <2>5. LastTells(net'[a][b], g, g \in own'[a])
    BY <1>1, <2>2, <2>4
  <2> QED BY <2>5 DEF Agrees, LastTells
<1>3. CASE n = b /\ p = a
  <2>1. net'[a][b] = Tail(net[a][b])
    BY <1>1, <1>3 DEF HelloAdmit, TypeOK
  <2>2. b \in known[a] /\ a \notin ready[b]
    BY <1>1, <1>3, TakeMet, Met DEF Undisturbed, Local
  <2> QED BY <1>1, <1>3, <2>1, <2>2, HelloAgrees
<1>4. CASE ~(n = a /\ p = b) /\ ~(n = b /\ p = a)
  <2>1. net'[a][b] = net[a][b] /\ b \in known[a]
    BY <1>4 DEF HelloAdmit, TypeOK
  <2>2. pgroups'[b][a] = pgroups[b][a]
    BY <1>1, <1>4 DEF Enrol, TypeOK
  <2>3. Still(a, b, g)
    BY <1>1, <2>1, <2>2 DEF Still
  <2> QED BY <2>1, <2>3, StillAgrees
<1> QED BY <1>2, <1>3, <1>4

\* Every other message: what it says of a group is what its receiver then has.
LEMMA ReceiveAgrees ==
    ASSUME TypeOK, Handshake, NEW n \in Node, NEW p \in Node,
           \/ HelloRefresh(n, p) \/ HelloComplete(n, p) \/ RecvJoin(n, p)
           \/ RecvLeave(n, p) \/ RecvData(n, p) \/ RecvIgnored(n, p),
           NEW a \in Node, NEW b \in Node, NEW g \in Group, n \in {a, b},
           Undisturbed(a, b),
           b \in known[a] => Agrees(a, b, g), b \in known'[a]
    PROVE  Agrees(a, b, g)'
<1>1. /\ UNCHANGED <<known, own>> /\ Consume(n, p) /\ b \in known[a]
  BY DEF HelloRefresh, HelloComplete, RecvJoin, RecvLeave, RecvData, RecvIgnored,
     Take
<1>2. CASE ~(n = b /\ p = a)
  <2>1. net'[a][b] = net[a][b]
    BY <1>1, <1>2 DEF Consume, TypeOK
  <2>2. pgroups'[b][a] = pgroups[b][a]
    <3>1. \/ pgroups' = pgroups
          \/ \E G : Enrol(n, p, G)
          \/ \E G : Withdraw(n, p, G)
      BY DEF HelloRefresh, HelloComplete, RecvJoin, RecvLeave, RecvData,
         RecvIgnored
    <3>2. \A G : Enrol(n, p, G) => pgroups'[b][a] = pgroups[b][a]
      BY <1>2 DEF Enrol, TypeOK
    <3>3. \A G : Withdraw(n, p, G) => pgroups'[b][a] = pgroups[b][a]
      BY <1>2 DEF Withdraw, TypeOK
    <3> QED BY <3>1, <3>2, <3>3
  <2>3. Still(a, b, g)
    BY <1>1, <2>1, <2>2 DEF Still
  <2> QED BY <1>1, <2>3, StillAgrees
<1>3. CASE n = b /\ p = a
  <2>1. net'[a][b] = Tail(net[a][b])
    BY <1>1, <1>3 DEF Consume, TypeOK
  <2> DEFINE m == Head(net[a][b])
  <2>2. PICK T \in SUBSET {"HELLO", "JOIN", "LEAVE", "SHOUT", "WHISPER"} :
           Take(b, a, T)
    BY <1>3 DEF HelloRefresh, HelloComplete, RecvJoin, RecvLeave, RecvData,
       RecvIgnored
  <2>3. /\ net[a][b] # <<>> /\ m \in Message
        /\ m.type = "HELLO" <=> a \notin ready[b]
        /\ m.type \in {"JOIN", "LEAVE", "SHOUT"} => m.group \in Group
    BY <2>2, TakeQueue, TakeMet DEF Undisturbed
  <2>4. CASE HelloRefresh(n, p) \/ RecvIgnored(n, p)
    BY <1>3, <2>3, <2>4 DEF HelloRefresh, RecvIgnored, Take
  <2>5. CASE HelloComplete(n, p)
    BY <1>1, <1>3, <2>1, <2>5, HelloAgrees DEF HelloComplete
  <2>6. CASE RecvJoin(n, p)
    <3>1. m.type = "JOIN" /\ Enrol(b, a, {m.group})
      BY <1>3, <2>6 DEF RecvJoin, Take
    <3>2. g \in pgroups'[b][a] <=> g \in pgroups[b][a] \/ m.group = g
      BY <2>3, <3>1, EnrolEffect
    <3>3. (Affirms(m, g) <=> m.group = g) /\ ~Denies(m, g)
      BY <2>3, <3>1, WhatTells
    <3> QED BY <1>1, <2>1, <2>3, <3>2, <3>3, ConsumeAgrees DEF Tells
  <2>7. CASE RecvLeave(n, p)
    <3>1. m.type = "LEAVE" /\ Withdraw(b, a, {m.group})
      BY <1>3, <2>7 DEF RecvLeave, Take
    <3>2. g \in pgroups'[b][a] <=> g \in pgroups[b][a] /\ m.group # g
      BY <2>3, <3>1, WithdrawEffect
    <3>3. (Denies(m, g) <=> m.group = g) /\ ~Affirms(m, g)
      BY <2>3, <3>1, WhatTells
    <3> QED BY <1>1, <2>1, <2>3, <3>2, <3>3, ConsumeAgrees DEF Tells
  <2>8. CASE RecvData(n, p)
    <3>1. m.type \in {"WHISPER", "SHOUT"} /\ pgroups' = pgroups
      BY <1>3, <2>8 DEF RecvData, Take
    <3>2. ~Tells(m, g)
      BY <2>3, <3>1, WhatTells
    <3>3. ~Affirms(m, g) /\ ~Denies(m, g)
      BY <3>2 DEF Tells
    <3> QED BY <1>1, <2>1, <2>3, <3>1, <3>2, <3>3, ConsumeAgrees
  <2> QED BY <2>4, <2>5, <2>6, <2>7, <2>8
<1> QED BY <1>2, <1>3

-----------------------------------------------------------------------------

LEMMA ViewStep == TypeOK /\ Handshake /\ ViewAgrees /\ [Next]_vars => ViewAgrees'
<1> SUFFICES ASSUME TypeOK, Handshake, ViewAgrees, [Next]_vars,
                    NEW a \in Node, NEW b \in Node, NEW g \in Group,
                    Undisturbed(a, b)', b \in known'[a]
             PROVE  Agrees(a, b, g)'
  BY DEF ViewAgrees
<1>1. CASE UNCHANGED vars
  <2>1. Undisturbed(a, b) /\ b \in known[a]
    BY <1>1 DEF vars, Undisturbed, Up
  <2>2. Still(a, b, g)
    BY <1>1 DEF vars, Still
  <2> QED BY <2>1, <2>2, StillAgrees DEF ViewAgrees
<1>2. CASE Next
  <2>1. PICK n \in Node, p \in Node : StepOf(n, p)
    BY <1>2, NextStepOf
  <2>2. CASE Boot(n)
    <3>1. CASE n \in {a, b}
      BY <2>2, <3>1, BootUnmet
    <3>2. CASE n \notin {a, b}
      <4>1. b \in known[a] => Agrees(a, b, g)
        <5>1. CASE b \notin torn[a]
          <6>1. Undisturbed(a, b)
            BY <2>2, <3>2, <5>1 DEF Undisturbed, Up, Boot, TypeOK
          <6> QED BY <6>1 DEF ViewAgrees
        <5>2. CASE b \in torn[a]
          BY <2>2, <3>2, <5>2 DEF Undisturbed, Boot, TypeOK
        <5> QED BY <5>1, <5>2
      <4> QED BY <2>1, <3>2, <4>1, OthersAgree
    <3> QED BY <3>1, <3>2
  <2>3. CASE ~Boot(n)
    <3>1. Undisturbed(a, b) /\ (b \in known[a] => Agrees(a, b, g))
      BY <2>1, <2>3, UndisturbedBefore DEF ViewAgrees
    <3>2. CASE n \notin {a, b}
      BY <2>1, <3>1, <3>2, OthersAgree
    <3>3. CASE n \in {a, b}
      BY <2>1, <2>3, <3>1, <3>3, LifeAgrees, IdleAgrees, CommandAgrees, LossAgrees,
         DiscoverAgrees, AdmitAgrees, ReceiveAgrees DEF StepOf
    <3> QED BY <3>2, <3>3
  <2> QED BY <2>2, <2>3
<1> QED BY <1>1, <1>2

\* Between nodes that nothing interrupted, what a node has of its peer's groups
\* is right up to what is still on its way: a JOIN or LEAVE that races the two
\* HELLOs is neither missed nor undone by the group list of the HELLO.
THEOREM ViewAgreesHolds == Spec => []ViewAgrees
<1>1. Init => ViewAgrees
  BY DEF Init, Fresh, ViewAgrees, Undisturbed, Up
<1>2. TypeOK /\ Handshake /\ ViewAgrees /\ [Next]_vars => ViewAgrees'
  BY ViewStep
<1> QED BY <1>1, <1>2, TypeCorrect, HandshakeCorrect, PTL DEF Spec

-----------------------------------------------------------------------------
(* Presence: the life cycle *)

LEMMA BootStarts ==
    ASSUME TypeOK, DownBare, NEW n \in Node, Boot(n)
    PROVE  P!Start(n)
<1> USE DEF TypeOK
<1>1. pgroups' = pgroups
  BY DEF Boot, Forget, DownBare
<1>2. ~Up(n) /\ \A m \in Node : Up(m)' <=> Up(m) \/ m = n
  BY DEF Boot, Up
<1>3. Presented(n) = {} /\ \A m \in Node : Presented(m)' = Presented(m)
  BY DEF Boot, Forget, Presented
<1>4. Listed(n) = {} /\ \A m \in Node : Listed(m)' = Listed(m)
  BY DEF Boot, Forget, Listed
<1> QED
  BY <1>1, <1>2, <1>3, <1>4 DEF P!Start

LEMMA StopStops ==
    ASSUME TypeOK, NEW n \in Node, Stop(n)
    PROVE  P!Stop(n)
<1> USE DEF TypeOK
<1>1. Up(n) /\ \A m \in Node : Up(m)' <=> Up(m) /\ m # n
  BY DEF Stop, Up
<1>2. \A m \in Node : Presented(m)' = Presented(m)
  BY DEF Stop, Up, node, Presented
<1>3. \A m \in Node : Listed(m)' = Listed(m)
  BY DEF Stop, Up, node, Listed
<1> QED
  BY <1>1, <1>2, <1>3 DEF P!Stop, Stop, node

LEMMA EndHalts ==
    ASSUME TypeOK, NEW n \in Node, Close(n) \/ Crash(n)
    PROVE  P!Halt(n)
<1> USE DEF TypeOK
<1>1. \A m \in Node : Up(m)' <=> Up(m) /\ m # n
  BY DEF Close, Crash, Up
<1>2. \A m \in Node : Presented(m)' = IF m = n THEN {} ELSE Presented(m)
  BY DEF Close, Crash, Forget, Presented
<1>3. pgroups' = [pgroups EXCEPT ![n] = [p \in Node |-> {}]]
  BY DEF Close, Crash, Forget
<1>4. \A m \in Node : Listed(m)' = IF m = n THEN {} ELSE Listed(m)
  BY DEF Close, Crash, Forget, Listed
<1> QED
  BY <1>1, <1>2, <1>3, <1>4 DEF P!Halt

-----------------------------------------------------------------------------
(* Events *)

\* The table and what the application was told stay as they are.
LEMMA Unseen ==
    ASSUME UNCHANGED <<phase, known, seen, pgroups>>
    PROVE  UNCHANGED P!vars
BY DEF P!vars, Up, Listed, Presented

\* A node that is up has met whom it knows; an event of n changes no other node.
LEMMA Meeting ==
    ASSUME TypeOK, NEW n \in Node, Up(n), UNCHANGED phase,
           NEW S \in SUBSET Node, known' = [known EXCEPT ![n] = S]
    PROVE  /\ Listed(n) = known[n]
           /\ [m \in Node |-> Listed(m)]' = [[m \in Node |-> Listed(m)] EXCEPT ![n] = S]
BY DEF TypeOK, Up, Listed

\* A node that is up presents whom it has seen; an event of n changes no other
\* node and nobody's phase.
LEMMA Presenting ==
    ASSUME TypeOK, NEW n \in Node, Up(n), UNCHANGED phase,
           NEW S \in SUBSET Node, seen' = [seen EXCEPT ![n] = S]
    PROVE  /\ n \in {m \in Node : Up(m)}
           /\ {m \in Node : Up(m)}' = {m \in Node : Up(m)}
           /\ Presented(n) = seen[n]
           /\ [m \in Node |-> Presented(m)]'
                = [[m \in Node |-> Presented(m)] EXCEPT ![n] = S]
BY DEF TypeOK, Up, Presented

\* The HELLO of a peer that is not ready is an ENTER with the groups it lists.
LEMMA HelloEnters ==
    ASSUME TypeOK, NEW n \in Node, NEW p \in Node,
           HelloComplete(n, p) \/ HelloAdmit(n, p)
    PROVE  \E G \in SUBSET Group : P!Enter(n, p, G)
<1> DEFINE G == Head(net[p][n]).groups
<1>1. /\ Up(n) /\ UNCHANGED phase
      /\ known' = [known EXCEPT ![n] = known[n] \cup {p}]
      /\ seen' = [seen EXCEPT ![n] = seen[n] \cup {p}]
      /\ pgroups' = [pgroups EXCEPT ![n][p] = pgroups[n][p] \cup G]
      /\ net[p][n] # <<>> /\ Head(net[p][n]).type = "HELLO"
  BY DEF HelloComplete, HelloAdmit, Take, Enter, Enrol, TypeOK
<1>2. G \in SUBSET Group
  BY <1>1, QueueHead, MessageFields
<1>3. seen[n] \cup {p} \in SUBSET Node /\ known[n] \cup {p} \in SUBSET Node
  BY DEF TypeOK
<1>4. P!Enter(n, p, G)
  BY <1>1, <1>3, Presenting, Meeting DEF P!Enter
<1> QED
  BY <1>2, <1>4

\* A JOIN or LEAVE that is listened to is one of a peer that is present.
LEMMA CommandReported ==
    ASSUME TypeOK, Tables, NEW n \in Node, NEW p \in Node,
           RecvJoin(n, p) \/ RecvLeave(n, p)
    PROVE  \E g \in Group : P!Join(n, p, g) \/ P!Leave(n, p, g)
<1> DEFINE g == Head(net[p][n]).group
<1>1. /\ Up(n) /\ UNCHANGED <<phase, seen>>
      /\ UNCHANGED known
      /\ p \in ready[n]
      /\ net[p][n] # <<>> /\ Head(net[p][n]).type \in {"JOIN", "LEAVE"}
      /\ \/ pgroups' = [pgroups EXCEPT ![n][p] = pgroups[n][p] \cup {g}]
         \/ pgroups' = [pgroups EXCEPT ![n][p] = pgroups[n][p] \ {g}]
  BY DEF RecvJoin, RecvLeave, Take, Enrol, Withdraw
<1>2. g \in Group
  BY <1>1, QueueHead, MessageFields
<1>3. p \in Presented(n)
  BY <1>1 DEF Tables, Local, Up, Presented
<1>4. /\ {m \in Node : Up(m)}' = {m \in Node : Up(m)}
      /\ [m \in Node |-> Presented(m)]' = [m \in Node |-> Presented(m)]
      /\ [m \in Node |-> Listed(m)]' = [m \in Node |-> Listed(m)]
  BY <1>1 DEF Up, Presented, Listed
<1>5. P!Join(n, p, g) \/ P!Leave(n, p, g)
  BY <1>1, <1>3, <1>4 DEF P!Join, P!Leave
<1> QED
  BY <1>2, <1>5

\* An entry made by a beacon is met in silence.
LEMMA DiscoverMeets ==
    ASSUME TypeOK, NEW n \in Node, NEW p \in Node, Discover(n, p)
    PROVE  P!Meet(n, p)
<1>1. /\ Up(n) /\ UNCHANGED <<phase, seen, pgroups>>
      /\ p \notin known[n]
      /\ known' = [known EXCEPT ![n] = known[n] \cup {p}]
  BY DEF Discover, Hear
<1>2. known[n] \cup {p} \in SUBSET Node
  BY DEF TypeOK
<1>3. /\ {m \in Node : Up(m)}' = {m \in Node : Up(m)}
      /\ [m \in Node |-> Presented(m)]' = [m \in Node |-> Presented(m)]
  BY <1>1 DEF Up, Presented
<1> QED
  BY <1>1, <1>2, <1>3, Meeting DEF P!Meet

\* A peer that is removed exits, announced or not; its groups go with it.
LEMMA DropExits ==
    ASSUME TypeOK, NEW n \in Node, NEW p \in known[n], Up(n), Drop(n, p),
           UNCHANGED phase
    PROVE  P!Exit(n, p)
<1>1. /\ known' = [known EXCEPT ![n] = known[n] \ {p}]
      /\ seen' = [seen EXCEPT ![n] = seen[n] \ {p}]
      /\ pgroups' = [pgroups EXCEPT ![n][p] = {}]
  BY DEF Drop, Withdraw, TypeOK
<1>2. seen[n] \ {p} \in SUBSET Node /\ known[n] \ {p} \in SUBSET Node
  BY DEF TypeOK
<1> QED
  BY <1>1, <1>2, Presenting, Meeting DEF P!Exit

-----------------------------------------------------------------------------

\* Nothing but the handlers of a running node changes what it has of groups.
LEMMA DownBareStep == TypeOK /\ DownBare /\ [Next]_vars => DownBare'
<1> SUFFICES ASSUME TypeOK, DownBare, [Next]_vars,
                    NEW m \in Node, phase'[m] = "down"
             PROVE  pgroups'[m] = [p \in Node |-> {}]
  BY DEF DownBare
<1>1. CASE UNCHANGED vars
  BY <1>1 DEF vars, DownBare
<1>2. ASSUME NEW n \in Node, NEW p \in Node, StepOf(n, p)
      PROVE  pgroups'[m] = [q \in Node |-> {}]
  <2>1. CASE m # n
    <3>1. phase'[m] = phase[m] /\ pgroups'[m] = pgroups[m]
      BY <1>2, <2>1, OthersStep DEF SameTables
    <3> QED
      BY <3>1 DEF DownBare
  <2>2. CASE m = n /\ (Close(n) \/ Crash(n))
    BY <2>2 DEF Close, Crash, Forget, TypeOK
  <2>3. CASE m = n /\ ~(Close(n) \/ Crash(n))
    <3>1. ~Up(n) => (phase'[n] = phase[n] /\ pgroups' = pgroups) \/ Boot(n)
      BY <1>2, <2>3 DEF StepOf, Stop, SendWhisper, Join, Leave, Shout, SendBeacon,
           RecvHereKnown, Discover, RecvGone, Hear, LoseBeacon, HelloRefresh,
           HelloComplete, HelloAdmit, RecvJoin, RecvLeave, RecvData, RecvIgnored,
           Take, Silence, Resume, Expire, Discard, Perish, node
    <3>2. Up(n) => phase'[n] # "down"
      BY <1>2, <2>3 DEF StepOf, Up, Boot, Stop, SendWhisper, Join, Leave, Shout,
           SendBeacon, RecvHereKnown, Discover, RecvGone, Hear, LoseBeacon,
           HelloRefresh, HelloComplete, HelloAdmit, RecvJoin, RecvLeave, RecvData,
           RecvIgnored, Take, Silence, Resume, Expire, Discard, Perish, node, TypeOK
    <3>3. ~Boot(n)
      BY <2>2, <2>3 DEF Boot, TypeOK
    <3> QED
      BY <2>3, <3>1, <3>2, <3>3 DEF DownBare
  <2> QED
    BY <2>1, <2>2, <2>3
<1> QED
  BY <1>1, <1>2, NextStepOf

\* Each action is one event of one node, or nothing the application sees.
LEMMA PresenceStep ==
    ASSUME TypeOK, Tables, DownBare, [Next]_vars
    PROVE  [P!Next]_(P!vars)
<1>1. CASE UNCHANGED vars
  BY <1>1, Unseen DEF vars
<1>2. ASSUME NEW n \in Node, Boot(n) \/ Stop(n) \/ Close(n) \/ Crash(n)
      PROVE  P!Next
  BY <1>2, BootStarts, StopStops, EndHalts DEF P!Next
<1>3. ASSUME NEW n \in Node,
             \/ SendBeacon(n)
             \/ \E g \in Group : Join(n, g) \/ Leave(n, g) \/ Shout(n, g)
      PROVE  UNCHANGED P!vars
  BY <1>3, Unseen DEF SendBeacon, Join, Leave, Shout, node
<1>4. ASSUME NEW n \in Node, NEW p \in Node,
             \/ SendWhisper(n, p) \/ RecvHereKnown(n, p)
             \/ \E b \in {"here", "gone"} : LoseBeacon(n, p, b)
             \/ HelloRefresh(n, p) \/ RecvData(n, p) \/ RecvIgnored(n, p)
             \/ Silence(n, p) \/ Resume(n, p) \/ Discard(n, p) \/ Perish(n, p)
      PROVE  UNCHANGED P!vars
  BY <1>4, Unseen DEF SendWhisper, RecvHereKnown, Hear, LoseBeacon,
       HelloRefresh, RecvData, RecvIgnored, Take, Silence, Resume, Discard,
       Perish, node
<1>5. ASSUME NEW n \in Node, NEW p \in Node, HelloComplete(n, p) \/ HelloAdmit(n, p)
      PROVE  P!Next
  BY <1>5, HelloEnters DEF P!Next
<1>6. ASSUME NEW n \in Node, NEW p \in Node, RecvJoin(n, p) \/ RecvLeave(n, p)
      PROVE  P!Next
  BY <1>6, CommandReported DEF P!Next
<1>7. ASSUME NEW n \in Node, NEW p \in Node, RecvGone(n, p) \/ Expire(n, p)
      PROVE  P!Next \/ UNCHANGED P!vars
  <2>1. Up(n) /\ UNCHANGED phase
    BY <1>7 DEF RecvGone, Hear, Expire
  <2>2. (p \in known[n] /\ Drop(n, p)) \/ UNCHANGED <<phase, known, seen, pgroups>>
    BY <1>7, <2>1 DEF RecvGone, Expire
  <2> QED
    BY <2>1, <2>2, DropExits, Unseen DEF P!Next
<1>8. ASSUME NEW n \in Node, NEW p \in Node, Discover(n, p)
      PROVE  P!Next
  BY <1>8, DiscoverMeets DEF P!Next
<1> QED
  BY <1>1, <1>2, <1>3, <1>4, <1>5, <1>6, <1>7, <1>8 DEF Next, Receive

\* The mesh implements Presence: whatever nodes stop, crash, restart, fall silent
\* or run into a full queue, ENTER, JOIN and LEAVE are emitted in the order of
\* Presence, one EXIT for each entry that is removed, announced or not, and
\* nothing while a node stops (_handle_hello, _handle_peer_msg, _remove_peer, stop).
THEOREM PresenceImplemented == Spec => EventsInOrder
<1>1. Init => P!Init /\ DownBare
  BY DEF Init, Fresh, P!Init, DownBare, Up, Listed, Presented
<1>2. TypeOK /\ DownBare /\ [Next]_vars => DownBare'
  BY DownBareStep
<1>3. TypeOK /\ Tables /\ DownBare /\ [Next]_vars => [P!Next]_(P!vars)
  BY PresenceStep
<1> QED
  BY <1>1, <1>2, <1>3, TypeCorrect, TablesCorrect, PTL DEF Spec, EventsInOrder, P!Spec
=============================================================================
