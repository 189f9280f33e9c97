---------------------------- MODULE ZreMeshProofs ----------------------------
(***************************************************************************)
(* Theorems about ZreMesh, for any set of nodes and groups, any queue bound *)
(* and any budget of environment steps.                                     *)
(***************************************************************************)
EXTENDS ZreMesh, SequenceTheorems, TLAPS

(* Messages and queues *)

\* What a message carries, by its type.
LEMMA MessageFields ==
    ASSUME NEW m \in Message
    PROVE  /\ m.type \in {"HELLO", "JOIN", "LEAVE", "SHOUT", "WHISPER"}
           /\ m.type = "HELLO" => m.groups \in SUBSET Group
           /\ m.type \in {"JOIN", "LEAVE", "SHOUT"} => m.group \in Group
BY DEF Message, Whisper

\* Every message a node composes is one.
LEMMA MessageMade ==
    /\ \A G \in SUBSET Group : Hello(G) \in Message
    /\ \A t \in {"JOIN", "LEAVE", "SHOUT"}, g \in Group : Command(t, g) \in Message
    /\ Whisper \in Message
BY DEF Message, Hello, Command, Whisper

\* The head of a queue is a message, its tail a queue.
LEMMA QueueHead ==
    ASSUME TypeOK, NEW n \in Node, NEW p \in Node, net[p][n] # <<>>
    PROVE  /\ Head(net[p][n]) \in Message
           /\ Tail(net[p][n]) \in Seq(Message)
BY HeadTailProperties DEF TypeOK

-----------------------------------------------------------------------------
(* Type correctness: first the helpers, then the handlers *)

LEMMA ChargeType ==
    ASSUME TypeOK, NEW k \in Kinds, Charge(k)
    PROVE  spent' \in [Kinds -> Nat]
BY DEF TypeOK, Charge

LEMMA TearType ==
    ASSUME TypeOK, NEW n \in Node, NEW Q \in SUBSET Node, Tear(n, Q)
    PROVE  torn' \in [Node -> SUBSET Node]
BY DEF TypeOK, Tear

LEMMA CastType ==
    ASSUME TypeOK, NEW n \in Node, NEW b \in {"here", "gone"}, Cast(n, b)
    PROVE  air' \in [Node -> [Node -> SUBSET {"here", "gone"}]]
<1>1. [q \in Node |-> IF q = n THEN air[n][q] ELSE air[n][q] \cup {b}]
          \in [Node -> SUBSET {"here", "gone"}]
  BY DEF TypeOK
<1> QED BY <1>1 DEF TypeOK, Cast

LEMMA PostType ==
    ASSUME TypeOK, NEW n \in Node, NEW T \in SUBSET Node, NEW m \in Message,
           Post(n, T, m)
    PROVE  /\ net' \in [Node -> [Node -> Seq(Message)]]
           /\ linked' \in [Node -> SUBSET Node]
           /\ ready' \in [Node -> SUBSET Node]
           /\ torn' \in [Node -> SUBSET Node]
<1>1. \A q \in Node : Append(net[n][q], m) \in Seq(Message)
  BY AppendProperties DEF TypeOK
<1>2. [q \in Node |-> IF q \in (T \cap linked[n]) \ Clogged(n, T)
                      THEN Append(net[n][q], m) ELSE net[n][q]]
          \in [Node -> Seq(Message)]
  BY <1>1 DEF TypeOK
<1>3. net' \in [Node -> [Node -> Seq(Message)]]
  BY <1>2 DEF TypeOK, Post
<1>4. Clogged(n, T) \in SUBSET Node
  BY DEF Clogged, TypeOK
<1>5. torn' \in [Node -> SUBSET Node]
  BY <1>4, TearType DEF Post
<1> QED BY <1>3, <1>5 DEF TypeOK, Post

LEMMA EnrolType ==
    ASSUME TypeOK, NEW n \in Node, NEW p \in Node, NEW G \in SUBSET Group,
           Enrol(n, p, G)
    PROVE  /\ pgroups' \in [Node -> [Node -> SUBSET Group]]
           /\ members' \in [Node -> [Group -> SUBSET Node]]
<1>1. [g \in Group |-> IF g \in G THEN members[n][g] \cup {p}
                       ELSE members[n][g]] \in [Group -> SUBSET Node]
  BY DEF TypeOK
<1> QED BY <1>1 DEF TypeOK, Enrol

LEMMA WithdrawType ==
    ASSUME TypeOK, NEW n \in Node, NEW p \in Node, NEW G \in SUBSET Group,
           Withdraw(n, p, G)
    PROVE  /\ pgroups' \in [Node -> [Node -> SUBSET Group]]
           /\ members' \in [Node -> [Group -> SUBSET Node]]
<1>1. [g \in Group |-> IF g \in G THEN members[n][g] \ {p}
                       ELSE members[n][g]] \in [Group -> SUBSET Node]
  BY DEF TypeOK
<1> QED BY <1>1 DEF TypeOK, Withdraw

LEMMA DropType ==
    ASSUME TypeOK, NEW n \in Node, NEW p \in Node, Drop(n, p)
    PROVE  /\ known' \in [Node -> SUBSET Node]
           /\ linked' \in [Node -> SUBSET Node]
           /\ ready' \in [Node -> SUBSET Node]
           /\ pgroups' \in [Node -> [Node -> SUBSET Group]]
           /\ members' \in [Node -> [Group -> SUBSET Node]]
           /\ seen' \in [Node -> SUBSET Node]
           /\ torn' \in [Node -> SUBSET Node]
<1>1. pgroups[n][p] \in SUBSET Group
  BY DEF TypeOK
<1>2. /\ pgroups' \in [Node -> [Node -> SUBSET Group]]
      /\ members' \in [Node -> [Group -> SUBSET Node]]
  BY <1>1, WithdrawType DEF Drop
<1>3. torn' \in [Node -> SUBSET Node]
  BY TearType DEF Drop
<1>4. /\ known' \in [Node -> SUBSET Node]
      /\ linked' \in [Node -> SUBSET Node]
      /\ ready' \in [Node -> SUBSET Node]
      /\ seen' \in [Node -> SUBSET Node]
  BY DEF TypeOK, Drop
<1> QED BY <1>2, <1>3, <1>4

LEMMA ConsumeType ==
    ASSUME TypeOK, NEW n \in Node, NEW p \in Node, net[p][n] # <<>>, Consume(n, p)
    PROVE  net' \in [Node -> [Node -> Seq(Message)]]
BY QueueHead DEF TypeOK, Consume

LEMMA ForgetType ==
    ASSUME TypeOK, NEW n \in Node, Forget(n)
    PROVE  /\ known' \in [Node -> SUBSET Node]
           /\ linked' \in [Node -> SUBSET Node]
           /\ ready' \in [Node -> SUBSET Node]
           /\ pgroups' \in [Node -> [Node -> SUBSET Group]]
           /\ members' \in [Node -> [Group -> SUBSET Node]]
           /\ own' \in [Node -> SUBSET Group]
           /\ seen' \in [Node -> SUBSET Node]
BY DEF TypeOK, Forget

\* A received message is taken off the head of a queue that is not empty.
LEMMA TakeQueue ==
    ASSUME TypeOK, NEW n \in Node, NEW p \in Node,
           NEW T \in SUBSET {"HELLO", "JOIN", "LEAVE", "SHOUT", "WHISPER"},
           Take(n, p, T)
    PROVE  /\ net[p][n] # <<>>
           /\ Head(net[p][n]) \in Message
           /\ Head(net[p][n]).type \in T
           /\ Head(net[p][n]).type = "HELLO" =>
                 Head(net[p][n]).groups \in SUBSET Group
           /\ Head(net[p][n]).type \in {"JOIN", "LEAVE", "SHOUT"} =>
                 Head(net[p][n]).group \in Group
BY QueueHead, MessageFields DEF Take

LEMMA BootType ==
    ASSUME TypeOK, NEW n \in Node, Boot(n)
    PROVE  TypeOK'
<1>1. torn' \in [Node -> SUBSET Node]
  BY DEF TypeOK, Boot
<1>2. spent' \in [Kinds -> Nat]
  BY ChargeType DEF Boot, Kinds
<1> QED BY <1>1, <1>2, ForgetType, CastType DEF TypeOK, Boot

LEMMA LifeType ==
    ASSUME TypeOK, NEW n \in Node, Stop(n) \/ Close(n) \/ Crash(n)
    PROVE  TypeOK'
<1>1. CASE Stop(n)
  <2>1. spent' \in [Kinds -> Nat]
    BY <1>1, ChargeType DEF Stop, Kinds
  <2> QED BY <1>1, <2>1, CastType, TearType DEF TypeOK, Stop, node
<1>2. CASE Close(n)
  BY <1>2 DEF TypeOK, Close
<1>3. CASE Crash(n)
  <2>1. spent' \in [Kinds -> Nat]
    BY <1>3, ChargeType DEF Crash, Kinds
  <2> QED BY <1>3, <2>1, ForgetType, TearType DEF TypeOK, Crash
<1> QED BY <1>1, <1>2, <1>3

LEMMA WhisperType ==
    ASSUME TypeOK, NEW n \in Node, NEW p \in Node, SendWhisper(n, p)
    PROVE  TypeOK'
<1>1. Whisper \in Message /\ {p} \in SUBSET Node
  BY MessageMade
<1>2. spent' \in [Kinds -> Nat]
  BY ChargeType DEF SendWhisper, Kinds
<1> QED BY <1>1, <1>2, PostType DEF TypeOK, SendWhisper

LEMMA CommandType ==
    ASSUME TypeOK, NEW n \in Node, NEW g \in Group,
           Join(n, g) \/ Leave(n, g) \/ Shout(n, g)
    PROVE  TypeOK'
<1> "op" \in Kinds
  BY DEF Kinds
<1>1. CASE Join(n, g)
  <2>1. Command("JOIN", g) \in Message /\ known[n] \in SUBSET Node
    BY MessageMade DEF TypeOK
  <2>2. spent' \in [Kinds -> Nat]
    BY <1>1, ChargeType DEF Join
  <2>3. own' \in [Node -> SUBSET Group]
    BY <1>1 DEF Join, TypeOK
  <2> QED BY <1>1, <2>1, <2>2, <2>3, PostType DEF TypeOK, Join
<1>2. CASE Leave(n, g)
  <2>1. Command("LEAVE", g) \in Message /\ known[n] \in SUBSET Node
    BY MessageMade DEF TypeOK
  <2>2. spent' \in [Kinds -> Nat]
    BY <1>2, ChargeType DEF Leave, TypeOK
  <2>3. own' \in [Node -> SUBSET Group]
    BY <1>2 DEF Leave, TypeOK
  <2> QED BY <1>2, <2>1, <2>2, <2>3, PostType DEF TypeOK, Leave
<1>3. CASE Shout(n, g)
  <2>1. Command("SHOUT", g) \in Message /\ members[n][g] \in SUBSET Node
    BY MessageMade DEF TypeOK
  <2>2. spent' \in [Kinds -> Nat]
    BY <1>3, ChargeType DEF Shout
  <2> QED BY <1>3, <2>1, <2>2, PostType DEF TypeOK, Shout
<1> QED BY <1>1, <1>2, <1>3

LEMMA HearType ==
    ASSUME TypeOK, NEW n \in Node, NEW p \in Node, NEW b \in {"here", "gone"},
           Hear(n, p, b)
    PROVE  air' \in [Node -> [Node -> SUBSET {"here", "gone"}]]
BY DEF TypeOK, Hear

LEMMA BeaconType ==
    ASSUME TypeOK, NEW n \in Node, NEW p \in Node,
           \/ SendBeacon(n) \/ RecvHereKnown(n, p) \/ Discover(n, p)
           \/ RecvGone(n, p)
           \/ \E b \in {"here", "gone"} : LoseBeacon(n, p, b)
    PROVE  TypeOK'
<1>1. CASE SendBeacon(n)
  BY <1>1, CastType DEF TypeOK, SendBeacon, node
<1>2. CASE RecvHereKnown(n, p)
  <2>1. air' \in [Node -> [Node -> SUBSET {"here", "gone"}]]
    BY <1>2, HearType DEF RecvHereKnown
  <2> QED BY <1>2, <2>1 DEF TypeOK, RecvHereKnown, Hear
<1>3. CASE Discover(n, p)
  <2>1. air' \in [Node -> [Node -> SUBSET {"here", "gone"}]]
    BY <1>3, HearType DEF Discover
  <2>2. Append(net[n][p], Hello(own[n])) \in Seq(Message)
    BY MessageMade, AppendProperties DEF TypeOK
  <2>3. net' \in [Node -> [Node -> Seq(Message)]]
    BY <1>3, <2>2 DEF TypeOK, Discover
  <2>4. /\ known' \in [Node -> SUBSET Node]
        /\ linked' \in [Node -> SUBSET Node]
    BY <1>3 DEF TypeOK, Discover
  <2>5. UNCHANGED <<phase, ready, pgroups, members, own, seen, cut, spent, torn>>
    BY <1>3 DEF Discover, Hear
  <2> QED BY <2>1, <2>3, <2>4, <2>5 DEF TypeOK
<1>4. CASE RecvGone(n, p)
  <2>1. air' \in [Node -> [Node -> SUBSET {"here", "gone"}]]
    BY <1>4, HearType DEF RecvGone
  <2>2. UNCHANGED <<phase, own, net, cut, spent>>
    BY <1>4 DEF RecvGone, Hear
  <2>3. CASE p \in known[n]
    <3>1. Drop(n, p)
      BY <1>4, <2>3 DEF RecvGone
    <3> QED BY <2>1, <2>2, <3>1, DropType DEF TypeOK
  <2>4. CASE p \notin known[n]
    <3>1. UNCHANGED <<known, linked, ready, pgroups, members, seen, torn>>
      BY <1>4, <2>4 DEF RecvGone
    <3> QED BY <2>1, <2>2, <3>1 DEF TypeOK
  <2> QED BY <2>3, <2>4
<1>5. CASE \E b \in {"here", "gone"} : LoseBeacon(n, p, b)
  BY <1>5 DEF TypeOK, LoseBeacon, node
<1> QED BY <1>1, <1>2, <1>3, <1>4, <1>5

LEMMA EnterType ==
    ASSUME TypeOK, NEW n \in Node, NEW p \in Node, Enter(n, p)
    PROVE  /\ ready' \in [Node -> SUBSET Node]
           /\ seen' \in [Node -> SUBSET Node]
BY DEF TypeOK, Enter

LEMMA HelloType ==
    ASSUME TypeOK, NEW n \in Node, NEW p \in Node,
           HelloRefresh(n, p) \/ HelloComplete(n, p) \/ HelloAdmit(n, p)
    PROVE  TypeOK'
<1>1. Take(n, p, {"HELLO"})
  BY DEF HelloRefresh, HelloComplete, HelloAdmit
<1>2. /\ net[p][n] # <<>>
      /\ Head(net[p][n]).groups \in SUBSET Group
  BY <1>1, TakeQueue
<1>3. UNCHANGED <<phase, own, air, cut, spent>>
  BY <1>1 DEF Take
<1>4. CASE HelloRefresh(n, p)
  <2>1. net' \in [Node -> [Node -> Seq(Message)]]
    BY <1>2, <1>4, ConsumeType DEF HelloRefresh
  <2> QED BY <1>3, <1>4, <2>1 DEF TypeOK, HelloRefresh
<1>5. CASE HelloComplete(n, p)
  <2>1. net' \in [Node -> [Node -> Seq(Message)]]
    BY <1>2, <1>5, ConsumeType DEF HelloComplete
  <2>2. /\ ready' \in [Node -> SUBSET Node]
        /\ seen' \in [Node -> SUBSET Node]
    BY <1>5, EnterType DEF HelloComplete
  <2>3. /\ pgroups' \in [Node -> [Node -> SUBSET Group]]
        /\ members' \in [Node -> [Group -> SUBSET Node]]
    BY <1>2, <1>5, EnrolType DEF HelloComplete
  <2>4. UNCHANGED <<known, linked, torn>>
    BY <1>5 DEF HelloComplete
  <2> QED BY <1>3, <2>1, <2>2, <2>3, <2>4 DEF TypeOK
<1>6. CASE HelloAdmit(n, p)
  <2>1. Tail(net[p][n]) \in Seq(Message)
    BY <1>2, QueueHead
  <2>2. \A s \in Seq(Message) : Append(s, Hello(own[n])) \in Seq(Message)
    BY MessageMade, AppendProperties DEF TypeOK
  <2>3. net' \in [Node -> [Node -> Seq(Message)]]
    <3> DEFINE taken == [net EXCEPT ![p][n] = Tail(@)]
    <3>1. taken \in [Node -> [Node -> Seq(Message)]]
      BY <2>1 DEF TypeOK
    <3> DEFINE row == [taken[n] EXCEPT ![p] = Append(@, Hello(own[n]))]
    <3>2. net' = [taken EXCEPT ![n] = row]
      BY <1>6 DEF HelloAdmit
    <3> HIDE DEF taken
    <3>3. row \in [Node -> Seq(Message)]
      BY <2>2, <3>1
    <3> HIDE DEF row
    <3> QED BY <3>1, <3>2, <3>3
  <2>4. /\ known' \in [Node -> SUBSET Node]
        /\ linked' \in [Node -> SUBSET Node]
    BY <1>6 DEF TypeOK, HelloAdmit
  <2>5. /\ ready' \in [Node -> SUBSET Node]
        /\ seen' \in [Node -> SUBSET Node]
    BY <1>6, EnterType DEF HelloAdmit
  <2>6. /\ pgroups' \in [Node -> [Node -> SUBSET Group]]
        /\ members' \in [Node -> [Group -> SUBSET Node]]
    BY <1>2, <1>6, EnrolType DEF HelloAdmit
  <2>7. UNCHANGED torn
    BY <1>6 DEF HelloAdmit
  <2> QED BY <1>3, <2>3, <2>4, <2>5, <2>6, <2>7 DEF TypeOK
<1> QED BY <1>4, <1>5, <1>6

LEMMA TrafficType ==
    ASSUME TypeOK, NEW n \in Node, NEW p \in Node,
           \/ RecvJoin(n, p) \/ RecvLeave(n, p)
           \/ RecvData(n, p) \/ RecvIgnored(n, p)
    PROVE  TypeOK'
<1>1. PICK T \in SUBSET {"HELLO", "JOIN", "LEAVE", "SHOUT", "WHISPER"} :
         Take(n, p, T) /\ Consume(n, p)
  BY DEF RecvJoin, RecvLeave, RecvData, RecvIgnored
<1>2. net' \in [Node -> [Node -> Seq(Message)]]
  BY <1>1, TakeQueue, ConsumeType
<1>3. UNCHANGED <<phase, own, air, cut, spent>>
  BY <1>1 DEF Take
<1>4. CASE RecvJoin(n, p)
  <2>1. Head(net[p][n]).group \in Group
    BY <1>4, TakeQueue DEF RecvJoin
  <2>2. /\ pgroups' \in [Node -> [Node -> SUBSET Group]]
        /\ members' \in [Node -> [Group -> SUBSET Node]]
    BY <1>4, <2>1, EnrolType DEF RecvJoin
  <2>3. UNCHANGED <<known, linked, ready, seen, torn>>
    BY <1>4 DEF RecvJoin
  <2> QED BY <1>2, <1>3, <2>2, <2>3 DEF TypeOK
<1>5. CASE RecvLeave(n, p)
  <2>1. Head(net[p][n]).group \in Group
    BY <1>5, TakeQueue DEF RecvLeave
  <2>2. /\ pgroups' \in [Node -> [Node -> SUBSET Group]]
        /\ members' \in [Node -> [Group -> SUBSET Node]]
    BY <1>5, <2>1, WithdrawType DEF RecvLeave
  <2>3. UNCHANGED <<known, linked, ready, seen, torn>>
    BY <1>5 DEF RecvLeave
  <2> QED BY <1>2, <1>3, <2>2, <2>3 DEF TypeOK
<1>6. CASE RecvData(n, p) \/ RecvIgnored(n, p)
  <2>1. UNCHANGED <<known, linked, ready, pgroups, members, seen, torn>>
    BY <1>6 DEF RecvData, RecvIgnored
  <2> QED BY <1>2, <1>3, <2>1 DEF TypeOK
<1> QED BY <1>4, <1>5, <1>6

LEMMA LossType ==
    ASSUME TypeOK, NEW n \in Node, NEW p \in Node,
           \/ Silence(n, p) \/ Resume(n, p) \/ Expire(n, p)
           \/ Discard(n, p) \/ Perish(n, p)
    PROVE  TypeOK'
<1>1. CASE Silence(n, p)
  <2>1. spent' \in [Kinds -> Nat]
    BY <1>1, ChargeType DEF Silence, Kinds
  <2> QED BY <1>1, <2>1 DEF TypeOK, Silence, node
<1>2. CASE Resume(n, p)
  BY <1>2 DEF TypeOK, Resume, node
<1>3. CASE Expire(n, p)
  <2>1. UNCHANGED <<phase, own, net, air, cut, spent>>
    BY <1>3 DEF Expire
  <2>2. Drop(n, p)
    BY <1>3 DEF Expire
  <2> QED BY <2>1, <2>2, DropType DEF TypeOK
<1>4. CASE Discard(n, p)
  <2>1. net[n][p] \in Seq(Message) /\ net[n][p] # <<>>
    BY <1>4 DEF Discard, TypeOK
  <2>2. SubSeq(net[n][p], 1, Len(net[n][p]) - 1) \in Seq(Message)
    BY <2>1
  <2>3. net' \in [Node -> [Node -> Seq(Message)]]
    BY <1>4, <2>2 DEF TypeOK, Discard
  <2> QED BY <1>4, <2>3 DEF TypeOK, Discard, node
<1>5. CASE Perish(n, p)
  <2>1. Tail(net[n][p]) \in Seq(Message)
    BY <1>5, QueueHead DEF Perish
  <2>2. net' \in [Node -> [Node -> Seq(Message)]]
    BY <1>5, <2>1 DEF TypeOK, Perish
  <2> QED BY <1>5, <2>2 DEF TypeOK, Perish, node
<1> QED BY <1>1, <1>2, <1>3, <1>4, <1>5

LEMMA TypeStep == TypeOK /\ [Next]_vars => TypeOK'
<1> SUFFICES ASSUME TypeOK, [Next]_vars PROVE TypeOK'
  OBVIOUS
<1>1. CASE UNCHANGED vars
  BY <1>1 DEF TypeOK, vars
<1>2. CASE Next
  <2>1. PICK n \in Node, p \in Node :
          \/ Boot(n)
          \/ Stop(n) \/ Close(n) \/ Crash(n)
          \/ SendWhisper(n, p)
          \/ \E g \in Group : Join(n, g) \/ Leave(n, g) \/ Shout(n, g)
          \/ \/ SendBeacon(n) \/ RecvHereKnown(n, p) \/ Discover(n, p)
             \/ RecvGone(n, p)
             \/ \E b \in {"here", "gone"} : LoseBeacon(n, p, b)
          \/ HelloRefresh(n, p) \/ HelloComplete(n, p) \/ HelloAdmit(n, p)
          \/ \/ RecvJoin(n, p) \/ RecvLeave(n, p)
             \/ RecvData(n, p) \/ RecvIgnored(n, p)
          \/ \/ Silence(n, p) \/ Resume(n, p) \/ Expire(n, p)
             \/ Discard(n, p) \/ Perish(n, p)
    BY <1>2 DEF Next, Receive
  <2> QED BY <2>1, BootType, WhisperType, LifeType, CommandType, BeaconType,
             HelloType, TrafficType, LossType
<1> QED BY <1>1, <1>2

\* Every variable keeps its type, whatever the nodes, groups, queue bound and
\* budgets: in particular every message on a queue is one of the five kinds.
THEOREM TypeCorrect == Spec => []TypeOK
<1>1. Init => TypeOK
  BY DEF Init, Fresh, TypeOK
<1> QED BY <1>1, TypeStep, PTL DEF Spec

-----------------------------------------------------------------------------
(* One node's tables: what each kind of step does to Local(n) *)

\* The tables of m are not touched.
SameTables(m) ==
    /\ known'[m] = known[m] /\ linked'[m] = linked[m] /\ ready'[m] = ready[m]
    /\ pgroups'[m] = pgroups[m] /\ members'[m] = members[m] /\ seen'[m] = seen[m]

LEMMA SameLocal ==
    ASSUME NEW m \in Node, Local(m), SameTables(m)
    PROVE  Local(m)'
BY DEF Local, SameTables

\* Both indexes of membership change alike.
LEMMA EnrolEffect ==
    ASSUME TypeOK, NEW n \in Node, NEW p \in Node, NEW G \in SUBSET Group,
           Enrol(n, p, G), NEW g \in Group, NEW q \in Node
    PROVE  /\ q \in members'[n][g] <=> q \in members[n][g] \/ (g \in G /\ q = p)
           /\ g \in pgroups'[n][q] <=> g \in pgroups[n][q] \/ (g \in G /\ q = p)
<1>1. members'[n][g] = IF g \in G THEN members[n][g] \cup {p} ELSE members[n][g]
  BY DEF Enrol, TypeOK
<1>2. pgroups'[n][q] = IF q = p THEN pgroups[n][q] \cup G ELSE pgroups[n][q]
  BY DEF Enrol, TypeOK
<1> QED BY <1>1, <1>2

LEMMA WithdrawEffect ==
    ASSUME TypeOK, NEW n \in Node, NEW p \in Node, NEW G \in SUBSET Group,
           Withdraw(n, p, G), NEW g \in Group, NEW q \in Node
    PROVE  /\ q \in members'[n][g] <=> q \in members[n][g] /\ ~(g \in G /\ q = p)
           /\ g \in pgroups'[n][q] <=> g \in pgroups[n][q] /\ ~(g \in G /\ q = p)
<1>1. members'[n][g] = IF g \in G THEN members[n][g] \ {p} ELSE members[n][g]
  BY DEF Withdraw, TypeOK
<1>2. pgroups'[n][q] = IF q = p THEN pgroups[n][q] \ G ELSE pgroups[n][q]
  BY DEF Withdraw, TypeOK
<1> QED BY <1>1, <1>2

LEMMA PostLocal ==
    ASSUME TypeOK, NEW n \in Node, NEW T, NEW msg, Local(n), Post(n, T, msg),
           UNCHANGED <<known, pgroups, members, seen>>
    PROVE  Local(n)'
<1>1. linked'[n] \subseteq linked[n] /\ ready'[n] \subseteq ready[n]
  BY DEF Post, TypeOK
<1> QED BY <1>1 DEF Local

LEMMA PostOthers ==
    ASSUME TypeOK, NEW n \in Node, NEW T, NEW msg, Post(n, T, msg),
           UNCHANGED <<known, pgroups, members, seen>>,
           NEW m \in Node, m # n
    PROVE  SameTables(m)
BY DEF Post, SameTables, TypeOK

LEMMA DropLocal ==
    ASSUME TypeOK, NEW n \in Node, NEW p \in Node, Local(n), Drop(n, p)
    PROVE  Local(n)'
<1>1. pgroups[n][p] \in SUBSET Group /\ Withdraw(n, p, pgroups[n][p])
  BY DEF Drop, TypeOK
<1>2. \A g \in Group, q \in Node :
         /\ q \in members'[n][g] <=>
               q \in members[n][g] /\ ~(g \in pgroups[n][p] /\ q = p)
         /\ g \in pgroups'[n][q] <=>
               g \in pgroups[n][q] /\ ~(g \in pgroups[n][p] /\ q = p)
  BY <1>1, WithdrawEffect
<1>3. \A q \in Node : pgroups'[n][q] = IF q = p THEN {} ELSE pgroups[n][q]
  BY <1>1 DEF Withdraw, TypeOK
<1>4. /\ known'[n] = known[n] \ {p} /\ linked'[n] = linked[n] \ {p}
      /\ ready'[n] = ready[n] \ {p} /\ seen'[n] = seen[n] \ {p}
  BY DEF Drop, TypeOK
<1> QED BY <1>2, <1>3, <1>4 DEF Local

LEMMA DropOthers ==
    ASSUME TypeOK, NEW n \in Node, NEW p \in Node, Drop(n, p),
           NEW m \in Node, m # n
    PROVE  SameTables(m)
BY DEF Drop, Withdraw, SameTables, TypeOK

LEMMA EnrolLocal ==
    ASSUME TypeOK, NEW n \in Node, NEW p \in Node, NEW G \in SUBSET Group,
           Local(n), Enrol(n, p, G), Enter(n, p),
           known'[n] = known[n] \cup {p},
           linked'[n] \in {linked[n], linked[n] \cup {p}}
    PROVE  Local(n)'
<1>1. \A g \in Group, q \in Node :
         /\ q \in members'[n][g] <=> q \in members[n][g] \/ (g \in G /\ q = p)
         /\ g \in pgroups'[n][q] <=> g \in pgroups[n][q] \/ (g \in G /\ q = p)
  BY EnrolEffect
<1>2. \A q \in Node : q # p => pgroups'[n][q] = pgroups[n][q]
  BY DEF Enrol, TypeOK
<1>3. ready'[n] = ready[n] \cup {p} /\ seen'[n] = seen[n] \cup {p}
  BY DEF Enter, TypeOK
<1> QED BY <1>1, <1>2, <1>3 DEF Local

LEMMA WithdrawLocal ==
    ASSUME TypeOK, NEW n \in Node, NEW p \in Node, NEW G \in SUBSET Group,
           Local(n), Withdraw(n, p, G), UNCHANGED <<known, linked, ready, seen>>
    PROVE  Local(n)'
<1>1. \A g \in Group, q \in Node :
         /\ q \in members'[n][g] <=> q \in members[n][g] /\ ~(g \in G /\ q = p)
         /\ g \in pgroups'[n][q] <=> g \in pgroups[n][q] /\ ~(g \in G /\ q = p)
  BY WithdrawEffect
<1>2. \A q \in Node : pgroups'[n][q] \subseteq pgroups[n][q]
  BY DEF Withdraw, TypeOK
<1> QED BY <1>1, <1>2 DEF Local

LEMMA DiscoverLocal ==
    ASSUME TypeOK, NEW n \in Node, NEW p \in Node, Local(n), Discover(n, p)
    PROVE  Local(n)'
<1>1. /\ known'[n] = known[n] \cup {p} /\ linked'[n] = linked[n] \cup {p}
      /\ UNCHANGED <<ready, pgroups, members, seen>>
  BY DEF Discover, TypeOK
<1> QED BY <1>1 DEF Local

\* Every step of Next belongs to one node n (and the peer p it is about).
StepOf(n, p) ==
    \/ Boot(n)
    \/ Stop(n) \/ Close(n) \/ Crash(n)
    \/ SendWhisper(n, p)
    \/ \E g \in Group : Join(n, g) \/ Leave(n, g) \/ Shout(n, g)
    \/ SendBeacon(n)
    \/ RecvHereKnown(n, p) \/ Discover(n, p) \/ RecvGone(n, p)
    \/ \E b \in {"here", "gone"} : LoseBeacon(n, p, b)
    \/ HelloRefresh(n, p) \/ HelloComplete(n, p) \/ HelloAdmit(n, p)
    \/ RecvJoin(n, p) \/ RecvLeave(n, p)
    \/ RecvData(n, p) \/ RecvIgnored(n, p)
    \/ Silence(n, p) \/ Resume(n, p) \/ Expire(n, p)
    \/ Discard(n, p) \/ Perish(n, p)

LEMMA NextStepOf == Next => \E n, p \in Node : StepOf(n, p)
BY DEF Next, Receive, StepOf

\* A step of n leaves the tables and the phase of every other node alone.
LEMMA OthersStep ==
    ASSUME TypeOK, NEW n \in Node, NEW p \in Node, StepOf(n, p),
           NEW m \in Node, m # n
    PROVE  SameTables(m) /\ phase'[m] = phase[m]
<1>1. CASE Boot(n)
  BY <1>1 DEF Boot, Forget, SameTables, TypeOK
<1>2. CASE Stop(n) \/ Close(n) \/ Crash(n)
  BY <1>2 DEF Stop, Close, Crash, Forget, SameTables, TypeOK, node
<1>3. CASE SendWhisper(n, p)
  BY <1>3, PostOthers DEF SendWhisper
<1>4. CASE \E g \in Group : Join(n, g) \/ Leave(n, g) \/ Shout(n, g)
  BY <1>4, PostOthers DEF Join, Leave, Shout
<1>5. CASE SendBeacon(n) \/ RecvHereKnown(n, p)
  BY <1>5 DEF SendBeacon, RecvHereKnown, Hear, SameTables, node
<1>6. CASE Discover(n, p)
  BY <1>6 DEF Discover, Hear, SameTables, TypeOK
<1>7. CASE RecvGone(n, p)
  <2>1. CASE p \in known[n]
    BY <1>7, <2>1, DropOthers DEF RecvGone, Hear
  <2>2. CASE p \notin known[n]
    BY <1>7, <2>2 DEF RecvGone, Hear, SameTables
  <2> QED BY <2>1, <2>2
<1>8. CASE \E b \in {"here", "gone"} : LoseBeacon(n, p, b)
  BY <1>8 DEF LoseBeacon, SameTables, node
<1>9. CASE HelloRefresh(n, p) \/ RecvData(n, p) \/ RecvIgnored(n, p)
  BY <1>9 DEF HelloRefresh, RecvData, RecvIgnored, Take, SameTables
<1>10. CASE HelloComplete(n, p)
  BY <1>10 DEF HelloComplete, Take, Enter, Enrol, SameTables, TypeOK
<1>11. CASE HelloAdmit(n, p)
  <2>1. UNCHANGED phase
    BY <1>11 DEF HelloAdmit, Take
  <2>2. known'[m] = known[m] /\ linked'[m] = linked[m]
    BY <1>11 DEF HelloAdmit, TypeOK
  <2>3. Enter(n, p) /\ Enrol(n, p, Head(net[p][n]).groups)
    BY <1>11 DEF HelloAdmit
  <2> QED BY <2>1, <2>2, <2>3 DEF Enter, Enrol, SameTables, TypeOK
<1>12. CASE RecvJoin(n, p)
  BY <1>12 DEF RecvJoin, Take, Enrol, SameTables, TypeOK
<1>13. CASE RecvLeave(n, p)
  BY <1>13 DEF RecvLeave, Take, Withdraw, SameTables, TypeOK
<1>14. CASE \/ Silence(n, p) \/ Resume(n, p) \/ Discard(n, p) \/ Perish(n, p)
  BY <1>14 DEF Silence, Resume, Discard, Perish, SameTables, node
<1>15. CASE Expire(n, p)
  BY <1>15, DropOthers DEF Expire
<1> QED BY <1>1, <1>2, <1>3, <1>4, <1>5, <1>6, <1>7, <1>8, <1>9, <1>10, <1>11,
           <1>12, <1>13, <1>14, <1>15 DEF StepOf

\* A node that runs after its own step has consistent tables if it had them.
LEMMA OwnStep ==
    ASSUME TypeOK, NEW n \in Node, NEW p \in Node, StepOf(n, p),
           phase[n] # "down" => Local(n), phase'[n] # "down"
    PROVE  Local(n)'
<1>1. CASE Boot(n)
  <2>1. /\ known'[n] = {} /\ linked'[n] = {} /\ ready'[n] = {} /\ seen'[n] = {}
        /\ pgroups'[n] = [q \in Node |-> {}]
        /\ members'[n] = [g \in Group |-> {}]
    BY <1>1 DEF Boot, Forget, TypeOK
  <2> QED BY <2>1 DEF Local
<1>2. CASE Stop(n) \/ Close(n) \/ Crash(n)
  <2>1. Stop(n)
    BY <1>2 DEF Close, Crash, TypeOK
  <2> QED BY <2>1, SameLocal DEF Stop, Up, node, SameTables
<1>3. CASE SendWhisper(n, p)
  BY <1>3, PostLocal DEF SendWhisper, Up
<1>4. CASE \E g \in Group : Join(n, g) \/ Leave(n, g) \/ Shout(n, g)
  <2>1. PICK g \in Group : Join(n, g) \/ Leave(n, g) \/ Shout(n, g)
    BY <1>4
  <2>2. phase[n] # "down" /\ UNCHANGED <<known, pgroups, members, seen>>
    BY <2>1 DEF Join, Leave, Shout, Up
  <2>3. \E T, msg : Post(n, T, msg)
    BY <2>1 DEF Join, Leave, Shout
  <2> QED BY <2>2, <2>3, PostLocal
<1>5. CASE SendBeacon(n) \/ RecvHereKnown(n, p)
  BY <1>5, SameLocal DEF SendBeacon, RecvHereKnown, Hear, SameTables, node, Up
<1>6. CASE Discover(n, p)
  BY <1>6, DiscoverLocal DEF Discover, Hear, Up
<1>7. CASE RecvGone(n, p)
  <2>1. CASE p \in known[n]
    BY <1>7, <2>1, DropLocal DEF RecvGone, Hear, Up
  <2>2. CASE p \notin known[n]
    BY <1>7, <2>2, SameLocal DEF RecvGone, Hear, Up, SameTables
  <2> QED BY <2>1, <2>2
<1>8. CASE \E b \in {"here", "gone"} : LoseBeacon(n, p, b)
  BY <1>8, SameLocal DEF LoseBeacon, SameTables, node, Up
<1>9. CASE HelloRefresh(n, p) \/ RecvData(n, p) \/ RecvIgnored(n, p)
  BY <1>9, SameLocal DEF HelloRefresh, RecvData, RecvIgnored, Take, SameTables, Up
<1>10. CASE HelloComplete(n, p)
  <2>1. Head(net[p][n]).groups \in SUBSET Group
    BY <1>10, TakeQueue DEF HelloComplete
  <2>2. known'[n] = known[n] \cup {p} /\ linked'[n] = linked[n]
    BY <1>10 DEF HelloComplete
  <2> QED BY <1>10, <2>1, <2>2, EnrolLocal DEF HelloComplete, Take, Up
<1>11. CASE HelloAdmit(n, p)
  <2>1. Head(net[p][n]).groups \in SUBSET Group
    BY <1>11, TakeQueue DEF HelloAdmit
  <2>2. known'[n] = known[n] \cup {p} /\ linked'[n] = linked[n] \cup {p}
    BY <1>11 DEF HelloAdmit, TypeOK
  <2>3. Enter(n, p) /\ Enrol(n, p, Head(net[p][n]).groups) /\ phase[n] # "down"
    BY <1>11 DEF HelloAdmit, Take, Up
  <2> QED BY <2>1, <2>2, <2>3, EnrolLocal
<1>12. CASE RecvJoin(n, p)
  <2>1. {Head(net[p][n]).group} \in SUBSET Group
    BY <1>12, TakeQueue DEF RecvJoin
  <2>2. Local(n) /\ p \in ready[n] /\ UNCHANGED <<known, linked, ready, seen>>
    BY <1>12 DEF RecvJoin, Take, Up
  <2>3. Enter(n, p) /\ known'[n] = known[n] \cup {p}
    BY <2>2 DEF Enter, Local, TypeOK
  <2> QED BY <1>12, <2>1, <2>2, <2>3, EnrolLocal DEF RecvJoin
<1>13. CASE RecvLeave(n, p)
  <2>1. {Head(net[p][n]).group} \in SUBSET Group
    BY <1>13, TakeQueue DEF RecvLeave
  <2> QED BY <1>13, <2>1, WithdrawLocal DEF RecvLeave, Take, Up
<1>14. CASE Silence(n, p) \/ Resume(n, p) \/ Discard(n, p) \/ Perish(n, p)
  BY <1>14, SameLocal DEF Silence, Resume, Discard, Perish, SameTables, node, Up
<1>15. CASE Expire(n, p)
  BY <1>15, DropLocal DEF Expire, Up
<1> QED BY <1>1, <1>2, <1>3, <1>4, <1>5, <1>6, <1>7, <1>8, <1>9, <1>10, <1>11,
           <1>12, <1>13, <1>14, <1>15 DEF StepOf

\* A node that is down after its own step holds no peer.
LEMMA DownStep ==
    ASSUME TypeOK, NEW n \in Node, NEW p \in Node, StepOf(n, p),
           phase[n] = "down" => known[n] = {} /\ linked[n] = {},
           phase'[n] = "down"
    PROVE  known'[n] = {} /\ linked'[n] = {}
<1>1. CASE Stop(n) \/ Close(n) \/ Crash(n) \/ Boot(n)
  <2>1. Close(n) \/ Crash(n)
    BY <1>1 DEF Stop, Boot, TypeOK
  <2> QED BY <2>1 DEF Close, Crash, Forget, TypeOK
<1>2. CASE ~(Stop(n) \/ Close(n) \/ Crash(n) \/ Boot(n))
  <2>1. UNCHANGED phase
    BY <1>2 DEF StepOf, SendWhisper, Join, Leave, Shout, SendBeacon, RecvHereKnown,
       Discover, RecvGone, Hear, LoseBeacon, HelloRefresh, HelloComplete, HelloAdmit,
       RecvJoin, RecvLeave, RecvData, RecvIgnored, Take, Silence, Resume, Expire,
       Discard, Perish
  <2>2. ~Up(n) /\ phase[n] # "closing"
    BY <2>1 DEF Up
  <2>3. \/ \E b \in {"here", "gone"} : LoseBeacon(n, p, b)
        \/ Silence(n, p) \/ Resume(n, p) \/ Discard(n, p) \/ Perish(n, p)
    BY <1>2, <2>2 DEF StepOf, SendWhisper, Join, Leave, Shout, SendBeacon,
       RecvHereKnown, Discover, RecvGone, Hear, HelloRefresh, HelloComplete,
       HelloAdmit, RecvJoin, RecvLeave, RecvData, RecvIgnored, Take, Expire
  <2>4. UNCHANGED <<known, linked>>
    BY <2>3 DEF LoseBeacon, Silence, Resume, Discard, Perish, node
  <2> QED BY <2>1, <2>4
<1> QED BY <1>1, <1>2

LEMMA TablesStep == TypeOK /\ Tables /\ [Next]_vars => Tables'
<1> SUFFICES ASSUME TypeOK, Tables, [Next]_vars PROVE Tables'
  OBVIOUS
<1>1. CASE UNCHANGED vars
  BY <1>1 DEF vars, Tables, Local
<1>2. CASE Next
  <2>1. PICK n \in Node, p \in Node : StepOf(n, p)
    BY <1>2, NextStepOf
  <2>2. ASSUME NEW m \in Node, m # n
        PROVE  IF phase'[m] = "down" THEN known'[m] = {} /\ linked'[m] = {}
               ELSE Local(m)'
    <3>1. SameTables(m) /\ phase'[m] = phase[m]
      BY <2>1, <2>2, OthersStep
    <3>2. CASE phase[m] = "down"
      BY <3>1, <3>2 DEF Tables, SameTables
    <3>3. CASE phase[m] # "down"
      BY <3>1, <3>3, SameLocal DEF Tables
    <3> QED BY <3>2, <3>3
  <2>3. IF phase'[n] = "down" THEN known'[n] = {} /\ linked'[n] = {}
        ELSE Local(n)'
    BY <2>1, DownStep, OwnStep DEF Tables
  <2> QED BY <2>2, <2>3 DEF Tables
<1> QED BY <1>1, <1>2

LEMMA TablesCorrect == Spec => []Tables
<1>1. Init => Tables
  BY DEF Init, Fresh, Tables
<1>2. TypeOK /\ Tables /\ [Next]_vars => Tables'
  BY TablesStep
<1> QED BY <1>1, <1>2, TypeCorrect, PTL DEF Spec

\* peers_by_group and the table of peers never disagree, whatever the
\* interleaving of HELLO, JOIN, LEAVE, EXIT, expiry, crash and restart.
THEOREM GroupIndexHolds == Spec => []GroupIndex
<1>1. TypeOK /\ Tables => GroupIndex
  <2> SUFFICES ASSUME TypeOK, Tables, NEW n \in Node, Up(n),
                      NEW g \in Group, NEW p \in Node
               PROVE  p \in members[n][g] <=> p \in known[n] /\ g \in pgroups[n][p]
    BY DEF GroupIndex
  <2>1. Local(n)
    BY DEF Tables, Up
  <2> QED BY <2>1 DEF Local
<1> QED BY <1>1, TypeCorrect, TablesCorrect, PTL

\* ENTER and EXIT bracket everything a node does with a peer.
THEOREM AppViewHolds == Spec => []AppView
<1>1. Tables => AppView
  BY DEF Tables, AppView, Local, Up
<1> QED BY <1>1, TablesCorrect, PTL

-----------------------------------------------------------------------------
(* The handshake: queues that a HELLO leads *)

LEMMA LeadsAppend ==
    ASSUME NEW q \in Seq(Message), NEW f \in BOOLEAN, NEW m \in Message,
           Leads(q, f), f => q # <<>>, m.type # "HELLO"
    PROVE  Leads(Append(q, m), f)
<1>1. /\ Len(Append(q, m)) = Len(q) + 1
      /\ \A i \in 1 .. Len(q) : Append(q, m)[i] = q[i]
      /\ Append(q, m)[Len(q) + 1] = m
      /\ Append(q, m) \in Seq(Message)
  BY AppendProperties
<1>2. \A i \in DOMAIN Append(q, m) : i \in DOMAIN q \/ i = Len(q) + 1
  BY <1>1
<1>3. f => Len(q) + 1 # 1
  BY EmptySeq
<1> QED BY <1>1, <1>2, <1>3 DEF Leads

LEMMA LeadsTail ==
    ASSUME NEW q \in Seq(Message), NEW f \in BOOLEAN, Leads(q, f), q # <<>>
    PROVE  Leads(Tail(q), FALSE) /\ (Head(q).type = "HELLO" <=> f)
<1>1. /\ Len(Tail(q)) = Len(q) - 1
      /\ \A i \in 1 .. Len(Tail(q)) : Tail(q)[i] = q[i + 1]
      /\ Head(q) = q[1] /\ 1 \in DOMAIN q
      /\ Tail(q) \in Seq(Message)
  BY HeadTailProperties, EmptySeq
<1>2. \A i \in DOMAIN Tail(q) : i + 1 \in DOMAIN q /\ i + 1 # 1 /\ Tail(q)[i] = q[i + 1]
  BY <1>1
<1> QED BY <1>1, <1>2 DEF Leads

LEMMA LeadsHello ==
    ASSUME NEW G \in SUBSET Group
    PROVE  Leads(Append(<<>>, Hello(G)), TRUE) /\ Append(<<>>, Hello(G)) # <<>>
BY DEF Leads, Hello

-----------------------------------------------------------------------------
(* The handshake: steps that leave a pair alone *)

\* Nothing that Session(a, b) is about changes, or only towards calm.
Aside(a, b) ==
    /\ phase'[a] = phase[a] /\ phase'[b] = phase[b]
    /\ b \in known'[a] <=> b \in known[a]
    /\ b \in linked'[a] <=> b \in linked[a]
    /\ b \in seen'[a] <=> b \in seen[a]
    /\ b \in ready'[a] <=> b \in ready[a]
    /\ a \in ready'[b] <=> a \in ready[b]
    /\ net'[a][b] = net[a][b]
    /\ ~Up(a) => air'[a][b] \subseteq air[a][b]
    /\ b \in torn[a] => b \in torn'[a]

LEMMA AsideSession ==
    ASSUME NEW a \in Node, NEW b \in Node, Session(a, b), Aside(a, b)
    PROVE  Session(a, b)'
<1> SUFFICES ASSUME a # b, b \notin torn'[a]
             PROVE  IF Up(a)' /\ Up(b)' THEN Greeted(a, b)' ELSE Unmet(a, b)'
  BY DEF Session
<1>1. IF Up(a) /\ Up(b) THEN Greeted(a, b) ELSE Unmet(a, b)
  BY DEF Session, Aside
<1>2. CASE Up(a) /\ Up(b)
  <2>1. (a \notin ready'[b]) = (a \notin ready[b])
    BY DEF Aside
  <2> QED BY <1>1, <1>2, <2>1 DEF Greeted, Aside, Up, Leads
<1>3. CASE ~(Up(a) /\ Up(b))
  BY <1>1, <1>3 DEF Unmet, Aside, Up
<1> QED BY <1>2, <1>3

\* What a step does to the queue and the beacons of a pair it is not part of.
LEMMA OthersAside ==
    ASSUME TypeOK, NEW n \in Node, NEW p \in Node, StepOf(n, p),
           NEW a \in Node, NEW b \in Node, a # n, b # n
    PROVE  Aside(a, b)
<1>1. /\ SameTables(a) /\ SameTables(b)
      /\ phase'[a] = phase[a] /\ phase'[b] = phase[b]
  BY OthersStep
<1>2. net'[a][b] = net[a][b]
  <2>1. CASE \/ Boot(n) \/ Stop(n) \/ Close(n) \/ Crash(n) \/ SendBeacon(n)
             \/ RecvHereKnown(n, p) \/ RecvGone(n, p)
             \/ \E c \in {"here", "gone"} : LoseBeacon(n, p, c)
             \/ Silence(n, p) \/ Resume(n, p) \/ Expire(n, p)
    BY <2>1 DEF Boot, Stop, Close, Crash, SendBeacon, RecvHereKnown, RecvGone,
       LoseBeacon, Silence, Resume, Expire
  <2>2. CASE \/ SendWhisper(n, p)
             \/ \E g \in Group : Join(n, g) \/ Leave(n, g) \/ Shout(n, g)
    <3>1. PICK T, msg : Post(n, T, msg)
      BY <2>2 DEF SendWhisper, Join, Leave, Shout
    <3> QED BY <3>1 DEF Post, TypeOK
  <2>3. CASE \/ HelloRefresh(n, p) \/ HelloComplete(n, p) \/ RecvJoin(n, p)
             \/ RecvLeave(n, p) \/ RecvData(n, p) \/ RecvIgnored(n, p)
    <3>1. Consume(n, p)
      BY <2>3 DEF HelloRefresh, HelloComplete, RecvJoin, RecvLeave, RecvData,
         RecvIgnored
    <3> QED BY <3>1 DEF Consume, TypeOK
  <2>4. CASE Discover(n, p)
    BY <2>4 DEF Discover, TypeOK
  <2>5. CASE HelloAdmit(n, p)
    BY <2>5 DEF HelloAdmit, TypeOK
  <2>6. CASE Discard(n, p) \/ Perish(n, p)
    BY <2>6 DEF Discard, Perish, TypeOK
  <2> QED BY <2>1, <2>2, <2>3, <2>4, <2>5, <2>6 DEF StepOf
<1>3. air'[a][b] \subseteq air[a][b]
  <2>1. CASE Boot(n) \/ Stop(n) \/ SendBeacon(n)
    BY <2>1 DEF Boot, Stop, SendBeacon, Cast, TypeOK
  <2>2. CASE \/ RecvHereKnown(n, p) \/ Discover(n, p) \/ RecvGone(n, p)
             \/ \E c \in {"here", "gone"} : LoseBeacon(n, p, c)
    <3>1. PICK c : air' = [air EXCEPT ![p][n] = @ \ {c}]
      BY <2>2 DEF RecvHereKnown, Discover, RecvGone, Hear, LoseBeacon
    <3> QED BY <3>1 DEF TypeOK
  <2>3. CASE \/ Close(n) \/ Crash(n) \/ SendWhisper(n, p)
             \/ \E g \in Group : Join(n, g) \/ Leave(n, g) \/ Shout(n, g)
    BY <2>3 DEF Close, Crash, SendWhisper, Join, Leave, Shout
  <2>4. CASE \/ HelloRefresh(n, p) \/ HelloComplete(n, p) \/ HelloAdmit(n, p)
             \/ RecvJoin(n, p) \/ RecvLeave(n, p) \/ RecvData(n, p) \/ RecvIgnored(n, p)
    BY <2>4 DEF HelloRefresh, HelloComplete, HelloAdmit, RecvJoin, RecvLeave, RecvData,
       RecvIgnored, Take, TakeClosing
  <2>5. CASE Silence(n, p) \/ Resume(n, p) \/ Expire(n, p) \/ Discard(n, p) \/ Perish(n, p)
    BY <2>5 DEF Silence, Resume, Expire, Discard, Perish
  <2> QED BY <2>1, <2>2, <2>3, <2>4, <2>5 DEF StepOf
<1>4. b \in torn[a] => b \in torn'[a]
  <2>1. CASE Boot(n)
    BY <2>1 DEF Boot, TypeOK
  <2>2. CASE \E Q : Tear(n, Q)
    BY <2>2 DEF Tear, TypeOK
  <2>3. CASE UNCHANGED torn
    BY <2>3
  <2>4. Boot(n) \/ (\E Q : Tear(n, Q)) \/ UNCHANGED torn
    BY DEF StepOf, Stop, Close, Crash, SendWhisper, Join, Leave, Shout, Post,
       SendBeacon, RecvHereKnown, Discover, RecvGone, Drop, LoseBeacon,
       HelloRefresh, HelloComplete, HelloAdmit, RecvJoin, RecvLeave, RecvData,
       RecvIgnored, Silence, Resume, Expire, Discard, Perish
  <2> QED BY <2>1, <2>2, <2>3, <2>4
<1> QED BY <1>1, <1>2, <1>3, <1>4 DEF Aside, SameTables

-----------------------------------------------------------------------------
(* The handshake: steps of a node of the pair *)

\* A message on the queue of an undisturbed pair means that the pair has met.
LEMMA QueueMeansMet ==
    ASSUME NEW a \in Node, NEW b \in Node, Session(a, b), a # b, b \notin torn[a],
           net[a][b] # <<>> \/ b \in known[a] \/ (air[a][b] # {} /\ ~Up(a))
    PROVE  Up(a) /\ Up(b) /\ Greeted(a, b)
BY DEF Session, Unmet

LEMMA BootSession ==
    ASSUME TypeOK, Handshake, NEW n \in Node, Boot(n),
           NEW a \in Node, NEW b \in Node, n \in {a, b}
    PROVE  Session(a, b)'
<1> SUFFICES ASSUME a # b, b \notin torn'[a]
             PROVE  IF Up(a)' /\ Up(b)' THEN Greeted(a, b)' ELSE Unmet(a, b)'
  BY DEF Session
<1>1. /\ phase'[n] = "up" /\ ~Up(n)
      /\ \A m \in Node : m # n => phase'[m] = phase[m] /\ SameTables(m)
      /\ known'[n] = {} /\ linked'[n] = {} /\ ready'[n] = {} /\ seen'[n] = {}
      /\ net' = net
  BY DEF Boot, Forget, Up, SameTables, TypeOK
<1>2. b \notin torn[a] \/ Clean(a, b)
  BY DEF Boot
<1>3. /\ b \notin known[a] /\ a \notin known[b]
      /\ net[a][b] = <<>> /\ net[b][a] = <<>>
      /\ ~Up(a) => air[a][b] = {}
  <2>1. CASE b \notin torn[a]
    <3>1. /\ Session(a, b) /\ Session(b, a) /\ a \notin torn[b]
      BY <2>1 DEF Handshake
    <3> QED BY <1>1, <2>1, <3>1 DEF Session, Unmet
  <2>2. CASE Clean(a, b)
    BY <2>2 DEF Clean
  <2> QED BY <1>2, <2>1, <2>2
<1>4. b \notin known'[a] /\ net'[a][b] = <<>>
  BY <1>1, <1>3 DEF SameTables
<1>5. ASSUME ~Up(a)'
      PROVE  air'[a][b] = {}
  <2>1. a # n
    BY <1>1, <1>5 DEF Up
  <2>2. air'[a][b] = air[a][b]
    BY <2>1 DEF Boot, Cast, TypeOK
  <2> QED BY <1>1, <1>3, <1>5, <2>1, <2>2 DEF Up
<1>6. ASSUME Up(a)' /\ Up(b)'
      PROVE  b \notin seen'[a] /\ a \notin ready'[b]
  <2>1. CASE n = a
    <3>1. Local(b) /\ ready'[b] = ready[b]
      BY <1>1, <1>6, <2>1 DEF Handshake, Tables, Up, SameTables
    <3> QED BY <1>1, <1>3, <2>1, <3>1 DEF Local
  <2>2. CASE n = b /\ n # a
    <3>1. Local(a) /\ seen'[a] = seen[a]
      BY <1>1, <1>6, <2>2 DEF Handshake, Tables, Up, SameTables
    <3> QED BY <1>1, <1>3, <2>2, <3>1 DEF Local
  <2> QED BY <2>1, <2>2
<1>7. Leads(net'[a][b], TRUE)
  BY <1>4 DEF Leads
<1>8. CASE Up(a)' /\ Up(b)'
  BY <1>4, <1>6, <1>7, <1>8 DEF Greeted, Leads
<1>9. CASE ~(Up(a)' /\ Up(b)')
  BY <1>4, <1>5, <1>9 DEF Unmet
<1> QED BY <1>8, <1>9

\* stop() and a crash tear every pair of the node; closing changes no pair that
\* was not torn before.
LEMMA LifeSession ==
    ASSUME TypeOK, Handshake, NEW n \in Node, Stop(n) \/ Close(n) \/ Crash(n),
           NEW a \in Node, NEW b \in Node, n \in {a, b}
    PROVE  Session(a, b)'
<1>1. CASE Stop(n) \/ Crash(n)
  <2>1. Tear(n, Node)
    BY <1>1 DEF Stop, Crash
  <2>2. a # b => b \in torn'[a]
    BY <2>1 DEF Tear
  <2> QED BY <2>2 DEF Session
<1>2. CASE Close(n)
  <2>1. /\ phase' = [phase EXCEPT ![n] = "down"] /\ ~Up(n)
        /\ known' = [known EXCEPT ![n] = {}]
        /\ UNCHANGED <<net, air, torn>>
    BY <1>2 DEF Close, Up
  <2>2. ~Up(n)' /\ \A m \in Node : Up(m)' => Up(m)
    BY <2>1 DEF Up, TypeOK
  <2>3. \A m \in Node : Up(m) => Up(m)'
    BY <2>1 DEF Up, TypeOK
  <2>4. b \notin known[a] => b \notin known'[a]
    BY <2>1 DEF TypeOK
  <2>5. Session(a, b)
    BY DEF Handshake
  <2> QED BY <2>1, <2>2, <2>3, <2>4, <2>5 DEF Session, Unmet
<1> QED BY <1>1, <1>2

\* A command appended to the queue keeps HELLO first; a full queue tears the pair.
LEMMA PostSession ==
    ASSUME TypeOK, Handshake, NEW n \in Node, NEW T \in SUBSET Node,
           NEW m \in Message, m.type # "HELLO", phase[n] # "down", Post(n, T, m),
           UNCHANGED <<phase, known, pgroups, members, seen, air>>,
           NEW a \in Node, NEW b \in Node, n \in {a, b}
    PROVE  Session(a, b)'
<1> SUFFICES ASSUME a # b, b \notin torn'[a]
             PROVE  IF Up(a)' /\ Up(b)' THEN Greeted(a, b)' ELSE Unmet(a, b)'
  BY DEF Session
<1>1. /\ b \notin torn[a]
      /\ n = a => b \notin Clogged(n, T)
      /\ n = b => a \notin Clogged(n, T)
  BY DEF Post, Tear, TypeOK
<1>2. /\ b \in linked'[a] <=> b \in linked[a]
      /\ b \in ready'[a] <=> b \in ready[a]
      /\ a \in ready'[b] <=> a \in ready[b]
  BY <1>1 DEF Post, TypeOK
<1>3. Session(a, b)
  BY DEF Handshake
<1>4. CASE n = b \/ b \notin T \/ b \notin linked[n]
  <2>1. net'[a][b] = net[a][b]
    BY <1>4 DEF Post, TypeOK
  <2>2. Aside(a, b)
    BY <1>1, <1>2, <2>1 DEF Aside
  <2> QED BY <1>3, <2>2, AsideSession DEF Session
<1>5. CASE n = a /\ b \in T /\ b \in linked[n]
  <2>1. net'[a][b] = Append(net[a][b], m)
    BY <1>1, <1>5 DEF Post, TypeOK
  <2>2. b \in known[a]
    BY <1>5 DEF Handshake, Tables, Local
  <2>3. Up(a) /\ Up(b) /\ Greeted(a, b)
    BY <1>1, <1>3, <2>2, QueueMeansMet
  <2>4. net[a][b] \in Seq(Message)
    BY DEF TypeOK
  <2>5. Leads(net'[a][b], a \notin ready[b])
    BY <2>1, <2>2, <2>3, <2>4, LeadsAppend DEF Greeted
  <2>6. net'[a][b] # <<>>
    BY <2>1, <2>4, AppendProperties
  <2>7. (a \notin ready'[b]) = (a \notin ready[b])
    BY <1>2
  <2>8. Leads(net'[a][b], a \notin ready'[b])
    BY <2>5, <2>7
  <2> QED BY <1>2, <2>2, <2>3, <2>6, <2>8 DEF Greeted, Up
<1> QED BY <1>4, <1>5

\* Removing p tears the pair {n, p} and touches no other.
LEMMA DropSession ==
    ASSUME TypeOK, Handshake, NEW n \in Node, NEW p \in Node, Drop(n, p),
           UNCHANGED <<phase, net>>,
           NEW a \in Node, NEW b \in Node, n \in {a, b},
           air'[a][b] \subseteq air[a][b]
    PROVE  Session(a, b)'
<1>1. CASE p \in {a, b} /\ a # b
  <2>1. n # p => b \in torn'[a]
    BY <1>1 DEF Drop, Tear
  <2>2. CASE n # p
    BY <2>1, <2>2 DEF Session
  <2>3. CASE n = p
    <3>1. Aside(a, b) \/ b \in torn'[a]
      BY <1>1, <2>3 DEF Drop, Tear, Aside, TypeOK
    <3> QED BY <3>1, AsideSession DEF Session, Handshake
  <2> QED BY <2>2, <2>3
<1>2. CASE p \notin {a, b}
  <2>1. Aside(a, b)
    BY <1>2 DEF Drop, Tear, Aside, TypeOK
  <2> QED BY <2>1, AsideSession DEF Handshake
<1>3. CASE a = b
  BY <1>3 DEF Session
<1> QED BY <1>1, <1>2, <1>3

LEMMA BeaconSession ==
    ASSUME TypeOK, Handshake, NEW n \in Node, NEW p \in Node,
           \/ SendBeacon(n) \/ RecvHereKnown(n, p) \/ RecvGone(n, p)
           \/ \E c \in {"here", "gone"} : LoseBeacon(n, p, c),
           NEW a \in Node, NEW b \in Node, n \in {a, b}
    PROVE  Session(a, b)'
<1>1. CASE SendBeacon(n)
  <2>1. ~Up(a) => air'[a][b] = air[a][b]
    BY <1>1 DEF SendBeacon, Cast, TypeOK
  <2>2. Aside(a, b)
    BY <1>1, <2>1 DEF SendBeacon, Aside, node
  <2> QED BY <2>2, AsideSession DEF Handshake
<1>2. CASE RecvHereKnown(n, p)
  <2>1. air'[a][b] \subseteq air[a][b]
    BY <1>2 DEF RecvHereKnown, Hear, TypeOK
  <2>2. Aside(a, b)
    BY <1>2, <2>1 DEF RecvHereKnown, Hear, Aside
  <2> QED BY <2>2, AsideSession DEF Handshake
<1>3. CASE RecvGone(n, p)
  <2>1. air'[a][b] \subseteq air[a][b] /\ UNCHANGED <<phase, net>>
    BY <1>3 DEF RecvGone, Hear, TypeOK
  <2>2. CASE p \in known[n]
    BY <1>3, <2>1, <2>2, DropSession DEF RecvGone
  <2>3. CASE p \notin known[n]
    <3>1. Aside(a, b)
      BY <1>3, <2>1, <2>3 DEF RecvGone, Aside
    <3> QED BY <3>1, AsideSession DEF Handshake
  <2> QED BY <2>2, <2>3
<1>4. CASE \E c \in {"here", "gone"} : LoseBeacon(n, p, c)
  <2>1. air'[a][b] \subseteq air[a][b]
    BY <1>4 DEF LoseBeacon, TypeOK
  <2>2. Aside(a, b)
    BY <1>4, <2>1 DEF LoseBeacon, Aside, node
  <2> QED BY <2>2, AsideSession DEF Handshake
<1> QED BY <1>1, <1>2, <1>3, <1>4

\* A discovered peer is greeted on a queue that was empty.
LEMMA DiscoverSession ==
    ASSUME TypeOK, Handshake, NEW n \in Node, NEW p \in Node, Discover(n, p),
           NEW a \in Node, NEW b \in Node, n \in {a, b}
    PROVE  Session(a, b)'
<1> SUFFICES ASSUME a # b, b \notin torn[a] PROVE Session(a, b)'
  BY DEF Session, Discover
<1>1. /\ UNCHANGED <<phase, ready, seen, torn>> /\ Up(n) /\ p \notin known[n]
      /\ air[p][n] # {} /\ air'[a][b] \subseteq air[a][b]
  BY DEF Discover, Hear, TypeOK
<1>2. CASE ~(a = n /\ b = p)
  <2>1. Aside(a, b)
    BY <1>1, <1>2 DEF Discover, Aside, TypeOK
  <2> QED BY <2>1, AsideSession DEF Handshake
<1>3. CASE a = n /\ b = p
  <2>1. a \notin torn[b] /\ Session(a, b) /\ Session(b, a)
    BY DEF Handshake
  <2>2. Up(b)
    BY <1>1, <1>3, <2>1, QueueMeansMet
  <2>3. Greeted(a, b)
    BY <1>1, <1>3, <2>1, <2>2 DEF Session
  <2>4. net[a][b] = <<>> /\ a \notin ready[b] /\ b \notin seen[a]
    <3>1. Local(a)
      BY <1>1, <1>3 DEF Handshake, Tables, Up
    <3> QED BY <1>1, <1>3, <2>3, <3>1 DEF Greeted, Local
  <2>5. net'[a][b] = Append(<<>>, Hello(own[a]))
    BY <1>3, <2>4 DEF Discover, TypeOK
  <2>6. own[a] \in SUBSET Group
    BY DEF TypeOK
  <2>7. Leads(net'[a][b], TRUE) /\ net'[a][b] # <<>>
    BY <2>5, <2>6, LeadsHello
  <2>8. b \in known'[a] /\ b \in linked'[a]
    BY <1>3 DEF Discover, TypeOK
  <2>9. a \notin ready'[b] /\ b \notin seen'[a]
    BY <1>1, <2>4
  <2> QED BY <1>1, <1>3, <2>2, <2>7, <2>8, <2>9 DEF Session, Greeted, Leads, Up
<1> QED BY <1>2, <1>3

\* What libzmq loses is never on the queue of an undisturbed pair.
LEMMA LossSession ==
    ASSUME TypeOK, Handshake, NEW n \in Node, NEW p \in Node,
           \/ Silence(n, p) \/ Resume(n, p) \/ Expire(n, p)
           \/ Discard(n, p) \/ Perish(n, p),
           NEW a \in Node, NEW b \in Node, n \in {a, b}
    PROVE  Session(a, b)'
<1>1. CASE Expire(n, p)
  BY <1>1, DropSession DEF Expire
<1>2. CASE Silence(n, p) \/ Resume(n, p)
  <2>1. Aside(a, b)
    BY <1>2 DEF Silence, Resume, Aside, node
  <2> QED BY <2>1, AsideSession DEF Handshake
<1>3. CASE Discard(n, p) \/ Perish(n, p)
  <2>1. /\ UNCHANGED <<phase, known, linked, seen, ready, air, torn>>
        /\ net[n][p] # <<>> /\ (p \notin linked[n] \/ ~Up(p))
    BY <1>3 DEF Discard, Perish, node, Up
  <2>2. ~(a = n /\ b = p) => net'[a][b] = net[a][b]
    <3>1. PICK q : net' = [net EXCEPT ![n][p] = q]
      BY <1>3 DEF Discard, Perish
    <3> QED BY <3>1 DEF TypeOK
  <2>3. CASE ~(a = n /\ b = p)
    BY <2>1, <2>2, <2>3, AsideSession DEF Aside, Handshake
  <2>4. CASE a = n /\ b = p /\ a # b /\ b \notin torn[a]
    <3>1. Up(b) /\ Greeted(a, b)
      BY <2>1, <2>4, QueueMeansMet DEF Handshake
    <3> QED BY <2>1, <2>4, <3>1 DEF Greeted
  <2> QED BY <2>1, <2>3, <2>4 DEF Session
<1> QED BY <1>1, <1>2, <1>3

\* A message taken off an undisturbed pair's queue: HELLO if and only if its
\* sender is not ready; what is left has no HELLO.
LEMMA TakeMet ==
    ASSUME TypeOK, Handshake, NEW n \in Node, NEW p \in Node, NEW T, Take(n, p, T),
           n # p, n \notin torn[p]
    PROVE  /\ Up(n) /\ Up(p) /\ Greeted(p, n) /\ Greeted(n, p)
           /\ n \in known[p] /\ p \notin torn[n]
           /\ Head(net[p][n]).type = "HELLO" <=> p \notin ready[n]
           /\ Leads(Tail(net[p][n]), FALSE)
<1>1. /\ Session(p, n) /\ Session(n, p) /\ p \notin torn[n]
      /\ net[p][n] # <<>>
  BY DEF Handshake, Take
<1>2. Up(n) /\ Up(p) /\ Greeted(p, n) /\ Greeted(n, p)
  BY <1>1, QueueMeansMet DEF Session
<1>3. net[p][n] \in Seq(Message) /\ (p \notin ready[n]) \in BOOLEAN
  BY DEF TypeOK
<1>4. Leads(net[p][n], p \notin ready[n])
  BY <1>2 DEF Greeted
<1> QED BY <1>1, <1>2, <1>3, <1>4, LeadsTail DEF Greeted

\* A handler that consumes a message of a ready or newly ready peer.
LEMMA ConsumeSession ==
    ASSUME TypeOK, Handshake, NEW n \in Node, NEW p \in Node, NEW T, Take(n, p, T),
           Consume(n, p), UNCHANGED <<known, linked, torn>>,
           \/ UNCHANGED <<ready, seen>>
              /\ (p \in ready[n] \/ Head(net[p][n]).type # "HELLO")
           \/ Enter(n, p) /\ p \in known[n],
           NEW a \in Node, NEW b \in Node, n \in {a, b}
    PROVE  Session(a, b)'
<1> SUFFICES ASSUME a # b, b \notin torn[a] PROVE Session(a, b)'
  BY DEF Session
<1>1. UNCHANGED <<phase, known, linked, air, torn>>
  BY DEF Take
<1>2. \A c, d \in Node : ~(c = p /\ d = n) => net'[c][d] = net[c][d]
  BY DEF Consume, TypeOK
<1>3. \A c, d \in Node : ~(c = n /\ d = p) =>
         /\ d \in ready'[c] <=> d \in ready[c]
         /\ d \in seen'[c] <=> d \in seen[c]
  <2>1. CASE UNCHANGED <<ready, seen>>
    BY <2>1
  <2>2. CASE Enter(n, p)
    BY <2>2 DEF Enter, TypeOK
  <2> QED BY <2>1, <2>2
<1>4. Session(a, b)
  BY DEF Handshake
<1>5. CASE p \notin {a, b} \/ n = p
  <2>1. CASE n # p
    <3>1. Aside(a, b)
      BY <1>1, <1>2, <1>3, <1>5, <2>1 DEF Aside
    <3> QED BY <1>4, <3>1, AsideSession
  <2>2. CASE n = p
    <3>1. Aside(a, b)
      BY <1>1, <1>2, <1>3, <2>2 DEF Aside
    <3> QED BY <1>4, <3>1, AsideSession
  <2> QED BY <1>5, <2>1, <2>2
<1>6. CASE a = p /\ b = n
  <2>1. /\ Up(a) /\ Up(b) /\ Greeted(a, b) /\ b \in known[a]
        /\ Leads(Tail(net[a][b]), FALSE)
        /\ Head(net[a][b]).type = "HELLO" <=> a \notin ready[b]
    BY <1>6, TakeMet DEF Handshake
  <2>2. net'[a][b] = Tail(net[a][b])
    BY <1>6 DEF Consume, TypeOK
  <2>3. a \in ready'[b]
    <3>1. CASE Enter(n, p)
      BY <1>6, <3>1 DEF Enter, TypeOK
    <3>2. CASE ~Enter(n, p)
      BY <1>6, <2>1, <3>2
    <3> QED BY <3>1, <3>2
  <2>4. Leads(net'[a][b], a \notin ready'[b])
    BY <2>1, <2>2, <2>3 DEF Leads
  <2>5. /\ b \in seen'[a] => b \in seen[a]
        /\ b \in ready[a] => b \in ready'[a]
    BY <1>3, <1>6
  <2> QED BY <1>1, <2>1, <2>3, <2>4, <2>5 DEF Session, Greeted, Up
<1>7. CASE a = n /\ b = p
  <2>1. net'[a][b] = net[a][b] /\ (a \in ready'[b] <=> a \in ready[b])
    BY <1>2, <1>3, <1>7
  <2>2. Up(a) /\ Up(b) /\ Greeted(a, b)
    BY <1>7, TakeMet DEF Handshake
  <2>3. b \in seen'[a] => b \in ready'[a]
    <3>1. CASE Enter(n, p)
      BY <1>7, <3>1 DEF Enter, TypeOK
    <3>2. CASE ~Enter(n, p)
      BY <2>2, <3>2 DEF Greeted
    <3> QED BY <3>1, <3>2
  <2>4. (a \notin ready'[b]) = (a \notin ready[b])
    BY <2>1
  <2>5. Leads(net'[a][b], a \notin ready'[b])
    BY <2>1, <2>2, <2>4 DEF Greeted
  <2> QED BY <1>1, <2>1, <2>2, <2>3, <2>5 DEF Session, Greeted, Up
<1> QED BY <1>5, <1>6, <1>7

LEMMA ReceiveSession ==
    ASSUME TypeOK, Handshake, NEW n \in Node, NEW p \in Node,
           \/ HelloRefresh(n, p) \/ HelloComplete(n, p) \/ RecvJoin(n, p)
           \/ RecvLeave(n, p) \/ RecvData(n, p) \/ RecvIgnored(n, p),
           NEW a \in Node, NEW b \in Node, n \in {a, b}
    PROVE  Session(a, b)'
<1>1. CASE HelloRefresh(n, p) \/ RecvJoin(n, p) \/ RecvLeave(n, p) \/ RecvData(n, p)
  <2>1. /\ \E T : Take(n, p, T)
        /\ Consume(n, p) /\ p \in ready[n]
        /\ UNCHANGED <<known, linked, torn>> /\ UNCHANGED <<ready, seen>>
    BY <1>1 DEF HelloRefresh, RecvJoin, RecvLeave, RecvData
  <2> QED BY <2>1, ConsumeSession
<1>2. CASE RecvIgnored(n, p)
  <2>1. /\ Take(n, p, {"JOIN", "LEAVE", "WHISPER", "SHOUT"})
        /\ Consume(n, p)
        /\ UNCHANGED <<known, linked, torn>> /\ UNCHANGED <<ready, seen>>
    BY <1>2 DEF RecvIgnored
  <2>2. Head(net[p][n]).type # "HELLO"
    BY <2>1 DEF Take
  <2> QED BY <2>1, <2>2, ConsumeSession
<1>3. CASE HelloComplete(n, p)
  <2>1. /\ Take(n, p, {"HELLO"}) /\ Consume(n, p)
        /\ UNCHANGED <<known, linked, torn>> /\ Enter(n, p) /\ p \in known[n]
    BY <1>3 DEF HelloComplete
  <2> QED BY <2>1, ConsumeSession
<1> QED BY <1>1, <1>2, <1>3

\* The answer of the admitting node leads a queue that was empty.
LEMMA AdmitSession ==
    ASSUME TypeOK, Handshake, NEW n \in Node, NEW p \in Node, HelloAdmit(n, p),
           NEW a \in Node, NEW b \in Node, n \in {a, b}
    PROVE  Session(a, b)'
<1> SUFFICES ASSUME a # b, b \notin torn[a] PROVE Session(a, b)'
  BY DEF Session, HelloAdmit
<1>1. /\ Take(n, p, {"HELLO"}) /\ p \notin known[n]
      /\ UNCHANGED <<phase, air, torn>>
  BY DEF HelloAdmit, Take
<1>2. \A c, d \in Node : ~(c = n /\ d = p) =>
         /\ d \in known'[c] <=> d \in known[c]
         /\ d \in linked'[c] <=> d \in linked[c]
         /\ d \in ready'[c] <=> d \in ready[c]
         /\ d \in seen'[c] <=> d \in seen[c]
  BY DEF HelloAdmit, Enter, TypeOK
<1>3. p \in known'[n] /\ p \in linked'[n] /\ p \in ready'[n] /\ p \in seen'[n]
  BY DEF HelloAdmit, Enter, TypeOK
<1>4. \A c, d \in Node : ~(c = n /\ d = p) /\ ~(c = p /\ d = n) =>
         net'[c][d] = net[c][d]
  BY DEF HelloAdmit, TypeOK
<1>5. Session(a, b)
  BY DEF Handshake
<1>6. CASE p \notin {a, b} \/ n = p
  <2>1. Aside(a, b)
    BY <1>1, <1>2, <1>4, <1>6 DEF Aside
  <2> QED BY <1>5, <2>1, AsideSession
<1>7. CASE a = p /\ b = n
  <2>1. /\ Up(a) /\ Up(b) /\ Greeted(a, b) /\ b \in known[a]
        /\ Leads(Tail(net[a][b]), FALSE)
    BY <1>1, <1>7, TakeMet DEF Handshake
  <2>2. net'[a][b] = Tail(net[a][b])
    BY <1>7 DEF HelloAdmit, TypeOK
  <2>3. a \in ready'[b]
    BY <1>3, <1>7
  <2>4. Leads(net'[a][b], a \notin ready'[b])
    BY <2>1, <2>2, <2>3 DEF Leads
  <2> QED BY <1>1, <1>2, <1>7, <2>1, <2>3, <2>4 DEF Session, Greeted, Up
<1>8. CASE a = n /\ b = p
  <2>1. Up(a) /\ Up(b) /\ Greeted(a, b)
    BY <1>1, <1>8, TakeMet DEF Handshake
  <2>2. net[a][b] = <<>> /\ a \notin ready[b]
    BY <1>1, <1>8, <2>1 DEF Greeted
  <2>3. net'[a][b] = Append(<<>>, Hello(own[a]))
    BY <1>8, <2>2 DEF HelloAdmit, TypeOK
  <2>4. own[a] \in SUBSET Group
    BY DEF TypeOK
  <2>5. Leads(net'[a][b], TRUE) /\ net'[a][b] # <<>>
    BY <2>3, <2>4, LeadsHello
  <2>6. a \notin ready'[b]
    BY <1>2, <1>8, <2>2
  <2> QED BY <1>1, <1>3, <1>8, <2>1, <2>5, <2>6 DEF Session, Greeted, Leads, Up
<1> QED BY <1>6, <1>7, <1>8

-----------------------------------------------------------------------------
(* The handshake invariant *)

LEMMA TornStep ==
    ASSUME TypeOK, NEW n \in Node, NEW p \in Node, StepOf(n, p),
           \A a, b \in Node : a \in torn[b] <=> b \in torn[a],
           NEW a \in Node, NEW b \in Node
    PROVE  a \in torn'[b] <=> b \in torn'[a]
<1>1. CASE Boot(n)
  <2>1. \A m, q \in Node : q \in torn'[m] <=>
           q \in torn[m] /\ ~(n \in {m, q} /\ Clean(m, q))
    BY <1>1 DEF Boot, TypeOK
  <2>2. Clean(a, b) <=> Clean(b, a)
    BY DEF Clean
  <2> QED BY <2>1, <2>2
<1>2. CASE \E Q : Tear(n, Q)
  BY <1>2 DEF Tear, TypeOK
<1>3. CASE UNCHANGED torn
  BY <1>3
<1>4. Boot(n) \/ (\E Q : Tear(n, Q)) \/ UNCHANGED torn
  BY DEF StepOf, Stop, Close, Crash, SendWhisper, Join, Leave, Shout, Post,
     SendBeacon, RecvHereKnown, Discover, RecvGone, Drop, LoseBeacon,
     HelloRefresh, HelloComplete, HelloAdmit, RecvJoin, RecvLeave, RecvData,
     RecvIgnored, Silence, Resume, Expire, Discard, Perish
<1> QED BY <1>1, <1>2, <1>3, <1>4

LEMMA CommandSession ==
    ASSUME TypeOK, Handshake, NEW n \in Node, NEW p \in Node,
           \/ SendWhisper(n, p)
           \/ \E g \in Group : Join(n, g) \/ Leave(n, g) \/ Shout(n, g),
           NEW a \in Node, NEW b \in Node, n \in {a, b}
    PROVE  Session(a, b)'
<1>1. /\ phase[n] # "down"
      /\ UNCHANGED <<phase, known, pgroups, members, seen, air>>
  BY DEF SendWhisper, Join, Leave, Shout, Up
<1>2. \E T \in SUBSET Node, m \in Message : m.type # "HELLO" /\ Post(n, T, m)
  <2>1. CASE SendWhisper(n, p)
    <3>1. {p} \in SUBSET Node /\ Whisper \in Message /\ Whisper.type # "HELLO"
      BY MessageMade DEF Whisper
    <3> QED BY <2>1, <3>1 DEF SendWhisper
  <2>2. ASSUME NEW g \in Group, Join(n, g) \/ Leave(n, g) \/ Shout(n, g)
        PROVE  \E T \in SUBSET Node, m \in Message :
                  m.type # "HELLO" /\ Post(n, T, m)
    <3>1. known[n] \in SUBSET Node /\ members[n][g] \in SUBSET Node
      BY DEF TypeOK
    <3>2. \A t \in {"JOIN", "LEAVE", "SHOUT"} :
             Command(t, g) \in Message /\ Command(t, g).type # "HELLO"
      BY MessageMade DEF Command
    <3>3. \E T \in {known[n], members[n][g]}, t \in {"JOIN", "LEAVE", "SHOUT"} :
             Post(n, T, Command(t, g))
      BY <2>2 DEF Join, Leave, Shout
    <3> QED BY <3>1, <3>2, <3>3
  <2> QED BY <2>1, <2>2
<1> QED BY <1>1, <1>2, PostSession

LEMMA HandshakeStep == TypeOK /\ Handshake /\ [Next]_vars => Handshake'
<1> SUFFICES ASSUME TypeOK, Handshake, [Next]_vars PROVE Handshake'
  OBVIOUS
<1>1. Tables'
  BY TablesStep DEF Handshake
<1>2. CASE UNCHANGED vars
  <2>1. ASSUME NEW a \in Node, NEW b \in Node
        PROVE  Session(a, b)' /\ (a \in torn'[b] <=> b \in torn'[a])
    <3>1. Aside(a, b) /\ UNCHANGED torn
      BY <1>2 DEF Aside, vars
    <3> QED BY <3>1, AsideSession DEF Handshake
  <2> QED BY <1>1, <2>1 DEF Handshake
<1>3. CASE Next
  <2>1. PICK n \in Node, p \in Node : StepOf(n, p)
    BY <1>3, NextStepOf
  <2>2. ASSUME NEW a \in Node, NEW b \in Node
        PROVE  a \in torn'[b] <=> b \in torn'[a]
    BY <2>1, TornStep DEF Handshake
  <2>3. ASSUME NEW a \in Node, NEW b \in Node
        PROVE  Session(a, b)'
    <3>1. CASE n \notin {a, b}
      BY <2>1, <3>1, OthersAside, AsideSession DEF Handshake
    <3>2. CASE n \in {a, b}
      BY <2>1, <3>2, BootSession, LifeSession, CommandSession, BeaconSession,
         DiscoverSession, ReceiveSession, AdmitSession, LossSession DEF StepOf
    <3> QED BY <3>1, <3>2
  <2> QED BY <1>1, <2>2, <2>3 DEF Handshake
<1> QED BY <1>2, <1>3

\* The handshake invariant: what every never-interrupted session looks like.
THEOREM HandshakeCorrect == Spec => []Handshake
<1>1. Init => Handshake
  BY DEF Init, Fresh, Handshake, Tables, Session, Unmet, Up
<1>2. TypeOK /\ Handshake /\ [Next]_vars => Handshake'
  BY HandshakeStep
<1> QED BY <1>1, <1>2, TypeCorrect, PTL DEF Spec

\* Between undisturbed nodes no message is lost to the "not ready" check.
THEOREM NeverDeafHolds == Spec => []NeverDeaf
<1>1. TypeOK /\ Handshake => NeverDeaf
  <2> SUFFICES ASSUME TypeOK, Handshake, NEW n \in Node, NEW p \in Node,
                      Undisturbed(n, p), net[p][n] # <<>>,
                      Head(net[p][n]).type # "HELLO"
               PROVE  p \in ready[n]
    BY DEF NeverDeaf
  <2>1. Greeted(p, n)
    BY DEF Handshake, Session, Undisturbed
  <2>2. net[p][n] \in Seq(Message) /\ (p \notin ready[n]) \in BOOLEAN
    BY DEF TypeOK
  <2> QED BY <2>1, <2>2, LeadsTail DEF Greeted
<1> QED BY <1>1, TypeCorrect, HandshakeCorrect, PTL

\* HELLO leads every undisturbed connection and is never repeated on it.
THEOREM HelloFirstHolds == Spec => []HelloFirst
<1>1. Handshake => HelloFirst
  BY DEF Handshake, HelloFirst, Session, Undisturbed, Greeted, Leads
<1> QED BY <1>1, HandshakeCorrect, PTL
=============================================================================
