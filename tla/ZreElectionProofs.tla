------------------------- MODULE ZreElectionProofs -------------------------
(***************************************************************************)
(* Theorems about ZreElection.  For any number of nodes and any budgets:   *)
(* the types; who is elected contests the group and joined it (Inv); no    *)
(* contestant is passed over (Waking); one contestant leads alone.  For any*)
(* two nodes, if neither leaves: they agree, and the lower leads (Duo).    *)
(***************************************************************************)
EXTENDS ZreElection, SequenceTheorems, FiniteSetTheorems, TLAPS

(* Links *)

LEMMA MessageKinds ==
    /\ \A b \in BOOLEAN : Hello(b) \in Message
    /\ Join \in Message /\ Leave \in Message
    /\ \A c \in Node : Elect(c) \in Message /\ Leader(c) \in Message
BY DEF Hello, Join, Leave, Elect, Leader, Message

\* A link that is appended to says what it said and the message.
LEMMA LinkAppend ==
    ASSUME NEW q \in Seq(Message), NEW m \in Message
    PROVE  /\ Append(q, m) \in Seq(Message)
           /\ \A i \in 1 .. Len(Append(q, m)) :
                Append(q, m)[i] = m \/ (i \in 1 .. Len(q) /\ Append(q, m)[i] = q[i])
BY AppendProperties

LEMMA LinkTail ==
    ASSUME NEW q \in Seq(Message), q # <<>>
    PROVE  /\ Tail(q) \in Seq(Message)
           /\ Head(q) \in Message /\ Head(q) = q[1] /\ 1 \in 1 .. Len(q)
           /\ \A i \in 1 .. Len(Tail(q)) : i + 1 \in 1 .. Len(q) /\ Tail(q)[i] = q[i + 1]
BY HeadTailProperties

\* Sending keeps the links as they should be if the message is.
LEMMA SendKeeps ==
    ASSUME NEW J, NEW C, NEW L, Links(L, J, C),
           NEW n \in Node, NEW T \in SUBSET Node, n \notin T,
           NEW m \in Message, \A p \in T : Honest(m, n, p, J, C)
    PROVE  Links(Send(L, n, T, m), J, C)
<1> DEFINE S == Send(L, n, T, m)
<1>1. /\ S \in [Node -> [Node -> Seq(Message)]]
      /\ \A p, q \in Node : S[p][q] = IF p = n /\ q \in T \cap live
                                      THEN Append(L[p][q], m) ELSE L[p][q]
  <2>1. /\ S \in [Node -> [Node -> Seq(Message) \cup {Append(L[n][q], m) : q \in Node}]]
        /\ \A p, q \in Node : S[p][q] = IF p = n /\ q \in T \cap live
                                        THEN Append(L[p][q], m) ELSE L[p][q]
    BY DEF Send, Links
  <2>2. \A q \in Node : Append(L[n][q], m) \in Seq(Message)
    BY LinkAppend DEF Links
  <2>3. Seq(Message) \cup {Append(L[n][q], m) : q \in Node} = Seq(Message)
    BY <2>2
  <2> QED BY <2>1, <2>3
<1> HIDE DEF S
<1>2. ASSUME NEW p \in Node, NEW q \in Node
      PROVE  /\ p = q => S[p][q] = <<>>
             /\ \A i \in 1 .. Len(S[p][q]) : Honest(S[p][q][i], p, q, J, C)
  <2>1. CASE p = n /\ q \in T \cap live
    <3>1. L[p][q] \in Seq(Message) /\ S[p][q] = Append(L[p][q], m) /\ p # q
      BY <1>1, <2>1 DEF Links
    <3> QED BY <2>1, <3>1, LinkAppend DEF Links
  <2>2. CASE ~(p = n /\ q \in T \cap live)
    BY <1>1, <2>2 DEF Links
  <2> QED BY <2>1, <2>2
<1> QED BY <1>1, <1>2 DEF Links, S

\* Taking a message leaves the links as they should be, and it was.
LEMMA TakenKeeps ==
    ASSUME NEW J, NEW C, Links(net, J, C),
           NEW n \in Node, NEW p \in Node, net[p][n] # <<>>
    PROVE  /\ Links(Taken(n, p), J, C)
           /\ Head(net[p][n]) \in Message
           /\ Honest(Head(net[p][n]), p, n, J, C)
           /\ p # n
<1> DEFINE S == Taken(n, p)
<1>1. net[p][n] \in Seq(Message) /\ p # n
  BY DEF Links
<1>2. Head(net[p][n]) \in Message /\ Honest(Head(net[p][n]), p, n, J, C)
  BY <1>1, LinkTail DEF Links
<1>3. /\ S \in [Node -> [Node -> Seq(Message)]]
      /\ \A r, q \in Node : S[r][q] = IF r = p /\ q = n THEN Tail(net[p][n]) ELSE net[r][q]
  BY <1>1, LinkTail DEF Taken, Links
<1> HIDE DEF S
<1>4. ASSUME NEW r \in Node, NEW q \in Node
      PROVE  /\ r = q => S[r][q] = <<>>
             /\ \A i \in 1 .. Len(S[r][q]) : Honest(S[r][q][i], r, q, J, C)
  <2>1. CASE r = p /\ q = n
    <3>1. S[r][q] = Tail(net[p][n]) /\ r # q
      BY <1>1, <1>3, <2>1
    <3>2. ASSUME NEW i \in 1 .. Len(S[r][q])
          PROVE  Honest(S[r][q][i], p, n, J, C)
      <4>1. i + 1 \in 1 .. Len(net[p][n]) /\ S[r][q][i] = net[p][n][i + 1]
        BY <1>1, <3>1, LinkTail
      <4> QED BY <4>1 DEF Links
    <3> QED BY <2>1, <3>1, <3>2
  <2>2. CASE ~(r = p /\ q = n)
    BY <1>3, <2>2 DEF Links
  <2> QED BY <2>1, <2>2
<1> QED BY <1>1, <1>2, <1>3, <1>4 DEF Links, S

\* What was right for fewer members is right for more.
LEMMA MoreMembers ==
    ASSUME NEW J, NEW H, NEW C, J \subseteq H
    PROVE  /\ \A L : Links(L, J, C) => Links(L, H, C)
           /\ \A K, R, P : Tables(K, R, P, J) => Tables(K, R, P, H)
           /\ \A E, D, T : Ballots(E, D, T, J, C) => Ballots(E, D, T, H, C)
<1>1. \A m, p, n : Honest(m, p, n, J, C) => Honest(m, p, n, H, C)
  BY DEF Honest
<1>2. \A L : Links(L, J, C) => Links(L, H, C)
  BY <1>1 DEF Links
<1>3. \A K, R, P : Tables(K, R, P, J) => Tables(K, R, P, H)
  BY DEF Tables
<1>4. ASSUME NEW E, NEW D, NEW T, Ballots(E, D, T, J, C)
      PROVE  Ballots(E, D, T, H, C)
  <2>1. \A n \in Node : Ballot(E[n], n, H, C)
    BY <1>4 DEF Ballots, Ballot
  <2>2. D \in [Node -> (H \cap C) \cup {None}] /\ T \in [Node -> (H \cap C) \cup {None}]
    BY <1>4 DEF Ballots
  <2> QED BY <1>4, <2>1, <2>2 DEF Ballots
<1> QED BY <1>2, <1>3, <1>4

-----------------------------------------------------------------------------
(* Ballots *)

BallotsOk(J, C) == Ballots(election, leader, told, J, C)
BallotsStay(J, C) == Ballots(election', leader', told', J, C)

LEMMA ManyNat == Many \in Nat
BY NodeAssumption, FS_CardinalityType DEF Many

\* n's ballot is the only one that changes.
LEMMA CastKeeps ==
    ASSUME NEW J, NEW C, BallotsOk(J, C), NEW n \in Node,
           NEW e \in Election \cup {NoElection}, Ballot(e, n, J, C),
           NEW l \in (J \cap C) \cup {None}, NEW t \in (J \cap C) \cup {None},
           election' = [election EXCEPT ![n] = e],
           leader' = [leader EXCEPT ![n] = l],
           told' = [told EXCEPT ![n] = t]
    PROVE  BallotsStay(J, C)
<1> USE DEF BallotsOk, BallotsStay, Ballots
<1>1. election' \in [Node -> Election \cup {NoElection}]
  OBVIOUS
<1>2. leader' \in [Node -> (J \cap C) \cup {None}]
  OBVIOUS
<1>3. told' \in [Node -> (J \cap C) \cup {None}]
  OBVIOUS
<1>4. ASSUME NEW m \in Node
      PROVE  Ballot(election'[m], m, J, C)
  <2>1. CASE m = n
    BY <2>1
  <2>2. CASE m # n
    BY <2>2
  <2> QED BY <2>1, <2>2
<1> QED BY <1>1, <1>2, <1>3, <1>4

LEMMA FinishKeeps ==
    ASSUME NEW J, NEW C, BallotsOk(J, C), NEW n \in Node, NEW w \in J \cap C, Finish(n, w)
    PROVE  BallotsStay(J, C)
BY CastKeeps DEF Ballot, Finish

LEMMA BallotUnchanged ==
    ASSUME NEW J, NEW C, BallotsOk(J, C), UNCHANGED ballot
    PROVE  BallotsStay(J, C)
BY DEF BallotsOk, BallotsStay, ballot

\* _start_election: only a member that contests stands.
LEMMA StartKeeps ==
    ASSUME NEW J \in SUBSET Node, own \subseteq J, BallotsOk(J, contest),
           NEW L, Links(L, J, contest),
           NEW n \in Node, NEW T \in SUBSET J, n \notin T, Start(n, T, L)
    PROVE  BallotsStay(J, contest) /\ Links(net', J, contest)
<1>1. CASE n \notin contest \cap own
  BY <1>1, BallotUnchanged DEF Start
<1>2. CASE n \in contest \cap own /\ T = {}
  BY <1>2, FinishKeeps DEF Start
<1>3. CASE n \in contest \cap own /\ T # {}
  <2> DEFINE e == [caw |-> n, father |-> None, erec |-> 0, lrec |-> 0]
  <2>1. e \in Election /\ Ballot(e, n, J, contest)
    BY <1>3, ManyNat DEF Election, Ballot
  <2>2. /\ election' = [election EXCEPT ![n] = e]
        /\ leader' = [leader EXCEPT ![n] = None]
        /\ told' = [told EXCEPT ![n] = told[n]]
        /\ net' = Send(L, n, T, Elect(n))
    BY <1>3 DEF Start, ballot, BallotsOk, Ballots
  <2>3. told[n] \in (J \cap contest) \cup {None}
    BY DEF BallotsOk, Ballots
  <2> HIDE DEF e
  <2>4. BallotsStay(J, contest)
    BY <2>1, <2>2, <2>3, CastKeeps
  <2>5. Elect(n) \in Message /\ \A p \in T : Honest(Elect(n), n, p, J, contest)
    BY <1>3, MessageKinds DEF Honest, Elect
  <2> QED BY <2>2, <2>4, <2>5, SendKeeps
<1> QED BY <1>1, <1>2, <1>3

\* _restart_election_if_needed: whose last neighbour went had an election open,
\* and has joined.
LEMMA RestartKeeps ==
    ASSUME NEW J \in SUBSET Node, own \subseteq J, BallotsOk(J, contest),
           NEW L, Links(L, J, contest),
           NEW n \in Node, NEW T \in SUBSET J, n \notin T, NEW K, Restart(n, T, K, L)
    PROVE  BallotsStay(J, contest) /\ Links(net', J, contest)
<1>1. CASE n \in contest /\ leader[n] \notin K \cup {None}
  BY <1>1, StartKeeps DEF Restart
<1>2. CASE /\ ~(n \in contest /\ leader[n] \notin K \cup {None})
           /\ n \in contest /\ Open(n) /\ T = {}
  <2>1. n \in J \cap contest
    BY <1>2 DEF Open, BallotsOk, Ballots, Ballot
  <2> QED BY <1>2, <2>1, FinishKeeps DEF Restart
<1>3. CASE /\ ~(n \in contest /\ leader[n] \notin K \cup {None})
           /\ ~(n \in contest /\ Open(n) /\ T = {})
  <2> DEFINE e == IF n \in contest /\ leader[n] # None THEN NoElection ELSE election[n]
  <2>1. e \in Election \cup {NoElection} /\ Ballot(e, n, J, contest)
    BY DEF BallotsOk, Ballots, Ballot
  <2>2. /\ election' = [election EXCEPT ![n] = e]
        /\ leader' = [leader EXCEPT ![n] = leader[n]]
        /\ told' = [told EXCEPT ![n] = told[n]]
        /\ net' = L
    BY <1>3 DEF Restart, BallotsOk, Ballots
  <2>3. {leader[n], told[n]} \subseteq (J \cap contest) \cup {None}
    BY DEF BallotsOk, Ballots
  <2> HIDE DEF e
  <2> QED BY <2>1, <2>2, <2>3, CastKeeps
<1> QED BY <1>1, <1>2, <1>3

-----------------------------------------------------------------------------
(* Who has joined *)

\* A budget that is charged stays a budget; nobody leaves unnoticed.
LEMMA Charged ==
    ASSUME Counts, NEW k \in Kinds, Charge(k)
    PROVE  /\ spent' \in [Kinds -> Nat]
           /\ spent'["leave"] = 0 => spent["leave"] = 0 /\ k # "leave"
<1>1. spent'["leave"] = IF k = "leave" THEN spent["leave"] + 1 ELSE spent["leave"]
  BY DEF Counts, Charge, Kinds
<1>2. spent' \in [Kinds -> Nat]
  BY DEF Counts, Charge
<1>3. spent["leave"] \in Nat
  BY DEF Counts, Kinds
<1> QED BY <1>1, <1>2, <1>3

LEMMA JoinedSome ==
    ASSUME Counts
    PROVE  Joined \in SUBSET Node /\ own \subseteq Joined
BY DEF Counts, Joined

\* Who has joined stays, who left did, and nobody comes, whatever happens.
LEMMA JoinedGrows ==
    ASSUME Counts, [Next]_vars
    PROVE  /\ Counts' /\ contest' = contest /\ live' \subseteq live
           /\ Joined \subseteq Joined'
           /\ spent'["leave"] = 0 => spent["leave"] = 0
<1> USE DEF Kinds
<1> DEFINE Goal == /\ Counts' /\ contest' = contest /\ live' \subseteq live
                   /\ Joined \subseteq Joined'
                   /\ spent'["leave"] = 0 => spent["leave"] = 0
<1>1. ASSUME UNCHANGED <<live, contest, own, spent>>
      PROVE  Goal
  BY <1>1 DEF Counts, Joined
<1>2. ASSUME NEW n \in Node, JoinGroup(n)
      PROVE  Goal
  BY <1>2, Charged DEF JoinGroup, Counts, Joined
<1>3. ASSUME NEW n \in Node, LeaveGroup(n)
      PROVE  Goal
  BY <1>3, Charged DEF LeaveGroup, Counts, Joined
<1>4. ASSUME NEW n \in Node, Depart(n)
      PROVE  Goal
  BY <1>4, Charged DEF Depart, Counts, Joined
<1>5. ASSUME NEW n \in Node, Maintain(n)
      PROVE  Goal
  <2>1. UNCHANGED <<live, contest, own>> /\ (UNCHANGED spent \/ Charge("early"))
    BY <1>5 DEF Maintain
  <2> QED BY <1>1, <2>1, Charged DEF Counts, Joined
<1>6. ASSUME NEW n \in Node, NEW p \in Node,
             Discover(n, p) \/ Receive(n, p) \/ Remove(n, p)
      PROVE  UNCHANGED <<live, contest, own, spent>>
  BY <1>6 DEF Discover, Receive, Remove, Take, RecvHello, RecvJoin, RecvLeave,
              RecvIgnored, RecvElect, RecvLeader
<1>7. CASE UNCHANGED vars
  BY <1>1, <1>7 DEF vars
<1> QED BY <1>1, <1>2, <1>3, <1>4, <1>5, <1>6, <1>7 DEF Next

-----------------------------------------------------------------------------
(* Steps *)

TablesOk(J) == Tables(known, ready, peers, J)
TablesStay(J) == Tables(known', ready', peers', J)

\* What is right for those who have joined before the step.
Keeps(J) ==
    /\ TablesStay(J)
    /\ BallotsStay(J, contest)
    /\ Links(net', J, contest)

\* The invariant, with a name for those who have joined.
Fine(J) ==
    /\ J \in SUBSET Node /\ own \subseteq J
    /\ TablesOk(J)
    /\ BallotsOk(J, contest)
    /\ Links(net, J, contest)

LEMMA TablesUnchanged ==
    ASSUME NEW J, TablesOk(J), UNCHANGED <<table, peers>>
    PROVE  TablesStay(J)
BY DEF TablesOk, TablesStay, table

\* A HELLO that lists the group comes from a member.
LEMMA HelloHonest ==
    ASSUME NEW J, own \subseteq J, NEW n \in Node, NEW p \in Node
    PROVE  Hello(n \in own) \in Message /\ Honest(Hello(n \in own), n, p, J, contest)
<1>1. \A b \in BOOLEAN : Hello(b).type = "HELLO" /\ Hello(b).in = b
  BY DEF Hello
<1>2. (n \in own) \in BOOLEAN
  OBVIOUS
<1>3. Hello(n \in own).type = "HELLO" /\ Hello(n \in own).in = (n \in own)
  BY <1>1, <1>2, Zenon
<1>4. Hello(n \in own) \in Message
  BY <1>2, MessageKinds, Zenon
<1>5. Hello(n \in own).in => n \in J
  BY <1>3, Zenon
<1> HIDE DEF Hello
<1> QED BY <1>3, <1>4, <1>5 DEF Honest

LEMMA DiscoverKeeps ==
    ASSUME NEW J, Fine(J), NEW n \in Node, NEW p \in Node, Discover(n, p)
    PROVE  Keeps(J)
<1>1. TablesStay(J)
  BY DEF Discover, Fine, TablesOk, TablesStay, Tables
<1>2. BallotsStay(J, contest)
  BY BallotUnchanged DEF Discover, Fine
<1>3. Honest(Hello(n \in own), n, p, J, contest) /\ Hello(n \in own) \in Message
  BY HelloHonest DEF Fine
<1>4. Links(net', J, contest)
  BY <1>3, SendKeeps DEF Discover, Fine
<1> QED BY <1>1, <1>2, <1>4 DEF Keeps

\* HELLO: the sender is a peer of the group only if it has joined.
LEMMA HelloKeeps ==
    ASSUME NEW J, Fine(J), NEW n \in Node, NEW p \in Node, RecvHello(n, p)
    PROVE  Keeps(J)
<1> DEFINE m == Head(net[p][n])
           answered == IF p \in known[n] THEN Taken(n, p)
                       ELSE Send(Taken(n, p), n, {p}, Hello(n \in own))
           grown == peers[n] \cup {p}
<1>1. /\ Links(Taken(n, p), J, contest) /\ Honest(m, p, n, J, contest) /\ p # n
      /\ m.type = "HELLO"
  BY TakenKeeps DEF RecvHello, Take, Fine
<1>2. CASE p \in ready[n]
  BY <1>1, <1>2, TablesUnchanged, BallotUnchanged DEF RecvHello, Fine, Keeps
<1>3. CASE p \notin ready[n]
  <2>1. Honest(Hello(n \in own), n, p, J, contest) /\ Hello(n \in own) \in Message
    BY HelloHonest DEF Fine
  <2>2. Links(answered, J, contest)
    BY <1>1, <2>1, SendKeeps
  <2>3. /\ known' = [known EXCEPT ![n] = @ \cup {p}]
        /\ ready' = [ready EXCEPT ![n] = @ \cup {p}]
        /\ \/ m.in /\ peers' = [peers EXCEPT ![n] = grown] /\ Start(n, grown, answered)
           \/ net' = answered /\ UNCHANGED <<peers, ballot>>
    BY <1>3 DEF RecvHello
  <2>4. m.in => p \in J
    BY <1>1 DEF Honest
  <2>5. TablesStay(J)
    BY <1>1, <2>3, <2>4 DEF Fine, TablesOk, TablesStay, Tables
  <2> HIDE DEF answered
  <2>6. CASE net' = answered /\ UNCHANGED <<peers, ballot>>
    BY <2>2, <2>5, <2>6, BallotUnchanged DEF Fine, Keeps
  <2>7. CASE m.in /\ Start(n, grown, answered)
    <3>1. grown \in SUBSET J /\ n \notin grown
      BY <1>1, <2>4, <2>7 DEF Fine, TablesOk, Tables
    <3> QED BY <2>2, <2>5, <2>7, <3>1, StartKeeps DEF Fine, Keeps
  <2> QED BY <2>3, <2>6, <2>7
<1> QED BY <1>2, <1>3

LEMMA DepartKeeps ==
    ASSUME NEW J, Fine(J), NEW n \in Node, Depart(n)
    PROVE  Keeps(J)
<1>1. net' \in [Node -> [Node -> Seq(Message)]]
  BY EmptySeq DEF Depart, Fine, Links
<1>2. \A p, q \in Node : net'[p][q] = IF q = n THEN <<>> ELSE net[p][q]
  BY DEF Depart, Fine, Links
<1>3. \A p, q \in Node : \A i \in 1 .. Len(net'[p][q]) :
        Honest(net'[p][q][i], p, q, J, contest)
  <2>1. Len(<<>>) = 0
    OBVIOUS
  <2> QED BY <1>2, <2>1 DEF Fine, Links
<1>4. Links(net', J, contest)
  BY <1>1, <1>2, <1>3 DEF Fine, Links
<1> QED BY <1>4, TablesUnchanged, BallotUnchanged DEF Depart, Fine, Keeps

LEMMA RemoveKeeps ==
    ASSUME NEW J, Fine(J), NEW n \in Node, NEW p \in Node, Remove(n, p)
    PROVE  Keeps(J)
<1>1. TablesStay(J)
  BY DEF Remove, Fine, TablesOk, TablesStay, Tables
<1>2. peers[n] \ {p} \in SUBSET J /\ n \notin peers[n] \ {p}
  BY DEF Fine, TablesOk, Tables
<1>3. CASE p \in peers[n]
  BY <1>1, <1>2, <1>3, RestartKeeps DEF Remove, Fine, Keeps
<1>4. CASE p \notin peers[n]
  BY <1>1, <1>4, BallotUnchanged DEF Remove, Fine, Keeps
<1> QED BY <1>3, <1>4

\* A node that joins says so: it has joined by then.
LEMMA JoinKeeps ==
    ASSUME NEW J, Fine(J), NEW n \in Node, JoinGroup(n)
    PROVE  Keeps(J \cup {n})
<1> DEFINE H == J \cup {n}
<1>1. TablesOk(H) /\ BallotsOk(H, contest) /\ Links(net, H, contest)
  BY MoreMembers DEF Fine, TablesOk, BallotsOk
<1>2. Join \in Message /\ \A p \in known[n] : Honest(Join, n, p, H, contest)
  BY MessageKinds DEF Honest, Join
<1>3. known[n] \in SUBSET Node /\ n \notin known[n]
  BY <1>1 DEF TablesOk, Tables
<1> HIDE DEF H
<1>4. Links(net', H, contest)
  BY <1>1, <1>2, <1>3, SendKeeps DEF JoinGroup
<1>5. Keeps(H)
  BY <1>1, <1>4, TablesUnchanged, BallotUnchanged DEF JoinGroup, Keeps
<1> QED BY <1>5 DEF H

LEMMA LeaveKeeps ==
    ASSUME NEW J, Fine(J), NEW n \in Node, LeaveGroup(n)
    PROVE  Keeps(J)
<1>1. Leave \in Message /\ \A p \in known[n] : Honest(Leave, n, p, J, contest)
  BY MessageKinds DEF Honest, Leave
<1>2. known[n] \in SUBSET Node /\ n \notin known[n]
  BY DEF Fine, TablesOk, Tables
<1>3. Links(net', J, contest)
  BY <1>1, <1>2, SendKeeps DEF Fine, LeaveGroup
<1> QED BY <1>3, TablesUnchanged, BallotUnchanged DEF LeaveGroup, Fine, Keeps

LEMMA RecvJoinKeeps ==
    ASSUME NEW J, Fine(J), NEW n \in Node, NEW p \in Node, RecvJoin(n, p)
    PROVE  Keeps(J)
<1>1. Links(Taken(n, p), J, contest) /\ p \in J /\ p # n
  BY TakenKeeps DEF RecvJoin, Take, Fine, Honest
<1>2. peers[n] \cup {p} \in SUBSET J /\ n \notin peers[n] \cup {p}
  BY <1>1 DEF Fine, TablesOk, Tables
<1>3. TablesStay(J)
  BY <1>1 DEF RecvJoin, table, Fine, TablesOk, TablesStay, Tables
<1> QED BY <1>1, <1>2, <1>3, StartKeeps DEF RecvJoin, Fine, Keeps

LEMMA RecvLeaveKeeps ==
    ASSUME NEW J, Fine(J), NEW n \in Node, NEW p \in Node, RecvLeave(n, p)
    PROVE  Keeps(J)
<1>1. Links(Taken(n, p), J, contest)
  BY TakenKeeps DEF RecvLeave, Take, Fine
<1>2. peers[n] \ {p} \in SUBSET J /\ n \notin peers[n] \ {p}
  BY DEF Fine, TablesOk, Tables
<1>3. TablesStay(J)
  BY DEF RecvLeave, table, Fine, TablesOk, TablesStay, Tables
<1> QED BY <1>1, <1>2, <1>3, RestartKeeps DEF RecvLeave, Fine, Keeps

LEMMA IgnoredKeeps ==
    ASSUME NEW J, Fine(J), NEW n \in Node, NEW p \in Node, RecvIgnored(n, p)
    PROVE  Keeps(J)
<1>1. Links(Taken(n, p), J, contest)
  BY TakenKeeps DEF RecvIgnored, Take, Fine
<1> QED BY <1>1, TablesUnchanged, BallotUnchanged DEF RecvIgnored, Fine, Keeps

\* What n may say of a wave for c: to members, if c is a candidate.
LEMMA WaveHonest ==
    ASSUME NEW J, NEW C, NEW n \in J, NEW c \in Node, c \in J \cap C
    PROVE  /\ Elect(c) \in Message /\ Leader(c) \in Message
           /\ \A q \in J : Honest(Elect(c), n, q, J, C) /\ Honest(Leader(c), n, q, J, C)
BY MessageKinds DEF Honest, Elect, Leader

\* _handle_elect: the wave that is joined, counted, passed on or echoed is a
\* candidate's, and the father is the member it came from.
LEMMA ElectKeeps ==
    ASSUME NEW J, Fine(J), NEW n \in Node, NEW p \in Node, RecvElect(n, p)
    PROVE  Keeps(J)
<1> DEFINE c == Head(net[p][n]).id
           joins == Superior(n, c)
           base == IF joins THEN [caw |-> c, father |-> p, erec |-> 0, lrec |-> 0]
                   ELSE election[n]
           e == [base EXCEPT !.erec = More(@)]
           passed == IF joins THEN Send(Taken(n, p), n, peers[n] \ {p}, Elect(c))
                     ELSE Taken(n, p)
           echoed == IF e.caw = n THEN Send(passed, n, peers[n], Leader(n))
                     ELSE IF e.father \in known[n]
                     THEN Send(passed, n, {e.father}, Elect(c))
                     ELSE passed
<1>1. /\ Links(Taken(n, p), J, contest)
      /\ p \in J /\ n \in J /\ p # n
      /\ c \in J \cap contest /\ c \in Node
  BY TakenKeeps DEF RecvElect, Take, Fine, Honest
<1>2. \/ c # base.caw /\ net' = Taken(n, p) /\ UNCHANGED election
      \/ /\ c = base.caw
         /\ election' = [election EXCEPT ![n] = e]
         /\ net' = passed \/ net' = echoed
  BY DEF RecvElect
<1>3. UNCHANGED <<table, peers, leader, told>>
  BY DEF RecvElect
<1>4. TablesStay(J)
  BY <1>3, TablesUnchanged DEF Fine
<1>5. CASE c # base.caw /\ net' = Taken(n, p) /\ UNCHANGED election
  BY <1>1, <1>3, <1>4, <1>5, BallotUnchanged DEF ballot, Fine, Keeps
<1>6. CASE /\ c = base.caw
           /\ election' = [election EXCEPT ![n] = e]
           /\ net' = passed \/ net' = echoed
  <2>1. base \in Election /\ base.caw = c /\ base.father \in (J \ {n}) \cup {None}
    <3>1. CASE joins
      BY <1>1, <3>1, ManyNat DEF Election, Fine
    <3>2. CASE ~joins
      BY <1>6, <3>2 DEF Superior, Open, Fine, BallotsOk, Ballots, Ballot
    <3> QED BY <3>1, <3>2
  <2> HIDE DEF base
  <2>2. More(base.erec) \in 0 .. Many
    BY <2>1, ManyNat DEF More, Election
  <2>3. e \in Election /\ e.caw = c /\ e.father \in (J \ {n}) \cup {None}
    BY <2>1, <2>2 DEF Election
  <2>4. Ballot(e, n, J, contest)
    BY <1>1, <2>3 DEF Ballot
  <2> HIDE DEF e
  <2>5. /\ leader' = [leader EXCEPT ![n] = leader[n]]
        /\ told' = [told EXCEPT ![n] = told[n]]
        /\ {leader[n], told[n]} \subseteq (J \cap contest) \cup {None}
    BY <1>3 DEF Fine, BallotsOk, Ballots
  <2>6. BallotsStay(J, contest)
    BY <1>6, <2>3, <2>4, <2>5, CastKeeps DEF Fine
  <2>7. peers[n] \in SUBSET J /\ n \notin peers[n]
    BY DEF Fine, TablesOk, Tables
  <2>8. Links(passed, J, contest)
    BY <1>1, <2>7, WaveHonest, SendKeeps DEF Fine
  <2> HIDE DEF passed
  <2>9. Links(echoed, J, contest)
    <3>1. e.father \in known[n] => e.father \in J /\ e.father # n
      BY <2>3, NoneAssumption DEF Fine, TablesOk, Tables
    <3>2. e.caw = n => n \in J \cap contest
      BY <1>1, <2>3
    <3>3. CASE e.caw = n
      BY <1>1, <2>7, <2>8, <3>2, <3>3, WaveHonest, SendKeeps DEF Fine
    <3>4. CASE e.caw # n /\ e.father \in known[n]
      <4>1. {e.father} \in SUBSET Node /\ n \notin {e.father}
        BY <3>1, <3>4 DEF Fine
      <4>2. Elect(c) \in Message /\ \A q \in {e.father} : Honest(Elect(c), n, q, J, contest)
        BY <1>1, <3>1, <3>4, WaveHonest
      <4> QED BY <2>8, <3>4, <4>1, <4>2, SendKeeps
    <3>5. CASE e.caw # n /\ e.father \notin known[n]
      BY <2>8, <3>5
    <3> QED BY <3>3, <3>4, <3>5
  <2> QED BY <1>4, <1>6, <2>6, <2>8, <2>9 DEF Keeps
<1> QED BY <1>2, <1>5, <1>6

\* _handle_leader: the winner that is relayed and announced is a candidate.
LEMMA LeaderKeeps ==
    ASSUME NEW J, Fine(J), NEW n \in Node, NEW p \in Node, RecvLeader(n, p)
    PROVE  Keeps(J)
<1> DEFINE w == Head(net[p][n]).id
           e == [election[n] EXCEPT !.lrec = More(@)]
<1>1. /\ Links(Taken(n, p), J, contest)
      /\ n \in J /\ w \in J \cap contest /\ w \in Node
  BY TakenKeeps DEF RecvLeader, Take, Fine, Honest
<1>2. TablesStay(J)
  BY TablesUnchanged DEF RecvLeader, Fine
<1>3. CASE ~Open(n)
  BY <1>1, <1>2, <1>3, BallotUnchanged DEF RecvLeader, Fine, Keeps
<1>4. CASE Open(n)
  <2>1. peers[n] \in SUBSET J /\ n \notin peers[n]
    BY DEF Fine, TablesOk, Tables
  <2>2. Links(Send(Taken(n, p), n, peers[n], Leader(w)), J, contest)
    BY <1>1, <2>1, WaveHonest, SendKeeps DEF Fine
  <2>3. Links(net', J, contest)
    BY <1>1, <1>4, <2>2 DEF RecvLeader
  <2>4. Finish(n, w) \/ (election' = [election EXCEPT ![n] = e] /\ UNCHANGED <<leader, told>>)
    BY <1>4 DEF RecvLeader
  <2>5. CASE Finish(n, w)
    BY <1>1, <1>2, <2>3, <2>5, FinishKeeps DEF Fine, Keeps
  <2>6. CASE election' = [election EXCEPT ![n] = e] /\ UNCHANGED <<leader, told>>
    <3>1. election[n] \in Election /\ Ballot(election[n], n, J, contest)
      BY <1>4 DEF Open, Fine, BallotsOk, Ballots
    <3>2. More(election[n].lrec) \in 0 .. Many
      BY <3>1, ManyNat DEF More, Election
    <3>3. e \in Election /\ e.caw = election[n].caw /\ e.father = election[n].father
      BY <3>1, <3>2 DEF Election
    <3>4. Ballot(e, n, J, contest)
      BY <1>4, <3>1, <3>3 DEF Ballot, Open
    <3>5. BallotsOk(J, contest) /\ election' = [election EXCEPT ![n] = e]
      BY <2>6 DEF Fine
    <3> HIDE DEF e
    <3>6. /\ leader' = [leader EXCEPT ![n] = leader[n]]
          /\ told' = [told EXCEPT ![n] = told[n]]
          /\ {leader[n], told[n]} \subseteq (J \cap contest) \cup {None}
      BY <2>6 DEF Fine, BallotsOk, Ballots
    <3>7. BallotsStay(J, contest)
      BY <3>3, <3>4, <3>6, <3>5, CastKeeps
    <3> QED BY <1>2, <2>3, <3>7 DEF Keeps
  <2> QED BY <2>4, <2>5, <2>6
<1> QED BY <1>3, <1>4

\* _maintain_elections: what is sent again names a candidate.
LEMMA MaintainKeeps ==
    ASSUME NEW J, Fine(J), NEW n \in Node, Maintain(n)
    PROVE  Keeps(J)
<1>1. n \in J \cap contest
  BY DEF Maintain, Fine
<1>2. TablesStay(J)
  BY TablesUnchanged DEF Maintain, table, Fine
<1>3. CASE peers[n] = {}
  BY <1>1, <1>2, <1>3, FinishKeeps DEF Maintain, Fine, Keeps
<1>4. CASE peers[n] # {}
  <2> DEFINE e == election[n]
             m == IF Won(n) THEN Leader(n) ELSE Elect(e.caw)
             T == IF e.caw = n THEN peers[n] ELSE peers[n] \ {e.father}
  <2>1. net' = Send(net, n, T, m) /\ UNCHANGED ballot
    BY <1>4 DEF Maintain
  <2>2. e \in Election /\ e.caw \in J \cap contest /\ e.caw \in Node
    BY DEF Maintain, Open, Fine, BallotsOk, Ballots, Ballot, Election
  <2>3. T \in SUBSET J /\ n \notin T
    BY DEF Fine, TablesOk, Tables
  <2>4. m \in Message /\ \A q \in J : Honest(m, n, q, J, contest)
    BY <1>1, <2>2, WaveHonest
  <2> HIDE DEF T, m
  <2>5. Links(net', J, contest)
    BY <2>1, <2>3, <2>4, SendKeeps DEF Fine
  <2> QED BY <1>2, <2>1, <2>5, BallotUnchanged DEF Fine, Keeps
<1> QED BY <1>3, <1>4

-----------------------------------------------------------------------------
(* The theorems *)

LEMMA InitInv ==
    ASSUME Init
    PROVE  Inv
<1>1. Counts /\ own \subseteq Joined
  BY DEF Init, Counts, Joined
<1>2. Tables(known, ready, peers, Joined)
  BY DEF Init, Tables
<1>3. Ballots(election, leader, told, Joined, contest)
  BY DEF Init, Ballots, Ballot
<1>4. /\ net \in [Node -> [Node -> Seq(Message)]]
      /\ \A p, n \in Node : net[p][n] = <<>>
  BY EmptySeq DEF Init
<1>5. Links(net, Joined, contest)
  <2>1. Len(<<>>) = 0
    OBVIOUS
  <2> QED BY <1>4, <2>1 DEF Links
<1> QED BY <1>1, <1>2, <1>3, <1>5 DEF Inv

LEMMA InvFine ==
    ASSUME Inv
    PROVE  Fine(Joined)
BY JoinedSome DEF Inv, Fine, TablesOk, BallotsOk

\* What a step keeps right for those who had joined, or have now, is the
\* invariant after it.
LEMMA KeepsInv ==
    ASSUME Counts', contest' = contest, NEW J, J \subseteq Joined', Keeps(J)
    PROVE  Inv'
<1>1. PICK H : H = Joined'
  OBVIOUS
<1>2. /\ Tables(known', ready', peers', H)
      /\ Ballots(election', leader', told', H, contest)
      /\ Links(net', H, contest)
  BY <1>1, MoreMembers DEF Keeps, TablesStay, BallotsStay
<1> QED BY <1>1, <1>2 DEF Inv

LEMMA InvStep ==
    ASSUME Inv, [Next]_vars
    PROVE  Inv'
<1>1. PICK J : J = Joined
  OBVIOUS
<1>2. Fine(J)
  BY <1>1, InvFine
<1>3. Counts' /\ contest' = contest /\ J \subseteq Joined'
  BY <1>1, JoinedGrows DEF Inv
<1>4. ASSUME Keeps(J)
      PROVE  Inv'
  BY <1>3, <1>4, KeepsInv
<1>5. ASSUME NEW n \in Node, JoinGroup(n)
      PROVE  Inv'
  <2>1. J \cup {n} \subseteq Joined'
    BY <1>3, <1>5 DEF JoinGroup, Joined
  <2> QED BY <1>2, <1>3, <1>5, <2>1, JoinKeeps, KeepsInv
<1>6. ASSUME NEW n \in Node, LeaveGroup(n) \/ Depart(n) \/ Maintain(n)
      PROVE  Inv'
  BY <1>2, <1>4, <1>6, LeaveKeeps, DepartKeeps, MaintainKeeps
<1>7. ASSUME NEW n \in Node, NEW p \in Node, Discover(n, p) \/ Remove(n, p)
      PROVE  Inv'
  BY <1>2, <1>4, <1>7, DiscoverKeeps, RemoveKeeps
<1>8. ASSUME NEW n \in Node, NEW p \in Node, Receive(n, p)
      PROVE  Inv'
  BY <1>2, <1>4, <1>8, HelloKeeps, RecvJoinKeeps, RecvLeaveKeeps, IgnoredKeeps,
     ElectKeeps, LeaderKeeps DEF Receive
<1>9. CASE UNCHANGED vars
  <2>1. Keeps(J)
    BY <1>2, <1>9, TablesUnchanged, BallotUnchanged DEF vars, table, ballot, Fine, Keeps
  <2> QED BY <1>4, <2>1
<1> QED BY <1>5, <1>6, <1>7, <1>8, <1>9 DEF Next

LEMMA InvHolds == Spec => []Inv
<1>1. Init => Inv
  BY InitInv
<1>2. Inv /\ [Next]_vars => Inv'
  BY InvStep
<1> QED BY <1>1, <1>2, PTL DEF Spec

\* Every variable has its type, who is in the group at a node is ready there,
\* who is ready is known, and nobody is known to itself.
THEOREM TypesHold == Spec => []TypeOK
<1>1. Inv => TypeOK
  <2> SUFFICES ASSUME Inv PROVE TypeOK
    OBVIOUS
  <2>1. \A n \in Node : peers[n] \subseteq ready[n] /\ ready[n] \subseteq known[n] \ {n}
    BY DEF Inv, Tables
  <2>2. leader \in [Node -> Node \cup {None}] /\ told \in [Node -> Node \cup {None}]
    BY DEF Inv, Ballots, Counts
  <2> QED BY <2>1, <2>2 DEF Inv, TypeOK, Counts, Tables, Ballots, Links
<1> QED BY <1>1, InvHolds, PTL

\* _start_election lets nobody stand who has not joined, and no wave, resend or
\* closing of an election makes up another leader: whom an application is told
\* of contests the group and, if nobody left, is a member.
THEOREM NoPhantomHolds == Spec => []NoPhantom
<1>1. Inv => NoPhantom
  BY DEF Inv, Ballots, NoPhantom
<1> QED BY <1>1, InvHolds, PTL

-----------------------------------------------------------------------------
(* Queues: what a message appended or taken changes of what a queue says *)

LEMMA MessageSays ==
    /\ \A b \in BOOLEAN : Hello(b).type = "HELLO" /\ (Announces(Hello(b)) <=> b) /\ ~Wave(Hello(b))
    /\ Join.type = "JOIN" /\ Announces(Join) /\ ~Wave(Join)
    /\ Leave.type = "LEAVE" /\ ~Announces(Leave) /\ ~Wave(Leave)
<1>1. ASSUME NEW b \in BOOLEAN
      PROVE  Hello(b).type = "HELLO" /\ (Announces(Hello(b)) <=> b) /\ ~Wave(Hello(b))
  <2>1. Hello(b).type = "HELLO" /\ Hello(b).in = b
    BY DEF Hello
  <2>2. Announces(Hello(b)) <=> b
    BY <2>1, Zenon DEF Announces
  <2> QED BY <2>1, <2>2 DEF Wave
<1> QED BY <1>1 DEF Join, Leave, Announces, Wave

\* Votes and news: the messages of the waves.
Waves == {m \in Message : Wave(m)}

LEMMA WaveSays ==
    /\ \A m : Wave(m) => ~Announces(m) /\ m.type # "HELLO" /\ m.type # "LEAVE"
    /\ \A c \in Node : /\ Elect(c) \in Waves /\ Leader(c) \in Waves
                       /\ Elect(c).type = "ELECT" /\ Leader(c).type = "LEADER"
BY MessageKinds DEF Wave, Waves, Announces, Elect, Leader

\* r is q with messages of S behind it.
Grows(q, r, S) ==
    /\ r \in Seq(Message) /\ Len(q) <= Len(r)
    /\ \A i \in 1 .. Len(r) : IF i <= Len(q) THEN r[i] = q[i] ELSE r[i] \in S

LEMMA GrowsNot ==
    ASSUME NEW q \in Seq(Message), NEW S
    PROVE  Grows(q, q, S)
<1>1. Len(q) \in Nat
  OBVIOUS
<1> QED BY <1>1 DEF Grows

LEMMA GrowsMore ==
    ASSUME NEW q \in Seq(Message), NEW r, NEW S, Grows(q, r, S), NEW m \in S \cap Message
    PROVE  Grows(q, Append(r, m), S)
<1>1. r \in Seq(Message) /\ Len(q) \in Nat /\ Len(r) \in Nat
  BY DEF Grows
<1>2. /\ Append(r, m) \in Seq(Message) /\ Len(Append(r, m)) = Len(r) + 1
      /\ \A i \in 1 .. Len(r) : Append(r, m)[i] = r[i]
      /\ Append(r, m)[Len(r) + 1] = m
  BY <1>1, AppendProperties
<1>3. ASSUME NEW i \in 1 .. Len(Append(r, m))
      PROVE  IF i <= Len(q) THEN Append(r, m)[i] = q[i] ELSE Append(r, m)[i] \in S
  <2>1. CASE i \in 1 .. Len(r)
    BY <1>2, <2>1 DEF Grows
  <2>2. CASE i = Len(r) + 1
    BY <1>1, <1>2, <2>2 DEF Grows
  <2> QED BY <1>1, <1>2, <2>1, <2>2
<1> QED BY <1>1, <1>2, <1>3 DEF Grows

\* Waves behind a queue change none of what it says of meeting and joining.
LEMMA GrowsSays ==
    ASSUME NEW q \in Seq(Message), NEW r, NEW S \in SUBSET Waves, Grows(q, r, S)
    PROVE  /\ Ann(r) <=> Ann(q)
           /\ Asks(q) => Asks(r)
           /\ NoHello(q) => NoHello(r)
           /\ Leads(q) => Leads(r)
<1>1. /\ r \in Seq(Message) /\ Len(q) \in Nat /\ Len(r) \in Nat /\ Len(q) <= Len(r)
      /\ \A i \in 1 .. Len(q) : i \in 1 .. Len(r) /\ r[i] = q[i]
      /\ \A i \in 1 .. Len(r) : i \in 1 .. Len(q) \/ (i > Len(q) /\ r[i] \in S)
  BY DEF Grows
<1>2. \A m \in S : ~Announces(m) /\ m.type # "HELLO"
  BY WaveSays DEF Waves
<1>3. Ann(r) <=> Ann(q)
  BY <1>1, <1>2 DEF Ann
<1>4. Asks(q) => Asks(r)
  BY <1>1 DEF Asks
<1>5. NoHello(q) => NoHello(r)
  BY <1>1, <1>2 DEF NoHello
<1>6. Leads(q) => Leads(r)
  BY <1>1, <1>2 DEF Leads
<1> QED BY <1>3, <1>4, <1>5, <1>6

LEMMA AppendSays ==
    ASSUME NEW q \in Seq(Message), NEW m \in Message
    PROVE  /\ Ann(Append(q, m)) <=> Ann(q) \/ Announces(m)
           /\ Asks(q) => Asks(Append(q, m))
           /\ NoHello(q) /\ m.type # "HELLO" => NoHello(Append(q, m))
           /\ Leads(q) /\ m.type # "HELLO" => Leads(Append(q, m))
           /\ q = <<>> /\ m.type = "HELLO" => Leads(Append(q, m))
           /\ m.type = "ELECT" => Asks(Append(q, m))
<1> DEFINE r == Append(q, m)
<1>1. /\ Len(q) \in Nat /\ Len(r) = Len(q) + 1
      /\ \A i \in 1 .. Len(q) : i \in 1 .. Len(r) /\ r[i] = q[i]
      /\ \A i \in 1 .. Len(r) : i \in 1 .. Len(q) \/ i = Len(q) + 1
      /\ Len(q) + 1 \in 1 .. Len(r) /\ r[Len(q) + 1] = m
      /\ q = <<>> => Len(q) = 0
  BY AppendProperties
<1> HIDE DEF r
<1>2. Ann(r) <=> Ann(q) \/ Announces(m)
  BY <1>1 DEF Ann
<1>3. Asks(q) \/ m.type = "ELECT" => Asks(r)
  BY <1>1 DEF Asks
<1>4. NoHello(q) /\ m.type # "HELLO" => NoHello(r)
  BY <1>1 DEF NoHello
<1>5. Leads(q) /\ m.type # "HELLO" => Leads(r)
  BY <1>1 DEF Leads
<1>6. q = <<>> /\ m.type = "HELLO" => Leads(r)
  BY <1>1 DEF Leads
<1> QED BY <1>2, <1>3, <1>4, <1>5, <1>6 DEF r

LEMMA TailSays ==
    ASSUME NEW q \in Seq(Message), q # <<>>
    PROVE  /\ Ann(q) <=> Announces(Head(q)) \/ Ann(Tail(q))
           /\ Asks(q) <=> Head(q).type = "ELECT" \/ Asks(Tail(q))
           /\ NoHello(q) => Head(q).type # "HELLO" /\ NoHello(Tail(q))
           /\ Leads(q) => Head(q).type = "HELLO" /\ NoHello(Tail(q))
<1> DEFINE t == Tail(q)
           h == Head(q)
<1>1. /\ Len(q) \in Nat /\ Len(q) > 0 /\ Len(t) = Len(q) - 1
      /\ h = q[1] /\ 1 \in 1 .. Len(q)
      /\ \A i \in 1 .. Len(t) : i + 1 \in 1 .. Len(q) /\ i + 1 # 1 /\ t[i] = q[i + 1]
      /\ \A i \in 1 .. Len(q) : i = 1 \/ (i - 1 \in 1 .. Len(t) /\ t[i - 1] = q[i])
  BY HeadTailProperties
<1> HIDE DEF t, h
<1>2. Ann(q) <=> Announces(h) \/ Ann(t)
  BY <1>1 DEF Ann
<1>3. Asks(q) <=> h.type = "ELECT" \/ Asks(t)
  BY <1>1 DEF Asks
<1>4. NoHello(q) => h.type # "HELLO" /\ NoHello(t)
  BY <1>1 DEF NoHello
<1>5. Leads(q) => h.type = "HELLO" /\ NoHello(t)
  BY <1>1 DEF Leads, NoHello
<1> QED BY <1>2, <1>3, <1>4, <1>5 DEF t, h

-----------------------------------------------------------------------------
(* What a node sends, and whom an election wakes *)

Matrix == [Node -> [Node -> Seq(Message)]]

\* M is L with messages of S behind what n has on its way to T.
Spreads(L, M, n, T, S) ==
    \A p, q \in Node : IF p = n /\ q \in T THEN Grows(L[p][q], M[p][q], S)
                       ELSE M[p][q] = L[p][q]

LEMMA SpreadsNot ==
    ASSUME NEW L \in Matrix, NEW n, NEW T, NEW S
    PROVE  Spreads(L, L, n, T, S)
BY GrowsNot DEF Spreads, Matrix

LEMMA SendSays ==
    ASSUME NEW L \in Matrix, NEW n \in Node, NEW U, NEW m \in Message
    PROVE  /\ Send(L, n, U, m) \in Matrix
           /\ \A p, q \in Node :
                Send(L, n, U, m)[p][q] = IF p = n /\ q \in U \cap live
                                         THEN Append(L[p][q], m) ELSE L[p][q]
<1> DEFINE R == Send(L, n, U, m)
<1>1. /\ R \in [Node -> [Node -> Seq(Message) \cup {Append(L[n][q], m) : q \in Node}]]
      /\ \A p, q \in Node : R[p][q] = IF p = n /\ q \in U \cap live
                                      THEN Append(L[p][q], m) ELSE L[p][q]
  BY DEF Send, Matrix
<1>2. \A q \in Node : Append(L[n][q], m) \in Seq(Message)
  BY LinkAppend DEF Matrix
<1>3. Seq(Message) \cup {Append(L[n][q], m) : q \in Node} = Seq(Message)
  BY <1>2
<1> QED BY <1>1, <1>3 DEF Matrix

LEMMA SpreadsSend ==
    ASSUME NEW L \in Matrix, NEW M \in Matrix, NEW n \in Node, NEW T, NEW U, U \subseteq T,
           NEW S, Spreads(L, M, n, T, S), NEW m \in S, m \in Message
    PROVE  /\ Send(M, n, U, m) \in Matrix
           /\ Spreads(L, Send(M, n, U, m), n, T, S)
<1> DEFINE R == Send(M, n, U, m)
<1>1. /\ R \in Matrix
      /\ \A p, q \in Node : R[p][q] = IF p = n /\ q \in U \cap live
                                      THEN Append(M[p][q], m) ELSE M[p][q]
  BY SendSays
<1> HIDE DEF R
<1>2. ASSUME NEW p \in Node, NEW q \in Node
      PROVE  IF p = n /\ q \in T THEN Grows(L[p][q], R[p][q], S) ELSE R[p][q] = L[p][q]
  <2>1. CASE p = n /\ q \in T
    <3>1. Grows(L[p][q], M[p][q], S) /\ L[p][q] \in Seq(Message)
      BY <2>1 DEF Spreads, Matrix
    <3>2. Grows(L[p][q], Append(M[p][q], m), S)
      BY <3>1, GrowsMore
    <3> QED BY <1>1, <2>1, <3>1, <3>2
  <2>2. CASE ~(p = n /\ q \in T)
    BY <1>1, <2>2 DEF Spreads
  <2> QED BY <2>1, <2>2
<1> QED BY <1>1, <1>2 DEF Spreads, R

\* The same, from the links as they are.
LEMMA SendSpreads ==
    ASSUME NEW L \in Matrix, NEW n \in Node, NEW T, NEW S, NEW m \in S, m \in Message
    PROVE  /\ Send(L, n, T, m) \in Matrix
           /\ Spreads(L, Send(L, n, T, m), n, T, S)
           /\ \A q \in T \cap live \cap Node : Send(L, n, T, m)[n][q] = Append(L[n][q], m)
<1> DEFINE R == Send(L, n, T, m)
<1>1. Spreads(L, L, n, T, S)
  BY SpreadsNot
<1>2. R \in Matrix /\ Spreads(L, R, n, T, S)
  BY <1>1, SpreadsSend
<1>3. \A p, q \in Node : R[p][q] = IF p = n /\ q \in T \cap live
                                   THEN Append(L[p][q], m) ELSE L[p][q]
  BY SendSays
<1> HIDE DEF R
<1>4. \A q \in T \cap live \cap Node : R[n][q] = Append(L[n][q], m)
  BY <1>3
<1> QED BY <1>2, <1>4 DEF R

LEMMA TakenSays ==
    ASSUME net \in Matrix, NEW n \in Node, NEW p \in Node, net[p][n] # <<>>
    PROVE  /\ Taken(n, p) \in Matrix
           /\ \A r, q \in Node :
                Taken(n, p)[r][q] = IF r = p /\ q = n THEN Tail(net[p][n]) ELSE net[r][q]
BY LinkTail DEF Taken, Matrix

\* Nobody falls asleep, and who is led was told.
Waken ==
    /\ \A n \in Node : Awake(n) => Awake(n)'
    /\ \A n \in Node : leader'[n] # None => told'[n] # None

LEMMA WakenNot ==
    ASSUME \A n \in Node : leader[n] # None => told[n] # None, UNCHANGED ballot
    PROVE  Waken
BY DEF Waken, Awake, Open, ballot

LEMMA FinishWakes ==
    ASSUME NEW J, NEW C, BallotsOk(J, C), NEW n \in Node, NEW w \in Node, Finish(n, w),
           \A m \in Node : leader[m] # None => told[m] # None
    PROVE  Waken /\ Awake(n)'
BY NoneAssumption DEF Waken, Awake, Open, Finish, BallotsOk, Ballots

LEMMA StartWakes ==
    ASSUME NEW J, NEW C, BallotsOk(J, C), NEW L \in Matrix,
           NEW n \in Node, NEW T \in SUBSET Node, Start(n, T, L),
           \A m \in Node : leader[m] # None => told[m] # None
    PROVE  /\ net' \in Matrix
           /\ Spreads(L, net', n, T, Waves)
           /\ Waken
           /\ n \in contest \cap own =>
                Awake(n)' /\ \A q \in T \cap live : Asks(net'[n][q])
<1>1. CASE n \notin contest \cap own
  BY <1>1, WakenNot, SpreadsNot DEF Start
<1>2. CASE n \in contest \cap own /\ T = {}
  BY <1>2, FinishWakes, SpreadsNot DEF Start
<1>3. CASE n \in contest \cap own /\ T # {}
  <2>1. net' = Send(L, n, T, Elect(n))
    BY <1>3 DEF Start
  <2>2. Elect(n) \in Waves \cap Message /\ Elect(n).type = "ELECT"
    BY WaveSays DEF Waves
  <2>3. /\ net' \in Matrix /\ Spreads(L, net', n, T, Waves)
        /\ \A q \in T \cap live : net'[n][q] = Append(L[n][q], Elect(n))
    BY <2>1, <2>2, SendSpreads
  <2>4. \A q \in T \cap live : Asks(net'[n][q])
    BY <2>2, <2>3, AppendSays DEF Matrix
  <2>5. Waken /\ Awake(n)'
    <3> DEFINE e == [caw |-> n, father |-> None, erec |-> 0, lrec |-> 0]
    <3>1. /\ election' = [election EXCEPT ![n] = e]
          /\ leader' = [leader EXCEPT ![n] = None] /\ told' = told
      BY <1>3 DEF Start
    <3>2. e # NoElection
      BY NoneAssumption DEF NoElection
    <3> HIDE DEF e
    <3> QED BY <3>1, <3>2 DEF Waken, Awake, Open, BallotsOk, Ballots
  <2> QED BY <2>3, <2>4, <2>5
<1> QED BY <1>1, <1>2, <1>3

LEMMA RestartWakes ==
    ASSUME NEW J, NEW C, BallotsOk(J, C), NEW L \in Matrix,
           NEW n \in Node, NEW T \in SUBSET Node, NEW K, Restart(n, T, K, L),
           \A m \in Node : leader[m] # None => told[m] # None
    PROVE  net' \in Matrix /\ Spreads(L, net', n, T, Waves) /\ Waken
<1>1. CASE n \in contest /\ leader[n] \notin K \cup {None}
  BY <1>1, StartWakes DEF Restart
<1>2. CASE /\ ~(n \in contest /\ leader[n] \notin K \cup {None})
           /\ n \in contest /\ Open(n) /\ T = {}
  BY <1>2, FinishWakes, SpreadsNot DEF Restart
<1>3. CASE /\ ~(n \in contest /\ leader[n] \notin K \cup {None})
           /\ ~(n \in contest /\ Open(n) /\ T = {})
  <2>1. net' = L /\ UNCHANGED <<leader, told>>
    BY <1>3 DEF Restart
  <2>2. \/ UNCHANGED election
        \/ leader[n] # None /\ election' = [election EXCEPT ![n] = NoElection]
    BY <1>3 DEF Restart
  <2>3. Waken
    BY <2>1, <2>2 DEF Waken, Awake, Open, BallotsOk, Ballots
  <2> QED BY <2>1, <2>3, SpreadsNot
<1> QED BY <1>1, <1>2, <1>3

-----------------------------------------------------------------------------
(* Two nodes, whatever a step does between them *)

\* What happens to p's queue to n: waves are put behind it, if p knows n; or n
\* hears its first message, not a HELLO, and does what wakes n or p.
Passes(p, n) ==
    \/ /\ Grows(net[p][n], net'[p][n], Waves)
       /\ n \notin known[p] => net'[p][n] = net[p][n]
    \/ /\ net[p][n] # <<>> /\ net'[p][n] = Tail(net[p][n])
       /\ Head(net[p][n]).type # "HELLO"
       /\ p \in ready[n] /\ Announces(Head(net[p][n])) /\ n \in contest \cap own =>
            Awake(n)' /\ Asks(net'[n][p])
       /\ p \in ready[n] /\ Head(net[p][n]).type = "ELECT" => Awake(n)'

\* p's HELLO announces a member; nothing p asked or announced is lost on n.
Carries(p, n) ==
    /\ n \in known[p] => n \in known'[p]
    /\ n \in known'[p] \ known[p] /\ p \in own => Ann(net'[p][n])
    /\ Asks(net[p][n]) => Asks(net'[p][n]) \/ Awake(n)'
    /\ Ann(net[p][n]) => \/ Ann(net'[p][n])
                        \/ (n \in contest \cap own => Awake(n)' /\ Asks(net'[n][p]))

LEMMA PassesMet ==
    ASSUME net \in Matrix, NEW p \in Node, NEW n \in Node, Met(p, n), Passes(p, n),
           n \in known'[p] <=> n \in known[p], p \in ready'[n] <=> p \in ready[n]
    PROVE  Met(p, n)' /\ Carries(p, n)
<1> DEFINE q == net[p][n]
<1>1. q \in Seq(Message) /\ Waves \in SUBSET Waves
  BY DEF Matrix
<1>2. CASE Grows(q, net'[p][n], Waves) /\ (n \notin known[p] => net'[p][n] = q)
  <2>1. /\ Ann(net'[p][n]) <=> Ann(q)
        /\ Asks(q) => Asks(net'[p][n])
        /\ NoHello(q) => NoHello(net'[p][n])
        /\ Leads(q) => Leads(net'[p][n])
    BY <1>1, <1>2, GrowsSays
  <2> QED BY <1>2, <2>1 DEF Met, Carries
<1>3. CASE /\ q # <<>> /\ net'[p][n] = Tail(q)
           /\ Head(q).type # "HELLO"
           /\ p \in ready[n] /\ Announces(Head(q)) /\ n \in contest \cap own =>
                Awake(n)' /\ Asks(net'[n][p])
           /\ p \in ready[n] /\ Head(q).type = "ELECT" => Awake(n)'
  <2>1. /\ Ann(q) <=> Announces(Head(q)) \/ Ann(Tail(q))
        /\ Asks(q) <=> Head(q).type = "ELECT" \/ Asks(Tail(q))
        /\ NoHello(q) => NoHello(Tail(q))
        /\ ~Leads(q)
    BY <1>1, <1>3, TailSays
  <2>2. p \in ready[n] /\ n \in known[p] /\ NoHello(q)
    BY <1>3, <2>1 DEF Met
  <2>3. Met(p, n)'
    BY <1>3, <2>1, <2>2 DEF Met
  <2>4. Asks(q) => Asks(net'[p][n]) \/ Awake(n)'
    BY <1>3, <2>1, <2>2
  <2>5. Ann(q) => \/ Ann(net'[p][n])
                  \/ (n \in contest \cap own => Awake(n)' /\ Asks(net'[n][p]))
    BY <1>3, <2>1, <2>2
  <2> QED BY <2>3, <2>4, <2>5 DEF Carries
<1> QED BY <1>2, <1>3 DEF Passes

LEMMA CarriesWakes ==
    ASSUME NEW p \in Node, NEW n \in Node, Wakes(p, n), Stirs(p, n),
           Carries(p, n), Carries(n, p),
           UNCHANGED <<contest, own>>, Calm' => Calm, Awake(n) => Awake(n)'
    PROVE  Wakes(p, n)' /\ Stirs(p, n)'
<1>1. Wakes(p, n)'
  BY DEF Wakes, Carries
<1>2. Stirs(p, n)'
  BY DEF Stirs, Carries
<1> QED BY <1>1, <1>2

-----------------------------------------------------------------------------
(* Steps by which nobody joins, leaves or meets *)

\* Steps that leave alone who is a member, and the budgets Calm looks at.
Still == UNCHANGED <<contest, own>> /\ (Calm' => Calm) /\ Waken

Routine ==
    /\ Still /\ live' \subseteq live
    /\ \A p, n \in live' : p # n =>
        /\ n \in known'[p] <=> n \in known[p]
        /\ n \in ready'[p] <=> n \in ready[p]
        /\ Passes(p, n)

LEMMA PairsWake ==
    ASSUME live \subseteq Node, Waking, Still, live' \subseteq live,
           \A p, n \in live' : p # n => Met(p, n)' /\ Carries(p, n)
    PROVE  Waking'
<1>1. \A n \in Node : leader'[n] # None => told'[n] # None
  BY DEF Still, Waken
<1>2. ASSUME NEW p \in live', NEW n \in live', p # n
      PROVE  Met(p, n)' /\ Wakes(p, n)' /\ Stirs(p, n)'
  <2>1. Wakes(p, n) /\ Stirs(p, n)
    BY <1>2 DEF Waking
  <2>2. Carries(p, n) /\ Carries(n, p) /\ Met(p, n)'
    BY <1>2
  <2>3. p \in Node /\ n \in Node
    BY <1>2
  <2> QED BY <2>1, <2>2, <2>3, CarriesWakes DEF Still, Waken
<1> QED BY <1>1, <1>2 DEF Waking

LEMMA RoutineWakes ==
    ASSUME net \in Matrix, live \subseteq Node, Waking, Routine
    PROVE  Waking'
<1>1. ASSUME NEW p \in live', NEW n \in live', p # n
      PROVE  Met(p, n)' /\ Carries(p, n)
  <2>1. /\ p \in Node /\ n \in Node
        /\ n \in known'[p] <=> n \in known[p]
        /\ p \in ready'[n] <=> p \in ready[n]
        /\ Passes(p, n)
    BY <1>1 DEF Routine
  <2>2. Met(p, n)
    BY <1>1, <2>1 DEF Routine, Waking
  <2> QED BY <2>1, <2>2, PassesMet
<1> QED BY <1>1, PairsWake DEF Routine

\* A node that sends waves to peers it knows, and takes no message.
LEMMA SpreadPasses ==
    ASSUME net \in Matrix, live \subseteq Node, NEW L, NEW n, NEW T,
           Spreads(L, net', n, T, Waves)
    PROVE  \A p, q \in live :
             L[p][q] = net[p][q] /\ (p # n \/ q \notin T \/ q \in known[n]) => Passes(p, q)
<1> SUFFICES ASSUME NEW p \in live, NEW q \in live, L[p][q] = net[p][q],
                    p # n \/ q \notin T \/ q \in known[n]
             PROVE  Grows(net[p][q], net'[p][q], Waves)
                    /\ (q \notin known[p] => net'[p][q] = net[p][q])
  BY DEF Passes
<1>1. net[p][q] \in Seq(Message) /\ p \in Node /\ q \in Node
  BY DEF Matrix
<1>2. CASE p = n /\ q \in T
  BY <1>1, <1>2 DEF Spreads
<1>3. CASE ~(p = n /\ q \in T)
  BY <1>1, <1>3, GrowsNot DEF Spreads
<1> QED BY <1>2, <1>3

\* n takes a message of p, not a HELLO, does what it must and sends waves.
LEMMA TakenPasses ==
    ASSUME net \in Matrix, live \subseteq Node, NEW n \in Node, NEW p \in Node, p # n,
           net[p][n] # <<>>, NEW T, T \cap live \subseteq known[n],
           Spreads(Taken(n, p), net', n, T, Waves),
           Head(net[p][n]).type # "HELLO",
           p \in live /\ p \in ready[n] /\ Announces(Head(net[p][n])) /\ n \in contest \cap own =>
             Awake(n)' /\ Asks(net'[n][p]),
           p \in ready[n] /\ Head(net[p][n]).type = "ELECT" => Awake(n)'
    PROVE  \A r, q \in live : Passes(r, q)
<1>1. \A r, q \in Node :
        Taken(n, p)[r][q] = IF r = p /\ q = n THEN Tail(net[p][n]) ELSE net[r][q]
  BY TakenSays
<1>2. ASSUME NEW r \in live, NEW q \in live, ~(r = p /\ q = n)
      PROVE  Passes(r, q)
  <2>1. Taken(n, p)[r][q] = net[r][q]
    BY <1>1, <1>2
  <2> QED BY <2>1, SpreadPasses
<1>3. ASSUME p \in live
      PROVE  Passes(p, n)
  <2>1. net'[p][n] = Tail(net[p][n])
    BY <1>1 DEF Spreads
  <2> QED BY <1>3, <2>1 DEF Passes
<1> QED BY <1>2, <1>3
-----------------------------------------------------------------------------
(* The steps, one by one *)

Well(J) == Fine(J) /\ live \subseteq Node /\ Counts /\ Waking

LEMMA WellSays ==
    ASSUME NEW J, Well(J)
    PROVE  /\ net \in Matrix /\ live \subseteq Node /\ BallotsOk(J, contest)
           /\ \A n \in Node : leader[n] # None => told[n] # None
           /\ \A n \in Node : peers[n] \subseteq ready[n] /\ ready[n] \subseteq known[n]
                              /\ known[n] \subseteq Node
BY DEF Well, Fine, Waking, Links, Matrix, TablesOk, Tables

\* A message that is taken is not the node's own.
LEMMA TakenWell ==
    ASSUME NEW J, Well(J), NEW n \in Node, NEW p \in Node, net[p][n] # <<>>
    PROVE  /\ p # n /\ Head(net[p][n]) \in Message /\ Taken(n, p) \in Matrix
           /\ Wave(Head(net[p][n])) => Head(net[p][n]).id \in Node
<1>1. Honest(Head(net[p][n]), p, n, J, contest) /\ p # n /\ Head(net[p][n]) \in Message
  BY TakenKeeps DEF Well, Fine
<1>2. Wave(Head(net[p][n])) => Head(net[p][n]).id \in Node
  BY <1>1 DEF Honest, Wave, Well, Fine
<1> QED BY <1>1, <1>2, TakenSays, WellSays

LEMMA CalmStays ==
    ASSUME Counts, NEW k \in {"depart", "early"}, Charge(k)
    PROVE  Calm' => Calm
BY DEF Counts, Charge, Calm, Kinds

\* Once somebody joined late or left it is not calm any more.
LEMMA CalmEnds ==
    ASSUME Counts, NEW k \in {"join", "leave"}, Charge(k)
    PROVE  ~Calm'
<1>1. /\ spent["join"] \in Nat /\ spent["leave"] \in Nat
      /\ spent'["join"] = IF k = "join" THEN spent["join"] + 1 ELSE spent["join"]
      /\ spent'["leave"] = IF k = "leave" THEN spent["leave"] + 1 ELSE spent["leave"]
  BY DEF Counts, Charge, Kinds
<1> QED BY <1>1 DEF Calm

\* A step of the group at n, between nodes that have met.
LEMMA TableRoutine ==
    ASSUME UNCHANGED <<live, contest, own, table>>, Calm' => Calm, Waken,
           \A p, q \in live : Passes(p, q)
    PROVE  Routine
BY DEF Routine, Still, table

LEMMA JoinWakes ==
    ASSUME NEW J, Well(J), NEW n \in Node, NEW p \in Node, RecvJoin(n, p)
    PROVE  Routine
<1> DEFINE T == peers[n] \cup {p}
<1>1. /\ net[p][n] # <<>> /\ Head(net[p][n]).type = "JOIN" /\ p \in ready[n]
      /\ Start(n, T, Taken(n, p)) /\ UNCHANGED <<live, contest, own, spent, table>>
  BY DEF RecvJoin, Take
<1>2. T \in SUBSET Node /\ T \subseteq known[n] /\ p # n /\ Taken(n, p) \in Matrix
  BY <1>1, WellSays, TakenWell
<1>3. p \in T
  OBVIOUS
<1> HIDE DEF T
<1>4. /\ Spreads(Taken(n, p), net', n, T, Waves) /\ Waken
      /\ n \in contest \cap own => Awake(n)' /\ \A q \in T \cap live : Asks(net'[n][q])
  BY <1>1, <1>2, StartWakes, WellSays
<1>5. \A r, q \in live : Passes(r, q)
  BY <1>1, <1>2, <1>3, <1>4, TakenPasses, WellSays
<1> QED BY <1>1, <1>4, <1>5, TableRoutine DEF Calm

LEMMA LeaveWakes ==
    ASSUME NEW J, Well(J), NEW n \in Node, NEW p \in Node, RecvLeave(n, p)
    PROVE  Routine
<1> DEFINE T == peers[n] \ {p}
<1>1. /\ net[p][n] # <<>> /\ Head(net[p][n]).type = "LEAVE"
      /\ Restart(n, T, known[n], Taken(n, p)) /\ UNCHANGED <<live, contest, own, spent, table>>
  BY DEF RecvLeave, Take
<1>2. T \in SUBSET Node /\ T \subseteq known[n] /\ p # n /\ Taken(n, p) \in Matrix
  BY <1>1, WellSays, TakenWell
<1> HIDE DEF T
<1>3. Spreads(Taken(n, p), net', n, T, Waves) /\ Waken
  BY <1>1, <1>2, RestartWakes, WellSays
<1>4. ~Announces(Head(net[p][n]))
  BY <1>1 DEF Announces
<1>5. \A r, q \in live : Passes(r, q)
  BY <1>1, <1>2, <1>3, <1>4, TakenPasses, WellSays
<1> QED BY <1>1, <1>3, <1>5, TableRoutine DEF Calm

LEMMA IgnoredWakes ==
    ASSUME NEW J, Well(J), NEW n \in Node, NEW p \in Node, RecvIgnored(n, p)
    PROVE  Routine
<1>1. /\ net[p][n] # <<>> /\ Head(net[p][n]).type # "HELLO" /\ p \notin ready[n]
      /\ net' = Taken(n, p) /\ UNCHANGED <<live, contest, own, spent, table, ballot>>
  BY DEF RecvIgnored, Take, table
<1>2. p # n /\ Taken(n, p) \in Matrix
  BY <1>1, TakenWell
<1>3. Spreads(Taken(n, p), net', n, {}, Waves)
  BY <1>1, <1>2, SpreadsNot
<1>4. Waken
  BY <1>1, WakenNot, WellSays
<1>5. \A r, q \in live : Passes(r, q)
  BY <1>1, <1>2, <1>3, TakenPasses, WellSays
<1> QED BY <1>1, <1>4, <1>5, TableRoutine DEF Calm

\* An election that is open stays open, whatever it counts.
LEMMA CountWakes ==
    ASSUME NEW J, NEW C, BallotsOk(J, C), NEW n \in Node,
           NEW e, e.caw \in Node, election' = [election EXCEPT ![n] = e],
           UNCHANGED <<leader, told>>, \A m \in Node : leader[m] # None => told[m] # None
    PROVE  Waken /\ Awake(n)'
<1>1. e # NoElection
  BY NoneAssumption DEF NoElection
<1> QED BY <1>1 DEF Waken, Awake, Open, BallotsOk, Ballots

\* _handle_elect: whoever is asked is awake.
LEMMA ElectWakes ==
    ASSUME NEW J, Well(J), NEW n \in Node, NEW p \in Node, RecvElect(n, p)
    PROVE  Routine
<1> DEFINE c == Head(net[p][n]).id
           joins == Superior(n, c)
           base == IF joins THEN [caw |-> c, father |-> p, erec |-> 0, lrec |-> 0]
                   ELSE election[n]
           e == [base EXCEPT !.erec = More(@)]
           passed == IF joins THEN Send(Taken(n, p), n, peers[n] \ {p}, Elect(c))
                     ELSE Taken(n, p)
           echoed == IF e.caw = n THEN Send(passed, n, peers[n], Leader(n))
                     ELSE IF e.father \in known[n]
                     THEN Send(passed, n, {e.father}, Elect(c))
                     ELSE passed
           K == known[n]
           L == Taken(n, p)
<1>1. /\ net[p][n] # <<>> /\ Head(net[p][n]).type = "ELECT" /\ p \in ready[n]
      /\ UNCHANGED <<live, contest, own, spent, table, leader, told>>
      /\ \/ c # base.caw /\ net' = L /\ UNCHANGED election
         \/ /\ c = base.caw
            /\ election' = [election EXCEPT ![n] = e]
            /\ net' = passed \/ net' = echoed
  BY DEF RecvElect, Take
<1>2. p # n /\ L \in Matrix /\ c \in Node /\ K \subseteq Node /\ peers[n] \subseteq K
  BY <1>1, WellSays, TakenWell DEF Wave
<1>3. Elect(c) \in Waves /\ Leader(n) \in Waves /\ Elect(c) \in Message /\ Leader(n) \in Message
  BY <1>2, WaveSays DEF Waves
<1>4. joins => base.caw = c
  OBVIOUS
<1>5. ~joins => base = election[n] /\ Open(n)
  BY DEF Superior
<1>6. e.caw = base.caw
  BY <1>4, <1>5 DEF Well, Fine, BallotsOk, Ballots, Open, Election
<1> HIDE DEF L, K, base, joins, c
<1>7. passed \in Matrix /\ Spreads(L, passed, n, K, Waves)
  <2>1. Spreads(L, L, n, K, Waves)
    BY <1>2, SpreadsNot
  <2> QED BY <1>2, <1>3, <2>1, SpreadsSend DEF L
<1> HIDE DEF passed, e
<1>8. Spreads(L, echoed, n, K, Waves)
  <2>1. {e.father} \subseteq K <=> e.father \in known[n]
    BY DEF K
  <2> QED BY <1>2, <1>3, <1>7, <2>1, SpreadsSend
<1> HIDE DEF echoed
<1>9. Spreads(L, net', n, K, Waves)
  BY <1>1, <1>2, <1>7, <1>8, SpreadsNot
<1>10. Waken /\ Awake(n)'
  <2>1. CASE UNCHANGED election /\ c # base.caw
    BY <1>1, <1>4, <1>5, <2>1, WakenNot, WellSays DEF ballot, Awake, Open
  <2>2. CASE election' = [election EXCEPT ![n] = e] /\ c = base.caw
    BY <1>1, <1>2, <1>6, <2>2, CountWakes, WellSays
  <2> QED BY <1>1, <2>1, <2>2
<1>11. ~Announces(Head(net[p][n]))
  BY <1>1 DEF Announces
<1>12. \A r, q \in live : Passes(r, q)
  BY <1>1, <1>2, <1>9, <1>10, <1>11, TakenPasses, WellSays DEF L, K
<1> QED BY <1>1, <1>10, <1>12, TableRoutine DEF Calm

\* _handle_leader: an election is only closed with a leader.
LEMMA LeaderWakes ==
    ASSUME NEW J, Well(J), NEW n \in Node, NEW p \in Node, RecvLeader(n, p)
    PROVE  Routine
<1> DEFINE w == Head(net[p][n]).id
           e == [election[n] EXCEPT !.lrec = More(@)]
           T == peers[n]
<1>1. /\ net[p][n] # <<>> /\ Head(net[p][n]).type = "LEADER"
      /\ UNCHANGED <<live, contest, own, spent, table>>
  BY DEF RecvLeader, Take, table
<1>2. p # n /\ Taken(n, p) \in Matrix /\ w \in Node /\ T \subseteq known[n]
  BY <1>1, WellSays, TakenWell DEF Wave
<1>3. Leader(w) \in Waves /\ Leader(w) \in Message
  BY <1>2, WaveSays DEF Waves
<1>4. Spreads(Taken(n, p), net', n, T, Waves)
  <2>1. net' = Taken(n, p) \/ net' = Send(Taken(n, p), n, T, Leader(w))
    BY DEF RecvLeader
  <2> HIDE DEF T, w
  <2> QED BY <1>2, <1>3, <2>1, SpreadsNot, SendSpreads
<1>5. Waken
  <2>1. CASE ~Open(n)
    BY <2>1, WakenNot, WellSays DEF RecvLeader
  <2>2. CASE Open(n) /\ Finish(n, w)
    BY <1>2, <2>2, FinishWakes, WellSays
  <2>3. CASE /\ Open(n)
             /\ election' = [election EXCEPT ![n] = e] /\ UNCHANGED <<leader, told>>
    <3>1. election[n] \in Election
      BY <2>3, WellSays DEF Open, BallotsOk, Ballots
    <3>2. e.caw \in Node
      BY <3>1 DEF Election
    <3> HIDE DEF e
    <3> QED BY <2>3, <3>2, CountWakes, WellSays
  <2> QED BY <2>1, <2>2, <2>3 DEF RecvLeader
<1>6. ~Announces(Head(net[p][n]))
  BY <1>1 DEF Announces
<1>7. \A r, q \in live : Passes(r, q)
  BY <1>1, <1>2, <1>4, <1>6, TakenPasses, WellSays
<1> QED BY <1>1, <1>5, <1>7, TableRoutine DEF Calm

LEMMA MaintainWakes ==
    ASSUME NEW J, Well(J), NEW n \in Node, Maintain(n)
    PROVE  Routine
<1> DEFINE e == election[n]
           m == IF Won(n) THEN Leader(n) ELSE Elect(e.caw)
           T == IF e.caw = n THEN peers[n] ELSE peers[n] \ {e.father}
<1>1. UNCHANGED <<live, contest, own, table>> /\ (Calm' => Calm)
  <2>1. UNCHANGED spent \/ Charge("early")
    BY DEF Maintain
  <2> QED BY <2>1, CalmStays DEF Maintain, table, Calm, Well
<1>2. T \subseteq known[n] /\ T \subseteq Node
  BY WellSays
<1>3. Spreads(net, net', n, T, Waves) /\ Waken
  <2>1. CASE peers[n] = {}
    BY <2>1, FinishWakes, SpreadsNot, WellSays DEF Maintain
  <2>2. CASE peers[n] # {}
    <3>1. net' = Send(net, n, T, m) /\ UNCHANGED ballot
      BY <2>2 DEF Maintain
    <3>2. e.caw \in Node
      BY WellSays DEF Maintain, Open, BallotsOk, Ballots, Election
    <3>3. m \in Waves /\ m \in Message
      BY <3>2, WaveSays DEF Waves
    <3> HIDE DEF T, m
    <3> QED BY <3>1, <3>3, SendSpreads, WakenNot, WellSays
  <2> QED BY <2>1, <2>2
<1> HIDE DEF T
<1>4. \A p, q \in live : Passes(p, q)
  BY <1>2, <1>3, SpreadPasses, WellSays
<1> QED BY <1>1, <1>3, <1>4, TableRoutine

\* Forgetting p, which departed, changes nothing between those that run.
LEMMA RemoveWakes ==
    ASSUME NEW J, Well(J), NEW n \in Node, NEW p \in Node, Remove(n, p)
    PROVE  Routine
<1> DEFINE T == peers[n] \ {p}
           K == known[n] \ {p}
<1>1. /\ p \in known[n] \ live /\ UNCHANGED <<live, contest, own, spent>>
      /\ known' = [known EXCEPT ![n] = @ \ {p}] /\ ready' = [ready EXCEPT ![n] = @ \ {p}]
      /\ Restart(n, T, K, net) \/ UNCHANGED <<ballot, net>>
  BY DEF Remove
<1>2. T \subseteq known[n] /\ T \in SUBSET Node
  BY WellSays
<1> HIDE DEF T, K
<1>3. Spreads(net, net', n, T, Waves) /\ Waken
  BY <1>1, <1>2, RestartWakes, SpreadsNot, WakenNot, WellSays
<1>4. \A r, q \in live : Passes(r, q)
  BY <1>2, <1>3, SpreadPasses, WellSays
<1>5. \A r, q \in live : (q \in known'[r] <=> q \in known[r]) /\ (q \in ready'[r] <=> q \in ready[r])
  BY <1>1, WellSays DEF Well, Fine, TablesOk, Tables
<1> QED BY <1>1, <1>3, <1>4, <1>5 DEF Routine, Still, Calm

LEMMA DepartWakes ==
    ASSUME NEW J, Well(J), NEW n \in Node, Depart(n)
    PROVE  Routine
<1>1. /\ live' = live \ {n} /\ net' = [p \in Node |-> [net[p] EXCEPT ![n] = <<>>]]
      /\ UNCHANGED <<contest, own, table, ballot>> /\ (Calm' => Calm)
  BY CalmStays DEF Depart, Well
<1>2. Waken
  BY <1>1, WakenNot, WellSays
<1>3. ASSUME NEW p \in live', NEW q \in live'
      PROVE  Passes(p, q)
  <2>1. net[p][q] \in Seq(Message) /\ net'[p][q] = net[p][q]
    BY <1>1, <1>3, WellSays DEF Matrix
  <2> QED BY <2>1, GrowsNot DEF Passes
<1> QED BY <1>1, <1>2, <1>3 DEF Routine, Still, table

\* n greets p: the HELLO leads the queue, and announces a member.
LEMMA GreetMet ==
    ASSUME net \in Matrix, NEW n \in Node, NEW p \in Node, Met(n, p),
           p \notin known[n], p \in known'[n], n \in ready'[p] <=> n \in ready[p],
           Grows(Append(net[n][p], Hello(n \in own)), net'[n][p], Waves)
    PROVE  Met(n, p)' /\ Carries(n, p)
<1> DEFINE m == Hello(n \in own)
           r == Append(<<>>, m)
<1>1. n \notin ready[p] /\ net[n][p] = <<>> /\ <<>> \in Seq(Message)
  BY EmptySeq DEF Met
<1>2. m.type = "HELLO" /\ (Announces(m) <=> n \in own) /\ m \in Message
  <2>1. (n \in own) \in BOOLEAN
    OBVIOUS
  <2> QED BY <2>1, MessageSays, MessageKinds, Zenon
<1> HIDE DEF m
<1>3. r \in Seq(Message) /\ Leads(r) /\ (Ann(r) <=> Ann(<<>>) \/ n \in own)
  BY <1>1, <1>2, AppendSays, LinkAppend
<1>4. Grows(r, net'[n][p], Waves)
  BY <1>1 DEF m
<1> HIDE DEF r
<1>5. Leads(net'[n][p]) /\ (Ann(net'[n][p]) <=> Ann(r))
  BY <1>3, <1>4, GrowsSays
<1>6. ~Ann(<<>>) /\ ~Asks(<<>>)
  BY DEF Ann, Asks
<1> QED BY <1>1, <1>3, <1>5, <1>6 DEF Met, Carries

LEMMA DiscoverWakes ==
    ASSUME NEW J, Well(J), NEW n \in Node, NEW p \in Node, Discover(n, p)
    PROVE  Waking'
<1>1. /\ {n, p} \subseteq live /\ n # p /\ p \notin known[n]
      /\ known' = [known EXCEPT ![n] = @ \cup {p}]
      /\ net' = Send(net, n, {p}, Hello(n \in own))
      /\ UNCHANGED <<live, contest, own, ready, ballot, spent>>
  BY DEF Discover
<1>2. /\ Hello(n \in own) \in Message /\ net \in Matrix /\ live \subseteq Node
      /\ known \in [Node -> SUBSET Node]
  BY HelloHonest, WellSays DEF Well, Fine, TablesOk, Tables
<1>3. Still
  BY <1>1, WakenNot, WellSays DEF Still, Calm
<1>4. \A r, q \in Node : net'[r][q] = IF r = n /\ q \in {p} \cap live
                                      THEN Append(net[r][q], Hello(n \in own)) ELSE net[r][q]
  BY <1>1, <1>2, SendSays
<1>5. ASSUME NEW r \in live, NEW q \in live, r # q
      PROVE  Met(r, q)' /\ Carries(r, q)
  <2>1. Met(r, q) /\ net[r][q] \in Seq(Message) /\ r \in Node /\ q \in Node
    BY <1>2, <1>5 DEF Matrix, Well, Waking
  <2>2. CASE r = n /\ q = p
    <3> DEFINE a == Append(net[n][p], Hello(n \in own))
    <3>1. net'[n][p] = a /\ a \in Seq(Message)
      BY <1>1, <1>2, <1>4, <2>1, <2>2, LinkAppend
    <3>2. Grows(a, net'[n][p], Waves)
      BY <3>1, GrowsNot
    <3>3. p \in known'[n] /\ ready' = ready
      BY <1>1, <1>2
    <3> QED BY <1>1, <1>2, <2>1, <2>2, <3>2, <3>3, GreetMet
  <2>3. CASE ~(r = n /\ q = p)
    <3>1. net'[r][q] = net[r][q] /\ (q \in known'[r] <=> q \in known[r]) /\ ready' = ready
      BY <1>1, <1>2, <1>4, <2>1, <2>3
    <3>2. Passes(r, q)
      BY <2>1, <3>1, GrowsNot DEF Passes
    <3> QED BY <1>2, <2>1, <3>1, <3>2, PassesMet
  <2> QED BY <2>2, <2>3
<1> QED BY <1>1, <1>2, <1>3, <1>5, PairsWake DEF Well

\* A HELLO that is heard: the peer is ready, greeted if it was not known, and
\* if it is a member, an election starts.
LEMMA HelloWakes ==
    ASSUME NEW J, Well(J), NEW n \in Node, NEW p \in Node, RecvHello(n, p)
    PROVE  Waking'
<1> DEFINE m == Head(net[p][n])
           answered == IF p \in known[n] THEN Taken(n, p)
                       ELSE Send(Taken(n, p), n, {p}, Hello(n \in own))
           grown == peers[n] \cup {p}
<1>1. /\ net[p][n] # <<>> /\ m.type = "HELLO" /\ n \in live
      /\ UNCHANGED <<live, contest, own, spent>>
  BY DEF RecvHello, Take
<1>2. /\ p # n /\ Taken(n, p) \in Matrix /\ net \in Matrix /\ live \subseteq Node
      /\ known \in [Node -> SUBSET Node] /\ ready \in [Node -> SUBSET Node]
      /\ net[p][n] \in Seq(Message)
  <2>1. p # n /\ Taken(n, p) \in Matrix
    BY <1>1, TakenWell
  <2>2. net \in Matrix /\ live \subseteq Node
    BY WellSays
  <2>3. known \in [Node -> SUBSET Node] /\ ready \in [Node -> SUBSET Node]
    BY DEF Well, Fine, TablesOk, Tables
  <2> QED BY <2>1, <2>2, <2>3 DEF Matrix
<1>3. \A r, q \in Node :
        Taken(n, p)[r][q] = IF r = p /\ q = n THEN Tail(net[p][n]) ELSE net[r][q]
  BY <1>1, <1>2, TakenSays
<1>4. \A r, q \in live : r # q => Met(r, q) /\ r \in Node /\ q \in Node
  BY <1>2 DEF Well, Waking
<1>5. CASE p \in ready[n]
  <2>1. net' = Taken(n, p) /\ UNCHANGED <<table, ballot>>
    BY <1>5 DEF RecvHello
  <2>2. p \notin live
    BY <1>1, <1>2, <1>4, <1>5, TailSays DEF Met
  <2>3. Waken /\ Spreads(Taken(n, p), net', n, {}, Waves)
    BY <1>2, <2>1, WakenNot, SpreadsNot, WellSays
  <2>4. \A r, q \in live : Passes(r, q)
    BY <1>2, <1>3, <2>2, <2>3, SpreadPasses
  <2>5. Routine
    BY <1>1, <2>1, <2>3, <2>4, TableRoutine DEF Calm
  <2> QED BY <1>2, <2>5, RoutineWakes DEF Well
<1>6. CASE p \notin ready[n]
  <2>1. /\ known' = [known EXCEPT ![n] = @ \cup {p}]
        /\ ready' = [ready EXCEPT ![n] = @ \cup {p}]
        /\ IF m.in THEN Start(n, grown, answered) ELSE net' = answered /\ UNCHANGED ballot
    BY <1>6 DEF RecvHello
  <2>2. Hello(n \in own) \in Message
    BY HelloHonest DEF Well, Fine
  <2>3. /\ answered \in Matrix
        /\ \A r, q \in Node : answered[r][q] =
             IF p \notin known[n] /\ r = n /\ q \in {p} \cap live
             THEN Append(Taken(n, p)[r][q], Hello(n \in own)) ELSE Taken(n, p)[r][q]
    BY <1>2, <2>2, SendSays
  <2>4. grown \in SUBSET Node /\ \A q \in grown : q = p \/ q \in known[n]
    BY WellSays
  <2> HIDE DEF answered, grown
  <2>5. /\ Spreads(answered, net', n, grown, Waves) /\ Waken
        /\ m.in /\ n \in contest \cap own =>
             Awake(n)' /\ \A q \in grown \cap live : Asks(net'[n][q])
    <3>1. CASE m.in
      BY <2>1, <2>3, <2>4, <3>1, StartWakes, WellSays
    <3>2. CASE ~m.in
      BY <2>1, <2>3, <3>2, SpreadsNot, WakenNot, WellSays
    <3> QED BY <3>1, <3>2
  <2>6. Still
    BY <1>1, <2>5 DEF Still, Calm
  <2>7. /\ \A q \in Node : q \in known'[n] <=> q \in known[n] \/ q = p
        /\ \A q \in Node : q \in ready'[n] <=> q \in ready[n] \/ q = p
        /\ \A r \in Node : r # n => known'[r] = known[r] /\ ready'[r] = ready[r]
    BY <1>2, <2>1
  <2>8. ASSUME NEW r \in live, NEW q \in live, r # q, ~(r = p /\ q = n), ~(r = n /\ q = p)
        PROVE  Met(r, q)' /\ Carries(r, q)
    <3>1. r \in Node /\ q \in Node /\ Met(r, q)
      BY <1>4, <2>8
    <3>2. (q \in known'[r] <=> q \in known[r]) /\ (r \in ready'[q] <=> r \in ready[q])
      BY <2>7, <2>8, <3>1
    <3>3. answered[r][q] = net[r][q] /\ (r # n \/ q \notin grown \/ q \in known[n])
      BY <1>3, <2>3, <2>4, <2>8, <3>1
    <3>4. Passes(r, q)
      BY <1>2, <2>5, <3>3, SpreadPasses
    <3> QED BY <1>2, <3>1, <3>2, <3>4, PassesMet
  <2>9. ASSUME p \in live
        PROVE  Met(p, n)' /\ Carries(p, n)
    <3>1. n \in known[p] /\ Leads(net[p][n])
      BY <1>1, <1>2, <1>4, <1>6, <2>9 DEF Met
    <3>2. net'[p][n] = Tail(net[p][n])
      BY <1>2, <1>3, <2>3, <2>5 DEF Spreads
    <3>3. /\ NoHello(net'[p][n]) /\ (Asks(net[p][n]) => Asks(net'[p][n]))
          /\ Ann(net[p][n]) => Announces(m) \/ Ann(net'[p][n])
      BY <1>1, <1>2, <3>1, <3>2, TailSays
    <3>4. Announces(m) => m.in
      BY <1>1, Zenon DEF Announces
    <3>5. p \in ready'[n] /\ n \in known'[p] /\ p \in grown
      BY <1>2, <2>7, <3>1 DEF grown
    <3>6. Carries(p, n)
      BY <2>5, <2>9, <3>1, <3>3, <3>4, <3>5 DEF Carries
    <3> QED BY <3>3, <3>5, <3>6 DEF Met
  <2>10. ASSUME p \in live
         PROVE  Met(n, p)' /\ Carries(n, p)
    <3>1. Met(n, p) /\ p \in known'[n] /\ ready'[p] = ready[p]
      BY <1>1, <1>2, <1>4, <2>7, <2>10
    <3>2. CASE p \in known[n]
      <4>1. answered[n][p] = net[n][p]
        BY <1>2, <1>3, <2>3, <3>2
      <4>2. Passes(n, p)
        BY <1>1, <1>2, <2>5, <2>10, <3>2, <4>1, SpreadPasses
      <4> QED BY <1>2, <3>1, <3>2, <4>2, PassesMet
    <3>3. CASE p \notin known[n]
      <4>1. answered[n][p] = Append(net[n][p], Hello(n \in own))
        BY <1>2, <1>3, <2>3, <2>10, <3>3
      <4>2. Grows(answered[n][p], net'[n][p], Waves)
        BY <2>5 DEF Spreads, grown
      <4> QED BY <1>2, <3>1, <3>3, <4>1, <4>2, GreetMet
    <3> QED BY <3>2, <3>3
  <2>11. \A r, q \in live' : r # q => Met(r, q)' /\ Carries(r, q)
    BY <1>1, <2>8, <2>9, <2>10
  <2> QED BY <1>1, <1>2, <2>6, <2>11, PairsWake DEF Well
<1> QED BY <1>5, <1>6

\* Who joins late announces itself to all it knows; the others wait for that.
LEMMA JoinGroupWakes ==
    ASSUME NEW J, Well(J), NEW n \in Node, JoinGroup(n)
    PROVE  Waking'
<1>1. /\ n \in live \ own /\ own' = own \cup {n} /\ net' = Send(net, n, known[n], Join)
      /\ UNCHANGED <<live, contest, known, ready, ballot>> /\ ~Calm'
  BY CalmEnds DEF JoinGroup, table, Well
<1>2. net \in Matrix /\ live \subseteq Node /\ Join \in Message
  BY WellSays, MessageKinds
<1>3. \A r, q \in Node : net'[r][q] = IF r = n /\ q \in known[n] \cap live
                                      THEN Append(net[r][q], Join) ELSE net[r][q]
  BY <1>1, <1>2, SendSays
<1>4. Waken
  BY <1>1, WakenNot, WellSays
<1>5. ASSUME NEW r \in live', NEW q \in live', r # q
      PROVE  Met(r, q)' /\ Wakes(r, q)' /\ Stirs(r, q)'
  <2>1. /\ r \in Node /\ q \in Node /\ r \in live /\ q \in live /\ Met(r, q) /\ Wakes(r, q)
        /\ net[r][q] \in Seq(Message) /\ net[q][r] \in Seq(Message)
    BY <1>1, <1>2, <1>5 DEF Well, Waking, Matrix
  <2>2. /\ Ann(Append(net[r][q], Join)) /\ Ann(Append(net[q][r], Join))
        /\ Asks(net[r][q]) => Asks(Append(net[r][q], Join))
        /\ NoHello(net[r][q]) => NoHello(Append(net[r][q], Join))
        /\ Leads(net[r][q]) => Leads(Append(net[r][q], Join))
    BY <1>2, <2>1, AppendSays, MessageSays
  <2>3. Met(r, q)'
    BY <1>1, <1>3, <2>1, <2>2 DEF Met
  <2>4. Wakes(r, q)'
    <3>1. CASE q = n
      BY <1>1, <1>3, <1>5, <2>1, <2>2, <3>1 DEF Wakes
    <3>2. CASE r = n
      BY <1>1, <1>3, <1>5, <2>1, <2>2, <3>2 DEF Wakes
    <3>3. CASE r # n /\ q # n
      BY <1>1, <1>3, <1>4, <2>1, <3>3 DEF Wakes, Waken
    <3> QED BY <3>1, <3>2, <3>3
  <2> QED BY <1>1, <2>3, <2>4 DEF Stirs
<1> QED BY <1>4, <1>5 DEF Waking, Waken

LEMMA LeaveGroupWakes ==
    ASSUME NEW J, Well(J), NEW n \in Node, LeaveGroup(n)
    PROVE  Waking'
<1>1. /\ own' = own \ {n} /\ net' = Send(net, n, known[n], Leave)
      /\ UNCHANGED <<live, contest, known, ready, ballot>> /\ ~Calm'
  BY CalmEnds DEF LeaveGroup, table, Well
<1>2. net \in Matrix /\ live \subseteq Node /\ Leave \in Message /\ Leave.type = "LEAVE"
  BY WellSays, MessageKinds, MessageSays
<1>3. \A r, q \in Node : net'[r][q] = IF r = n /\ q \in known[n] \cap live
                                      THEN Append(net[r][q], Leave) ELSE net[r][q]
  BY <1>1, <1>2, SendSays
<1>4. Waken
  BY <1>1, WakenNot, WellSays
<1>5. ASSUME NEW r \in live', NEW q \in live', r # q
      PROVE  Met(r, q)' /\ Wakes(r, q)' /\ Stirs(r, q)'
  <2>1. /\ r \in Node /\ q \in Node /\ Met(r, q) /\ Wakes(r, q)
        /\ net[r][q] \in Seq(Message)
    BY <1>1, <1>2, <1>5 DEF Well, Waking, Matrix
  <2>2. /\ NoHello(net[r][q]) => NoHello(Append(net[r][q], Leave))
        /\ Leads(net[r][q]) => Leads(Append(net[r][q], Leave))
    BY <1>2, <2>1, AppendSays
  <2>3. Met(r, q)'
    BY <1>1, <1>3, <2>1, <2>2 DEF Met
  <2>4. Wakes(r, q)'
    <3>1. CASE q = n \/ r = n
      BY <1>1, <3>1 DEF Wakes
    <3>2. CASE r # n /\ q # n
      BY <1>1, <1>3, <1>4, <2>1, <3>2 DEF Wakes, Waken
    <3> QED BY <3>1, <3>2
  <2> QED BY <1>1, <2>3, <2>4 DEF Stirs
<1> QED BY <1>4, <1>5 DEF Waking, Waken

-----------------------------------------------------------------------------

LEMMA InitWaking ==
    ASSUME Init
    PROVE  Waking
BY DEF Init, Waking, Met, Wakes, Stirs

LEMMA WakingStep ==
    ASSUME Inv, Waking, [Next]_vars
    PROVE  Waking'
<1>1. PICK J : J = Joined
  OBVIOUS
<1>2. Well(J)
  BY <1>1, InvFine DEF Inv, Counts, Well
<1>3. ASSUME Routine
      PROVE  Waking'
  BY <1>2, <1>3, RoutineWakes, WellSays
<1>4. ASSUME NEW n \in Node, JoinGroup(n) \/ LeaveGroup(n)
      PROVE  Waking'
  BY <1>2, <1>4, JoinGroupWakes, LeaveGroupWakes
<1>5. ASSUME NEW n \in Node, Depart(n) \/ Maintain(n)
      PROVE  Routine
  BY <1>2, <1>5, DepartWakes, MaintainWakes
<1>6. ASSUME NEW n \in Node, NEW p \in Node, Discover(n, p) \/ RecvHello(n, p)
      PROVE  Waking'
  BY <1>2, <1>6, DiscoverWakes, HelloWakes
<1>7. ASSUME NEW n \in Node, NEW p \in Node,
             \/ RecvJoin(n, p) \/ RecvLeave(n, p) \/ RecvIgnored(n, p)
             \/ RecvElect(n, p) \/ RecvLeader(n, p) \/ Remove(n, p)
      PROVE  Routine
  BY <1>2, <1>7, JoinWakes, LeaveWakes, IgnoredWakes, ElectWakes, LeaderWakes, RemoveWakes
<1>8. CASE UNCHANGED vars
  BY <1>8 DEF vars, table, ballot, Waking, Met, Wakes, Stirs, Awake, Open, Calm
<1> QED BY <1>3, <1>4, <1>5, <1>6, <1>7, <1>8 DEF Next, Receive

LEMMA WakingHolds == Spec => [](Inv /\ Waking)
<1>1. Init => Inv /\ Waking
  BY InitInv, InitWaking
<1>2. Inv /\ Waking /\ [Next]_vars => Inv' /\ Waking'
  BY InvStep, WakingStep
<1> QED BY <1>1, <1>2, PTL DEF Spec

\* When all is settled, two members have met, and nothing is on its way: a
\* contestant was told a leader, and so was who met one and contests, or met it
\* while nobody joined late or left.
LEMMA SettledTold ==
    ASSUME Inv, Waking, Settled, NEW p \in Members, NEW n \in Members, p # n
    PROVE  /\ p \in contest /\ (Calm \/ n \in contest) => told[n] # None
           /\ Calm /\ n \in contest => told[n] # None
<1>1. /\ p \in live /\ n \in live /\ p \in own /\ n \in own
      /\ net[p][n] = <<>> /\ net[n][p] = <<>>
      /\ p \in known[n] /\ n \in known[p] /\ ~Open(n)
  BY DEF Members, Settled, Quiet
<1>2. Wakes(p, n) /\ Stirs(p, n)
  BY <1>1 DEF Waking
<1>3. ~Ann(<<>>) /\ ~Asks(<<>>)
  BY DEF Ann, Asks
<1> QED BY <1>1, <1>2, <1>3 DEF Wakes, Stirs, Awake

\* Who is in a group of several is not alone.
LEMMA Another ==
    ASSUME Inv, Cardinality(Members) > 1, NEW n \in Members
    PROVE  \E p \in Members : p # n
<1> SUFFICES ASSUME Members = {n} PROVE FALSE
  OBVIOUS
<1> QED BY FS_Singleton

\* Nobody is passed over: what starts elections (_start_election) and what closes
\* them (_handle_leader, _restart_election_if_needed) leaves no contestant of a
\* settled group of contestants without a LEADER event.
THEOREM ElectedHolds == Spec => []Elected
<1>1. Inv /\ Waking => Elected
  BY Another, SettledTold DEF Elected
<1> QED BY <1>1, WakingHolds, PTL

LEMMA OneAgrees ==
    ASSUME Inv, Waking, NEW c \in Node, contest \subseteq {c}
    PROVE  Agreement /\ LowestLeads
<1>1. \A n \in Node : told[n] \in {c, None}
  BY DEF Inv, Ballots
<1>2. Members \subseteq Node
  BY DEF Inv, Counts, Members
<1>3. Agreement
  BY <1>1, <1>2 DEF Agreement
<1>4. LowestLeads
  <2> SUFFICES ASSUME Settled, Calm, Cardinality(Members) > 1, Members \cap contest # {},
                      NEW n \in Members
               PROVE  told[n] = Lowest(Members \cap contest)
    BY DEF LowestLeads
  <2>1. PICK p \in Members : p # n
    BY Another
  <2>2. Members \cap contest = {c} /\ told[n] # None
    BY <2>1, SettledTold
  <2>3. Lowest({c}) = c
    BY NodeAssumption DEF Lowest
  <2> QED BY <1>1, <1>2, <2>2, <2>3
<1> QED BY <1>3, <1>4

\* Of one contestant: all who are told of a leader (_finish_election) are told of
\* the same, and in a group nobody joined late or left all are told of it.
THEOREM OneContestantLeads ==
    ASSUME NEW c \in Node
    PROVE  Spec /\ [](contest \subseteq {c}) => [](Agreement /\ LowestLeads)
<1>1. Inv /\ Waking /\ contest \subseteq {c} => Agreement /\ LowestLeads
  BY OneAgrees
<1> QED BY <1>1, WakingHolds, PTL

-----------------------------------------------------------------------------
(* Two contestants: what their queues say *)

LEMMA EmptyWaves ==
    /\ \A S : Only(<<>>, S)
    /\ Proper(<<>>) /\ NoLeave(<<>>) /\ ~Ann(<<>>)
    /\ \A l, k : Never(<<>>, l, k)
BY DEF Only, Proper, NoLeave, Ann, Never

LEMMA OnlyMore ==
    ASSUME NEW q, NEW S, NEW U, Only(q, S), S \subseteq U
    PROVE  Only(q, U)
BY DEF Only

LEMMA AppendWaves ==
    ASSUME NEW q \in Seq(Message), NEW m \in Message
    PROVE  /\ Append(q, m) \in Seq(Message)
           /\ \A S : Only(Append(q, m), S) <=> Only(q, S) /\ (Wave(m) => m \in S)
           /\ Proper(q) /\ (Announces(m) => ~Ann(q) /\ Only(q, {})) => Proper(Append(q, m))
           /\ NoLeave(q) /\ m.type # "LEAVE" => NoLeave(Append(q, m))
           /\ Ann(Append(q, m)) <=> Ann(q) \/ Announces(m)
           /\ \A l, k : Never(q, l, k) /\ m # k => Never(Append(q, m), l, k)
           /\ \A l, k, S : Wave(l) /\ Only(q, S) /\ l \notin S =>
                Never(q, l, k) /\ Never(Append(q, m), l, k)
<1> DEFINE r == Append(q, m)
<1>1. /\ r \in Seq(Message) /\ Len(q) \in Nat /\ Len(r) = Len(q) + 1
      /\ \A i \in 1 .. Len(q) : i \in 1 .. Len(r) /\ r[i] = q[i]
      /\ \A i \in 1 .. Len(r) : i \in 1 .. Len(q) \/ i = Len(q) + 1
      /\ Len(q) + 1 \in 1 .. Len(r) /\ r[Len(q) + 1] = m
  BY AppendProperties
<1> HIDE DEF r
<1>2. \A S : Only(r, S) <=> Only(q, S) /\ (Wave(m) => m \in S)
  BY <1>1 DEF Only
<1>3. ASSUME Proper(q), Announces(m) => ~Ann(q) /\ Only(q, {})
      PROVE  Proper(r)
  <2> SUFFICES ASSUME NEW i \in 1 .. Len(r), NEW j \in 1 .. Len(r), i < j, Announces(r[j])
               PROVE  ~Announces(r[i]) /\ ~Wave(r[i])
    BY DEF Proper
  <2>1. i \in 1 .. Len(q) /\ r[i] = q[i]
    BY <1>1
  <2>2. CASE j \in 1 .. Len(q)
    BY <1>1, <1>3, <2>1, <2>2 DEF Proper
  <2>3. CASE j = Len(q) + 1
    BY <1>1, <1>3, <2>1, <2>3 DEF Ann, Only
  <2> QED BY <1>1, <2>2, <2>3
<1>4. NoLeave(q) /\ m.type # "LEAVE" => NoLeave(r)
  BY <1>1 DEF NoLeave
<1>5. Ann(r) <=> Ann(q) \/ Announces(m)
  BY AppendSays DEF r
<1>6. \A l, k : Never(q, l, k) /\ m # k => Never(r, l, k)
  BY <1>1 DEF Never
<1>7. ASSUME NEW l, NEW k, NEW S, Wave(l), Only(q, S), l \notin S
      PROVE  Never(q, l, k) /\ Never(r, l, k)
  <2>1. \A i \in 1 .. Len(q) : q[i] # l
    BY <1>7 DEF Only
  <2>2. Never(q, l, k)
    BY <2>1 DEF Never
  <2>3. Never(r, l, k)
    <3> SUFFICES ASSUME NEW i \in 1 .. Len(r), NEW j \in 1 .. Len(r), i < j, r[i] = l
                 PROVE  FALSE
      BY DEF Never
    <3>1. i \in 1 .. Len(q)
      BY <1>1
    <3> QED BY <1>1, <2>1, <3>1
  <2> QED BY <2>2, <2>3
<1> QED BY <1>1, <1>2, <1>3, <1>4, <1>5, <1>6, <1>7 DEF r

LEMMA TailWaves ==
    ASSUME NEW q \in Seq(Message), q # <<>>
    PROVE  /\ Tail(q) \in Seq(Message)
           /\ \A S : Only(q, S) <=> Only(Tail(q), S) /\ (Wave(Head(q)) => Head(q) \in S)
           /\ Proper(q) => Proper(Tail(q)) /\
                (Announces(Head(q)) \/ Wave(Head(q)) => ~Ann(Tail(q)))
           /\ NoLeave(q) => NoLeave(Tail(q)) /\ Head(q).type # "LEAVE"
           /\ Ann(q) <=> Announces(Head(q)) \/ Ann(Tail(q))
           /\ \A l, k : Never(q, l, k) => Never(Tail(q), l, k)
           /\ \A l, k, S : Never(q, l, k) /\ Head(q) = l /\ Only(q, S) => Only(Tail(q), S \ {k})
<1> DEFINE t == Tail(q)
           h == Head(q)
<1>1. /\ t \in Seq(Message) /\ Len(q) \in Nat /\ Len(q) > 0 /\ Len(t) = Len(q) - 1
      /\ h = q[1] /\ 1 \in 1 .. Len(q)
      /\ \A i \in 1 .. Len(t) : i + 1 \in 1 .. Len(q) /\ 1 < i + 1 /\ t[i] = q[i + 1]
      /\ \A i \in 1 .. Len(q) : i = 1 \/ (i - 1 \in 1 .. Len(t) /\ t[i - 1] = q[i])
  BY HeadTailProperties
<1> HIDE DEF t, h
<1>2. \A S : Only(q, S) <=> Only(t, S) /\ (Wave(h) => h \in S)
  BY <1>1 DEF Only
<1>3. ASSUME Proper(q)
      PROVE  Proper(t) /\ (Announces(h) \/ Wave(h) => ~Ann(t))
  <2>1. Proper(t)
    <3> SUFFICES ASSUME NEW i \in 1 .. Len(t), NEW j \in 1 .. Len(t), i < j, Announces(t[j])
                 PROVE  ~Announces(t[i]) /\ ~Wave(t[i])
      BY DEF Proper
    <3>1. i + 1 < j + 1 /\ i + 1 \in 1 .. Len(q) /\ j + 1 \in 1 .. Len(q)
      BY <1>1
    <3>2. t[i] = q[i + 1] /\ t[j] = q[j + 1]
      BY <1>1
    <3> QED BY <1>3, <3>1, <3>2 DEF Proper
  <2>2. Announces(h) \/ Wave(h) => ~Ann(t)
    BY <1>1, <1>3 DEF Proper, Ann
  <2> QED BY <2>1, <2>2
<1>4. NoLeave(q) => NoLeave(t) /\ h.type # "LEAVE"
  BY <1>1 DEF NoLeave
<1>5. Ann(q) <=> Announces(h) \/ Ann(t)
  BY TailSays DEF t, h
<1>6. ASSUME NEW l, NEW k, Never(q, l, k)
      PROVE  Never(t, l, k)
  <2> SUFFICES ASSUME NEW i \in 1 .. Len(t), NEW j \in 1 .. Len(t), i < j, t[i] = l
               PROVE  t[j] # k
    BY DEF Never
  <2>1. i + 1 < j + 1 /\ i + 1 \in 1 .. Len(q) /\ j + 1 \in 1 .. Len(q)
    BY <1>1
  <2>2. t[i] = q[i + 1] /\ t[j] = q[j + 1]
    BY <1>1
  <2> QED BY <1>6, <2>1, <2>2 DEF Never
<1>7. ASSUME NEW l, NEW k, NEW S, Never(q, l, k), h = l, Only(q, S)
      PROVE  Only(t, S \ {k})
  <2>1. \A i \in 1 .. Len(t) : t[i] # k
    BY <1>1, <1>7 DEF Never
  <2>2. Only(t, S)
    BY <1>2, <1>7
  <2> QED BY <2>1, <2>2 DEF Only
<1> QED BY <1>1, <1>2, <1>3, <1>4, <1>5, <1>6, <1>7 DEF t, h

-----------------------------------------------------------------------------
(* What a step does between two nodes *)

\* Two contestants that run, while nobody left.
Pair(J, n, p) ==
    /\ Well(J) /\ J = own
    /\ n # p /\ Node = {n, p} /\ Node \subseteq live /\ contest = {n, p}
    /\ Heard(n, p) /\ Heard(p, n)

\* r is x's queue to y, as it is or with a greeting behind it.
Greets(x, y, r) ==
    \/ r = net[x][y]
    \/ \E m \in Message :
        /\ r = Append(net[x][y], m)
        /\ ~Wave(m) /\ m.type # "LEAVE"
        /\ Announces(m) => /\ ~Ann(net[x][y]) /\ Only(net[x][y], {})
                           /\ x \notin peers[y] /\ ~(x \in own /\ y \in known[x])

\* Nobody asks, votes, or hears of a member; who joins or meets is announced.
Chats(x, y) ==
    /\ \/ Greets(x, y, net'[x][y])
       \/ /\ net[x][y] # <<>> /\ net'[x][y] = Tail(net[x][y])
          /\ ~Wave(Head(net[x][y])) /\ ~Announces(Head(net[x][y]))
    /\ x \in own' /\ y \in known'[x] =>
         (x \in own /\ y \in known[x]) \/ Ann(net'[x][y])

Chatting(n, p) ==
    /\ Chats(n, p) /\ Chats(p, n) /\ UNCHANGED <<election, told, peers>>
    /\ own \subseteq own' /\ (Calm' => Calm /\ own' = own)

\* n takes a message of p.
Takes(n, p) ==
    /\ net[p][n] # <<>> /\ net'[p][n] = Tail(net[p][n])
    /\ election'[p] = election[p] /\ told'[p] = told[p] /\ peers'[p] = peers[p]
    /\ known'[p] = known[p] /\ own' = own /\ (Calm' => Calm)

\* n hears that p is a member: if n is one, it stands.
Hears(n, p) ==
    /\ Takes(n, p) /\ Announces(Head(net[p][n])) /\ p \in own /\ n \in known[p]
    /\ peers'[n] = {p} /\ told'[n] = told[n]
    /\ \E r :
        /\ Greets(n, p, r)
        /\ n \in own => p \in known[n] \/ Ann(r)
        /\ IF n \in own
           THEN /\ net'[n][p] = Append(r, Elect(n))
                /\ Stands(n, n)' /\ election'[n].erec = 0
           ELSE net'[n][p] = r /\ election'[n] = election[n]

\* n votes for c, or has a better candidate.
Votes(n, p, c) ==
    /\ Takes(n, p) /\ Head(net[p][n]) = Elect(c) /\ p \in peers[n]
    /\ told'[n] = told[n] /\ peers'[n] = peers[n] /\ known'[n] = known[n]
    /\ \/ /\ net'[n][p] = net[n][p] /\ election'[n] = election[n]
          /\ Open(n) /\ election[n].caw < c
       \/ /\ Open(n)' /\ election'[n].caw = c /\ (Open(n) => c <= election[n].caw)
          /\ \/ net'[n][p] = net[n][p]
             \/ c = n /\ net'[n][p] = Append(net[n][p], Leader(n))
             \/ c # n /\ net'[n][p] = Append(net[n][p], Elect(c))

\* n hears that w leads.
Closes(n, p, w) ==
    /\ Takes(n, p) /\ Head(net[p][n]) = Leader(w) /\ p \in peers[n]
    /\ peers'[n] = peers[n] /\ known'[n] = known[n]
    /\ \/ /\ net'[n][p] = net[n][p] /\ election'[n] = election[n] /\ told'[n] = told[n]
          /\ ~Open(n)
       \/ /\ Open(n)
          /\ \/ net'[n][p] = net[n][p]
             \/ w # n /\ net'[n][p] = Append(net[n][p], Leader(w))
          /\ \/ ~Open(n)' /\ told'[n] = w
             \/ /\ Open(n)' /\ election'[n].caw = election[n].caw
                /\ told'[n] = told[n]

\* n sends its vote, or that it won, again.
Resends(n, p) ==
    /\ UNCHANGED <<election, told, peers, known, own>> /\ (Calm' => Calm)
    /\ Open(n) /\ net'[p][n] = net[p][n]
    /\ \/ net'[n][p] = Append(net[n][p], Elect(election[n].caw))
       \/ /\ Stands(n, n) /\ election[n].erec > 0
          /\ net'[n][p] = Append(net[n][p], Leader(n))

LEMMA PairSays ==
    ASSUME NEW J, NEW n \in Node, NEW p \in Node, Pair(J, n, p)
    PROVE  /\ Pair(J, p, n)
           /\ net \in Matrix /\ net[n][p] \in Seq(Message) /\ net[p][n] \in Seq(Message)
           /\ Met(n, p) /\ Met(p, n)
           /\ peers[n] \subseteq {p}
           /\ peers[n] \subseteq own /\ peers[n] \subseteq ready[n] /\ ready[n] \subseteq known[n]
           /\ n \notin own => Only(net[n][p], {}) /\ ~Ann(net[n][p])
<1>1. Pair(J, p, n)
  BY DEF Pair
<1>2. net \in Matrix /\ net[n][p] \in Seq(Message) /\ net[p][n] \in Seq(Message)
  BY WellSays DEF Pair, Matrix
<1>3. Met(n, p) /\ Met(p, n)
  BY DEF Pair, Well, Waking
<1>4. /\ peers[n] \subseteq {p} /\ peers[n] \subseteq own
      /\ peers[n] \subseteq ready[n] /\ ready[n] \subseteq known[n]
  BY DEF Pair, Well, Fine, TablesOk, Tables
<1>5. ASSUME n \notin own
      PROVE  Only(net[n][p], {}) /\ ~Ann(net[n][p])
  <2>1. \A i \in 1 .. Len(net[n][p]) : Honest(net[n][p][i], n, p, own, contest)
    BY DEF Pair, Well, Fine, Links
  <2>2. \A m : Honest(m, n, p, own, contest) => ~Wave(m) /\ ~Announces(m)
    BY <1>5, Zenon DEF Honest, Wave, Announces
  <2> QED BY <2>1, <2>2 DEF Only, Ann
<1> QED BY <1>1, <1>2, <1>3, <1>4, <1>5

\* Who greets first was not heard before.
LEMMA HelloGreets ==
    ASSUME NEW J, NEW n \in Node, NEW p \in Node, Pair(J, n, p), p \notin known[n]
    PROVE  LET r == Append(net[n][p], Hello(n \in own))
           IN  Greets(n, p, r) /\ (n \in own => Ann(r))
<1> DEFINE m == Hello(n \in own)
<1>1. m.type = "HELLO" /\ (Announces(m) <=> n \in own) /\ m \in Message
  <2>1. (n \in own) \in BOOLEAN
    OBVIOUS
  <2> QED BY <2>1, MessageSays, MessageKinds, Zenon
<1>2. ~Wave(m)
  BY <1>1 DEF Wave
<1> HIDE DEF m
<1>3. net[n][p] = <<>> /\ n \notin ready[p] /\ net[n][p] \in Seq(Message)
  BY PairSays DEF Met
<1>4. n \notin peers[p]
  BY <1>3, PairSays DEF Pair
<1>5. ~Ann(net[n][p]) /\ Only(net[n][p], {})
  BY <1>3, EmptyWaves
<1>6. n \in own => Ann(Append(net[n][p], m))
  BY <1>1, <1>3, AppendWaves
<1> QED BY <1>1, <1>2, <1>4, <1>5, <1>6 DEF Greets, m

LEMMA DiscoverChats ==
    ASSUME NEW J, NEW n \in Node, NEW p \in Node, Pair(J, n, p), Discover(n, p)
    PROVE  Chatting(n, p)
<1>1. /\ p \notin known[n] /\ known' = [known EXCEPT ![n] = @ \cup {p}]
      /\ net' = Send(net, n, {p}, Hello(n \in own))
      /\ UNCHANGED <<own, election, told, peers, spent>>
  BY DEF Discover, ballot
<1>2. Hello(n \in own) \in Message /\ net \in Matrix /\ n # p /\ p \in live
  BY HelloHonest, PairSays DEF Pair, Well, Fine
<1>3. net'[n][p] = Append(net[n][p], Hello(n \in own)) /\ net'[p][n] = net[p][n]
  <2>1. \A r, q \in Node : net'[r][q] = IF r = n /\ q \in {p} \cap live
                                        THEN Append(net[r][q], Hello(n \in own)) ELSE net[r][q]
    BY <1>1, <1>2, SendSays
  <2> QED BY <1>2, <2>1
<1>4. known'[p] = known[p]
  BY <1>1, <1>2 DEF Pair, Well, Fine, TablesOk, Tables
<1>5. Chats(n, p)
  BY <1>1, <1>3, HelloGreets DEF Chats
<1>6. Chats(p, n)
  BY <1>1, <1>3, <1>4 DEF Chats, Greets
<1> QED BY <1>1, <1>5, <1>6 DEF Chatting, Calm

LEMMA JoinChats ==
    ASSUME NEW J, NEW n \in Node, NEW p \in Node, Pair(J, n, p), JoinGroup(n)
    PROVE  Chatting(n, p)
<1>1. /\ n \notin own /\ own' = own \cup {n} /\ net' = Send(net, n, known[n], Join)
      /\ UNCHANGED <<known, peers, election, told>> /\ ~Calm'
  BY CalmEnds DEF JoinGroup, table, ballot, Pair, Well
<1>2. Join \in Message /\ net \in Matrix /\ n # p /\ p \in live
  BY PairSays, MessageKinds DEF Pair
<1>3. /\ net'[n][p] = IF p \in known[n] THEN Append(net[n][p], Join) ELSE net[n][p]
      /\ net'[p][n] = net[p][n]
  BY <1>1, <1>2, SendSays
<1>4. Only(net[n][p], {}) /\ ~Ann(net[n][p]) /\ n \notin peers[p] /\ net[n][p] \in Seq(Message)
  BY <1>1, PairSays DEF Pair
<1>5. ~Wave(Join) /\ Announces(Join) /\ Join.type = "JOIN"
  BY MessageSays
<1>6. Greets(n, p, net'[n][p])
  BY <1>1, <1>2, <1>3, <1>4, <1>5 DEF Greets
<1>7. p \in known[n] => Ann(net'[n][p])
  BY <1>2, <1>3, <1>4, <1>5, AppendWaves
<1>8. Chats(n, p)
  BY <1>1, <1>6, <1>7 DEF Chats
<1>9. Chats(p, n)
  BY <1>1, <1>2, <1>3 DEF Chats, Greets
<1> QED BY <1>1, <1>8, <1>9 DEF Chatting

\* The links between the two after n took a message of p.
LEMMA PairTaken ==
    ASSUME NEW J, NEW n \in Node, NEW p \in Node, Pair(J, n, p), net[p][n] # <<>>
    PROVE  /\ Taken(n, p) \in Matrix /\ Head(net[p][n]) \in Message
           /\ Taken(n, p)[p][n] = Tail(net[p][n]) /\ Taken(n, p)[n][p] = net[n][p]
<1>1. Taken(n, p) \in Matrix /\ Head(net[p][n]) \in Message /\ p # n
  BY TakenWell DEF Pair
<1>2. \A r, q \in Node :
        Taken(n, p)[r][q] = IF r = p /\ q = n THEN Tail(net[p][n]) ELSE net[r][q]
  BY PairSays, TakenSays
<1> QED BY <1>1, <1>2

\* The group starts an election at n, which has the peer p.
LEMMA PairStart ==
    ASSUME NEW J, NEW n \in Node, NEW p \in Node, Pair(J, n, p),
           NEW L \in Matrix, Start(n, {p}, L)
    PROVE  /\ election'[p] = election[p] /\ told' = told
           /\ net'[p] = L[p]
           /\ IF n \in own
              THEN /\ net'[n][p] = Append(L[n][p], Elect(n))
                   /\ Stands(n, n)' /\ election'[n].erec = 0
              ELSE net' = L /\ election' = election
<1>1. n \in contest /\ n # p /\ p \in live
  BY DEF Pair
<1>2. CASE n \notin own
  BY <1>2 DEF Start, ballot
<1>3. CASE n \in own
  <2>1. /\ election' = [election EXCEPT ![n] = [caw |-> n, father |-> None, erec |-> 0, lrec |-> 0]]
        /\ net' = Send(L, n, {p}, Elect(n)) /\ told' = told
    BY <1>1, <1>3 DEF Start
  <2>2. election \in [Node -> Election \cup {NoElection}]
    BY DEF Pair, Well, Fine, BallotsOk, Ballots
  <2>3. net'[n][p] = Append(L[n][p], Elect(n)) /\ net'[p] = L[p]
    BY <1>1, <2>1 DEF Send, Matrix
  <2>4. election'[p] = election[p] /\ Stands(n, n)' /\ election'[n].erec = 0
    BY <1>1, <2>1, <2>2, NoneAssumption DEF Stands, Open, NoElection
  <2> QED BY <1>3, <2>1, <2>3, <2>4
<1> QED BY <1>2, <1>3

\* Who announces itself is a member, and who gets a wave too.
LEMMA PairHonest ==
    ASSUME NEW J, NEW n \in Node, NEW p \in Node, Pair(J, n, p), net[p][n] # <<>>
    PROVE  /\ Announces(Head(net[p][n])) \/ Wave(Head(net[p][n])) => p \in own
           /\ Wave(Head(net[p][n])) => n \in own
<1>1. Honest(Head(net[p][n]), p, n, own, contest)
  BY TakenKeeps DEF Pair, Well, Fine
<1> QED BY <1>1, Zenon DEF Honest, Announces, Wave

\* n hears that p is a member, r being its queue to p when it does.
LEMMA StartHears ==
    ASSUME NEW J, NEW n \in Node, NEW p \in Node, Pair(J, n, p),
           net[p][n] # <<>>, Announces(Head(net[p][n])), n \in known[p],
           UNCHANGED <<own, contest, spent>>, known'[p] = known[p],
           peers' = [peers EXCEPT ![n] = {p}],
           NEW L \in Matrix, L[p][n] = Tail(net[p][n]), Greets(n, p, L[n][p]),
           n \in own => p \in known[n] \/ Ann(L[n][p]), Start(n, {p}, L)
    PROVE  Hears(n, p)
<1>1. peers'[n] = {p} /\ peers'[p] = peers[p]
  BY DEF Pair, Well, Fine, TablesOk, Tables
<1>2. p \in own
  BY PairHonest
<1>3. /\ election'[p] = election[p] /\ told' = told /\ net'[p] = L[p]
      /\ n \in own => /\ net'[n][p] = Append(L[n][p], Elect(n))
                      /\ Stands(n, n)' /\ election'[n].erec = 0
      /\ n \notin own => net' = L /\ election' = election
  BY PairStart
<1>4. Calm' => Calm
  BY DEF Calm
<1>5. Takes(n, p)
  BY <1>1, <1>3, <1>4 DEF Takes
<1>6. IF n \in own
      THEN /\ net'[n][p] = Append(L[n][p], Elect(n))
           /\ Stands(n, n)' /\ election'[n].erec = 0
      ELSE net'[n][p] = L[n][p] /\ election'[n] = election[n]
  BY <1>3
<1> QED BY <1>1, <1>2, <1>3, <1>5, <1>6 DEF Hears

LEMMA RecvHelloPair ==
    ASSUME NEW J, NEW n \in Node, NEW p \in Node, Pair(J, n, p), RecvHello(n, p)
    PROVE  Chatting(n, p) \/ Hears(n, p)
<1> DEFINE m == Head(net[p][n])
           r == IF p \in known[n] THEN Taken(n, p)
                ELSE Send(Taken(n, p), n, {p}, Hello(n \in own))
           grown == peers[n] \cup {p}
<1>1. net[p][n] # <<>> /\ m.type = "HELLO" /\ UNCHANGED <<own, contest, spent>>
  BY DEF RecvHello, Take
<1>2. /\ p \notin ready[n] /\ n \in known[p] /\ n # p
      /\ known \in [Node -> SUBSET Node] /\ peers \in [Node -> SUBSET Node] /\ grown = {p}
  <2>1. p \notin ready[n] /\ n \in known[p]
    BY <1>1, PairSays, TailSays DEF Met
  <2>2. known \in [Node -> SUBSET Node] /\ peers \in [Node -> SUBSET Node]
    BY DEF Pair, Well, Fine, TablesOk, Tables
  <2>3. n # p /\ grown = {p}
    BY PairSays DEF Pair
  <2> QED BY <2>1, <2>2, <2>3
<1>3. /\ known' = [known EXCEPT ![n] = @ \cup {p}]
      /\ IF m.in THEN peers' = [peers EXCEPT ![n] = grown] /\ Start(n, grown, r)
         ELSE net' = r /\ UNCHANGED <<peers, ballot>>
  BY <1>2 DEF RecvHello
<1>4. /\ known'[p] = known[p]
      /\ m.in => peers'[p] = peers[p] /\ peers'[n] = {p}
  BY <1>2, <1>3
<1>5. Hello(n \in own) \in Message
  BY HelloHonest DEF Pair, Well, Fine
<1>6. /\ r \in Matrix /\ r[p][n] = Tail(net[p][n])
      /\ r[n][p] = IF p \in known[n] THEN net[n][p] ELSE Append(net[n][p], Hello(n \in own))
  <2> DEFINE h == Hello(n \in own)
             a == Send(Taken(n, p), n, {p}, h)
  <2>1. h \in Message
    BY <1>5
  <2> HIDE DEF h
  <2>2. /\ Taken(n, p) \in Matrix
        /\ Taken(n, p)[p][n] = Tail(net[p][n]) /\ Taken(n, p)[n][p] = net[n][p]
    BY <1>1, PairTaken
  <2>3. a \in Matrix /\ a[p][n] = Tail(net[p][n]) /\ a[n][p] = Append(net[n][p], h)
    <3>1. PICK R : R = a
      OBVIOUS
    <3>2. R \in Matrix
      BY <2>1, <2>2, <3>1, SendSays
    <3>3. \A x, q \in Node : R[x][q] = IF x = n /\ q \in {p} \cap live
                                      THEN Append(Taken(n, p)[x][q], h) ELSE Taken(n, p)[x][q]
      BY <2>1, <2>2, <3>1, SendSays
    <3>4. n # p /\ p \in live
      BY DEF Pair
    <3>5. R[p][n] = Tail(net[p][n]) /\ R[n][p] = Append(net[n][p], h)
      BY <2>2, <3>3, <3>4
    <3> QED BY <3>1, <3>2, <3>5
  <2>4. r = IF p \in known[n] THEN Taken(n, p) ELSE a
    BY DEF h
  <2> HIDE DEF r, a
  <2>5. r[n][p] = IF p \in known[n] THEN net[n][p] ELSE Append(net[n][p], h)
    BY <2>2, <2>3, <2>4
  <2> QED BY <2>2, <2>3, <2>4, <2>5 DEF h
<1> HIDE DEF r
<1>7. Greets(n, p, r[n][p]) /\ (n \in own => p \in known[n] \/ Ann(r[n][p]))
  <2>1. CASE p \in known[n]
    BY <1>6, <2>1 DEF Greets
  <2>2. CASE p \notin known[n]
    BY <1>6, <2>2, HelloGreets
  <2> QED BY <2>1, <2>2
<1>8. CASE ~m.in
  <2>1. ~Announces(m) /\ ~Wave(m)
    BY <1>1, <1>8, Zenon DEF Announces, Wave
  <2>2. net' = r /\ UNCHANGED <<peers, ballot>>
    BY <1>3, <1>8
  <2>3. Chats(n, p) /\ Chats(p, n)
    BY <1>1, <1>2, <1>4, <1>6, <1>7, <2>1, <2>2 DEF Chats
  <2> QED BY <1>1, <2>2, <2>3 DEF Chatting, ballot, Calm
<1>9. CASE m.in
  <2>1. Announces(m)
    BY <1>1, <1>9, Zenon DEF Announces
  <2>2. Start(n, {p}, r) /\ peers' = [peers EXCEPT ![n] = {p}]
    BY <1>2, <1>3, <1>9
  <2> QED BY <1>1, <1>2, <1>4, <1>6, <1>7, <2>1, <2>2, StartHears
<1> QED BY <1>8, <1>9

LEMMA RecvJoinPair ==
    ASSUME NEW J, NEW n \in Node, NEW p \in Node, Pair(J, n, p), RecvJoin(n, p)
    PROVE  Hears(n, p)
<1> DEFINE m == Head(net[p][n])
           r == Taken(n, p)
           grown == peers[n] \cup {p}
<1>1. /\ net[p][n] # <<>> /\ m.type = "JOIN" /\ p \in ready[n]
      /\ peers' = [peers EXCEPT ![n] = grown] /\ Start(n, grown, r)
      /\ UNCHANGED <<own, contest, spent>> /\ known' = known
  BY DEF RecvJoin, Take, table
<1>2. grown = {p} /\ p \in known[n] /\ n \in known[p]
  BY <1>1, PairSays DEF Met
<1>3. r \in Matrix /\ r[p][n] = Tail(net[p][n]) /\ r[n][p] = net[n][p]
  BY <1>1, PairTaken
<1>4. Announces(m)
  BY <1>1 DEF Announces
<1> HIDE DEF r
<1>5. Greets(n, p, r[n][p])
  BY <1>3 DEF Greets
<1>6. Start(n, {p}, r) /\ peers' = [peers EXCEPT ![n] = {p}]
  BY <1>1, <1>2
<1> QED BY <1>1, <1>2, <1>3, <1>4, <1>5, <1>6, StartHears

\* A wave comes from a peer of the group, to whom it names itself by its type.
LEMMA WaveHead ==
    ASSUME NEW J, NEW n \in Node, NEW p \in Node, Pair(J, n, p),
           net[p][n] # <<>>, p \in ready[n], Wave(Head(net[p][n]))
    PROVE  /\ peers[n] = {p} /\ p \in own /\ n \in own
           /\ Head(net[p][n]).id \in Node
           /\ Head(net[p][n]).type = "ELECT" => Head(net[p][n]) = Elect(Head(net[p][n]).id)
           /\ Head(net[p][n]).type = "LEADER" => Head(net[p][n]) = Leader(Head(net[p][n]).id)
<1> DEFINE m == Head(net[p][n])
<1>1. m \in Message /\ m.id \in Node /\ p \in own /\ n \in own
  BY TakenWell, PairHonest DEF Pair
<1>2. n \in known[p] /\ net[p][n] \in Seq(Message)
  BY PairSays DEF Met
<1>3. ~Announces(m)
  BY <1>1, WaveSays
<1>4. ~Ann(net[p][n])
  BY <1>2, <1>3, TailWaves DEF Pair, Heard
<1>5. peers[n] = {p}
  BY <1>1, <1>2, <1>4, PairSays DEF Pair, Heard
<1>6. /\ m.type = "ELECT" => m = Elect(m.id)
      /\ m.type = "LEADER" => m = Leader(m.id)
  BY <1>1 DEF Message, Elect, Leader, Join, Leave
<1> QED BY <1>1, <1>5, <1>6

LEMMA RecvElectPair ==
    ASSUME NEW J, NEW n \in Node, NEW p \in Node, Pair(J, n, p), RecvElect(n, p)
    PROVE  Votes(n, p, Head(net[p][n]).id)
<1> DEFINE c == Head(net[p][n]).id
           joins == Superior(n, c)
           base == IF joins THEN [caw |-> c, father |-> p, erec |-> 0, lrec |-> 0]
                   ELSE election[n]
           e == [base EXCEPT !.erec = More(@)]
           L == Taken(n, p)
           passed == IF joins THEN Send(L, n, peers[n] \ {p}, Elect(c)) ELSE L
           echoed == IF e.caw = n THEN Send(passed, n, peers[n], Leader(n))
                     ELSE IF e.father \in known[n]
                     THEN Send(passed, n, {e.father}, Elect(c))
                     ELSE passed
<1>1. /\ net[p][n] # <<>> /\ Head(net[p][n]).type = "ELECT" /\ p \in ready[n]
      /\ UNCHANGED <<own, contest, spent, leader, told, peers>> /\ known' = known
      /\ \/ c # base.caw /\ net' = L /\ UNCHANGED election
         \/ /\ c = base.caw
            /\ election' = [election EXCEPT ![n] = e]
            /\ net' = passed \/ net' = echoed
  BY DEF RecvElect, Take, table
<1>2. peers[n] = {p} /\ c \in Node /\ Head(net[p][n]) = Elect(c)
  BY <1>1, WaveHead DEF Wave
<1>3. /\ L \in Matrix /\ L[p][n] = Tail(net[p][n]) /\ L[n][p] = net[n][p]
      /\ n # p /\ p \in live /\ n \in Node /\ p \in Node
  BY <1>1, PairTaken DEF Pair
<1>4. Elect(c) \in Message /\ Leader(n) \in Message
  BY <1>2, MessageKinds
<1>5. election \in [Node -> Election \cup {NoElection}]
  BY DEF Pair, Well, Fine, BallotsOk, Ballots
<1>6. joins => base.caw = c
  OBVIOUS
<1>7. /\ ~joins => base = election[n] /\ Open(n) /\ ~(c < election[n].caw)
      /\ Open(n) => election[n].caw \in Nat /\ election[n] \in Election
      /\ joins /\ Open(n) => c < election[n].caw
      /\ c \in Nat
  BY <1>2, <1>5, NodeAssumption DEF Superior, Open, Election
<1>8. e.caw = base.caw
  BY <1>7 DEF Election
<1> HIDE DEF L, base, joins, c
<1>9. /\ passed \in Matrix /\ passed[p][n] = Tail(net[p][n]) /\ passed[n][p] = net[n][p]
  <2>1. CASE joins
    <3>1. passed \in Matrix
      BY <1>3, <1>4, <2>1, SendSays
    <3>2. \A x, q \in Node : passed[x][q] = IF x = n /\ q \in (peers[n] \ {p}) \cap live
                                           THEN Append(L[x][q], Elect(c)) ELSE L[x][q]
      BY <1>3, <1>4, <2>1, SendSays
    <3> HIDE DEF passed
    <3> QED BY <1>3, <3>1, <3>2
  <2>2. CASE ~joins
    BY <1>3, <2>2
  <2> QED BY <2>1, <2>2
<1> HIDE DEF passed, e
<1>10. /\ echoed[p][n] = Tail(net[p][n])
       /\ \/ echoed[n][p] = net[n][p]
          \/ e.caw = n /\ echoed[n][p] = Append(net[n][p], Leader(n))
          \/ e.caw # n /\ echoed[n][p] = Append(net[n][p], Elect(c))
  <2>1. CASE e.caw = n
    <3>1. \A x, q \in Node : echoed[x][q] = IF x = n /\ q \in peers[n] \cap live
                                           THEN Append(passed[x][q], Leader(n)) ELSE passed[x][q]
      BY <1>3, <1>4, <1>9, <2>1, SendSays
    <3> HIDE DEF echoed
    <3> QED BY <1>2, <1>3, <1>9, <2>1, <3>1
  <2>2. CASE e.caw # n /\ e.father \in known[n]
    <3>1. \A x, q \in Node : echoed[x][q] = IF x = n /\ q \in {e.father} \cap live
                                           THEN Append(passed[x][q], Elect(c)) ELSE passed[x][q]
      BY <1>3, <1>4, <1>9, <2>2, SendSays
    <3> HIDE DEF echoed
    <3> QED BY <1>2, <1>3, <1>9, <2>2, <3>1
  <2>3. CASE e.caw # n /\ e.father \notin known[n]
    BY <1>9, <2>3
  <2> QED BY <2>1, <2>2, <2>3
<1> HIDE DEF echoed
<1>11. Takes(n, p)
  <2>1. net'[p][n] = Tail(net[p][n])
    BY <1>1, <1>3, <1>9, <1>10
  <2>2. election'[p] = election[p]
    BY <1>1, <1>3, <1>5
  <2> QED BY <1>1, <2>1, <2>2 DEF Takes, Calm
<1>12. CASE c # base.caw /\ net' = L /\ UNCHANGED election
  <2>1. Open(n) /\ election[n].caw < c
    BY <1>6, <1>7, <1>12
  <2> QED BY <1>1, <1>2, <1>3, <1>11, <1>12, <2>1 DEF Votes, c
<1>13. CASE /\ c = base.caw
            /\ election' = [election EXCEPT ![n] = e]
            /\ net' = passed \/ net' = echoed
  <2>1. election'[n] = e /\ e.caw = c /\ e # NoElection
    BY <1>2, <1>5, <1>8, <1>13, NoneAssumption DEF NoElection, c
  <2>2. Open(n)' /\ election'[n].caw = c
    BY <2>1 DEF Open
  <2>3. Open(n) => c <= election[n].caw
    BY <1>7, <1>13
  <2>4. \/ net'[n][p] = net[n][p]
        \/ c = n /\ net'[n][p] = Append(net[n][p], Leader(n))
        \/ c # n /\ net'[n][p] = Append(net[n][p], Elect(c))
    BY <1>9, <1>10, <1>13, <2>1
  <2> QED BY <1>1, <1>2, <1>11, <2>2, <2>3, <2>4 DEF Votes, c
<1> QED BY <1>1, <1>12, <1>13

LEMMA RecvLeaderPair ==
    ASSUME NEW J, NEW n \in Node, NEW p \in Node, Pair(J, n, p), RecvLeader(n, p)
    PROVE  Closes(n, p, Head(net[p][n]).id)
<1> DEFINE w == Head(net[p][n]).id
           e == [election[n] EXCEPT !.lrec = More(@)]
           L == Taken(n, p)
           relayed == Send(L, n, peers[n], Leader(w))
<1>1. /\ net[p][n] # <<>> /\ Head(net[p][n]).type = "LEADER" /\ p \in ready[n]
      /\ UNCHANGED <<own, contest, spent, peers>> /\ known' = known
      /\ IF ~Open(n) THEN net' = L /\ UNCHANGED ballot
         ELSE /\ net' = IF Relays(n, w) THEN relayed ELSE L
              /\ \/ Finish(n, w)
                 \/ election' = [election EXCEPT ![n] = e] /\ UNCHANGED <<leader, told>>
  BY DEF RecvLeader, Take, table
<1>2. peers[n] = {p} /\ w \in Node /\ Head(net[p][n]) = Leader(w)
  BY <1>1, WaveHead DEF Wave
<1>3. /\ L \in Matrix /\ L[p][n] = Tail(net[p][n]) /\ L[n][p] = net[n][p]
      /\ n # p /\ p \in live /\ n \in Node /\ p \in Node
  BY <1>1, PairTaken DEF Pair
<1>4. Leader(w) \in Message
  BY <1>2, MessageKinds
<1>5. /\ election \in [Node -> Election \cup {NoElection}]
      /\ told \in [Node -> Node \cup {None}]
  BY DEF Pair, Well, Fine, BallotsOk, Ballots
<1> HIDE DEF L, w
<1>6. /\ relayed[p][n] = Tail(net[p][n])
      /\ relayed[n][p] = Append(net[n][p], Leader(w))
  <2>1. \A x, q \in Node : relayed[x][q] = IF x = n /\ q \in peers[n] \cap live
                                          THEN Append(L[x][q], Leader(w)) ELSE L[x][q]
    BY <1>3, <1>4, SendSays
  <2> HIDE DEF relayed
  <2> QED BY <1>2, <1>3, <2>1
<1> HIDE DEF relayed
<1>7. /\ net'[p][n] = Tail(net[p][n])
      /\ \/ net'[n][p] = net[n][p]
         \/ Open(n) /\ w # n /\ net'[n][p] = Append(net[n][p], Leader(w))
  BY <1>1, <1>3, <1>6 DEF Relays
<1>8. CASE ~Open(n)
  <2>1. net' = L /\ election' = election /\ told' = told
    BY <1>1, <1>8 DEF ballot
  <2> QED BY <1>1, <1>2, <1>3, <1>8, <2>1 DEF Closes, Takes, Calm, w
<1>9. CASE Open(n)
  <2>1. /\ election'[p] = election[p] /\ told'[p] = told[p]
        /\ \/ ~Open(n)' /\ told'[n] = w
           \/ Open(n)' /\ election'[n].caw = election[n].caw /\ told'[n] = told[n]
    <3>1. CASE Finish(n, w)
      BY <1>3, <1>5, <3>1 DEF Finish, Open
    <3>2. CASE election' = [election EXCEPT ![n] = e] /\ UNCHANGED <<leader, told>>
      <4>1. election[n] \in Election /\ election[n].caw \in Node
        BY <1>5, <1>9 DEF Open, Election
      <4>2. e.caw = election[n].caw
        BY <4>1 DEF Election
      <4> HIDE DEF e
      <4>3. e # NoElection
        BY <4>1, <4>2, NoneAssumption DEF NoElection
      <4> QED BY <1>3, <1>5, <3>2, <4>2, <4>3 DEF Open
    <3> QED BY <1>1, <1>9, <3>1, <3>2
  <2> QED BY <1>1, <1>2, <1>7, <1>9, <2>1 DEF Closes, Takes, Calm, w
<1> QED BY <1>8, <1>9

LEMMA MaintainPair ==
    ASSUME NEW J, NEW n \in Node, NEW p \in Node, Pair(J, n, p), Maintain(n)
    PROVE  Resends(n, p) \/ Chatting(n, p)
<1> DEFINE c == election[n].caw
           m == IF Won(n) THEN Leader(n) ELSE Elect(c)
           T == IF c = n THEN peers[n] ELSE peers[n] \ {election[n].father}
<1>1. /\ Open(n) /\ n \in own /\ UNCHANGED <<live, contest, own>>
      /\ known' = known /\ peers' = peers
  BY DEF Maintain, table
<1>2. peers[n] = {p} /\ n # p /\ p \in live
  BY <1>1, PairSays DEF Pair, Heard
<1>3. Calm' => Calm
  <2>1. UNCHANGED spent \/ Charge("early")
    BY <1>2 DEF Maintain
  <2> QED BY <2>1, CalmStays DEF Calm, Pair, Well
<1>4. net' = Send(net, n, T, m) /\ election' = election /\ told' = told
  BY <1>2 DEF Maintain, ballot
<1>5. election[n] \in Election /\ c \in Node
  BY <1>1 DEF Open, Pair, Well, Fine, BallotsOk, Ballots, Election
<1>6. m \in Message
  BY <1>5, MessageKinds
<1>7. m = Elect(c) \/ (m = Leader(n) /\ Stands(n, n) /\ election[n].erec > 0)
  <2>1. CASE Won(n)
    <3>1. election[n].erec \in Nat /\ election[n].erec >= 1
      <4>1. Cardinality(peers[n]) = 1
        BY <1>2, FS_Singleton
      <4>2. election[n].erec \in Nat
        BY <1>5, ManyNat DEF Election
      <4> QED BY <2>1, <4>1, <4>2 DEF Won
    <3> QED BY <1>1, <2>1, <3>1 DEF Won, Stands
  <2>2. CASE ~Won(n)
    BY <2>2
  <2> QED BY <2>1, <2>2
<1> HIDE DEF m, T
<1>8. \A x, q \in Node : net'[x][q] = IF x = n /\ q \in T \cap live
                                     THEN Append(net[x][q], m) ELSE net[x][q]
  <2>1. net \in Matrix
    BY PairSays
  <2> QED BY <1>4, <1>6, <2>1, SendSays
<1>9. net'[p][n] = net[p][n] /\ (net'[n][p] = net[n][p] \/ net'[n][p] = Append(net[n][p], m))
  BY <1>2, <1>8
<1>10. CASE net'[n][p] = net[n][p]
  <2>1. Chats(n, p) /\ Chats(p, n)
    BY <1>1, <1>9, <1>10 DEF Chats, Greets
  <2> QED BY <1>1, <1>3, <1>4, <2>1 DEF Chatting
<1>11. CASE net'[n][p] = Append(net[n][p], m)
  BY <1>1, <1>3, <1>4, <1>7, <1>9, <1>11 DEF Resends
<1> QED BY <1>9, <1>10, <1>11

\* A step after which both still run and nobody left is one of these.
PairSteps(n, p) ==
    \/ Chatting(n, p) \/ Hears(n, p) \/ Resends(n, p)
    \/ \E c : Votes(n, p, c) \/ Closes(n, p, c)

LEMMA RecvPair ==
    ASSUME NEW J, NEW n \in Node, NEW p \in Node, Pair(J, n, p), Receive(n, p)
    PROVE  PairSteps(n, p)
<1>1. CASE RecvHello(n, p)
  BY <1>1, RecvHelloPair DEF PairSteps
<1>2. CASE RecvJoin(n, p)
  BY <1>2, RecvJoinPair DEF PairSteps
<1>3. CASE RecvElect(n, p)
  <2>1. PICK c : c = Head(net[p][n]).id
    OBVIOUS
  <2>2. Votes(n, p, c)
    BY <1>3, <2>1, RecvElectPair
  <2> QED BY <2>2 DEF PairSteps
<1>4. CASE RecvLeader(n, p)
  <2>1. PICK c : c = Head(net[p][n]).id
    OBVIOUS
  <2>2. Closes(n, p, c)
    BY <1>4, <2>1, RecvLeaderPair
  <2> QED BY <2>2 DEF PairSteps
<1>5. ~RecvLeave(n, p)
  BY PairSays, TailWaves DEF RecvLeave, Take, Pair, Heard
<1>6. ~RecvIgnored(n, p)
  <2> SUFFICES ASSUME RecvIgnored(n, p) PROVE FALSE
    OBVIOUS
  <2>1. net[p][n] # <<>> /\ p \notin ready[n] /\ Head(net[p][n]).type # "HELLO"
    BY DEF RecvIgnored, Take
  <2> QED BY <2>1, PairSays, TailSays DEF Met
<1> QED BY <1>1, <1>2, <1>3, <1>4, <1>5, <1>6 DEF Receive

LEMMA NextPair ==
    ASSUME NEW J, NEW n \in Node, NEW p \in Node, Pair(J, n, p),
           [Next]_vars, Node \subseteq live', spent'["leave"] = 0
    PROVE  PairSteps(n, p) \/ PairSteps(p, n)
<1> DEFINE Goal == PairSteps(n, p) \/ PairSteps(p, n)
<1>1. /\ Node = {n, p} /\ Node \subseteq live /\ Pair(J, p, n) /\ Counts
      /\ \A x \in Node : x \notin known[x] /\ known[x] \subseteq Node /\ net[x][x] = <<>>
  BY PairSays DEF Pair, Well, Fine, Links, TablesOk, Tables
<1>2. ASSUME NEW x \in Node, JoinGroup(x) \/ Maintain(x)
      PROVE  Goal
  BY <1>1, <1>2, JoinChats, MaintainPair DEF PairSteps
<1>3. ASSUME NEW x \in Node
      PROVE  ~LeaveGroup(x) /\ ~Depart(x)
  <2>1. ~Depart(x)
    BY DEF Depart
  <2>2. ~LeaveGroup(x)
    BY <1>1, Charged DEF LeaveGroup, Kinds
  <2> QED BY <2>1, <2>2
<1>4. ASSUME NEW x \in Node, NEW y \in Node, Discover(x, y)
      PROVE  Goal
  <2>1. x # y
    BY <1>4 DEF Discover
  <2> QED BY <1>1, <1>4, <2>1, DiscoverChats DEF PairSteps
<1>5. ASSUME NEW x \in Node, NEW y \in Node, Receive(x, y)
      PROVE  Goal
  <2>1. x # y
    BY <1>1, <1>5 DEF Receive, Take, RecvHello, RecvJoin, RecvLeave, RecvIgnored,
                      RecvElect, RecvLeader
  <2> QED BY <1>1, <1>5, <2>1, RecvPair
<1>6. ASSUME NEW x \in Node, NEW y \in Node
      PROVE  ~Remove(x, y)
  BY <1>1 DEF Remove
<1>7. CASE UNCHANGED vars
  BY <1>7 DEF vars, table, ballot, PairSteps, Chatting, Chats, Greets, Calm
<1> QED BY <1>2, <1>3, <1>4, <1>5, <1>6, <1>7 DEF Next

-----------------------------------------------------------------------------
(* Who is heard of *)

\* A wave behind a queue announces nobody.
LEMMA WaveBehind ==
    ASSUME NEW q \in Seq(Message), NEW m \in Message, Wave(m)
    PROVE  /\ Append(q, m) \in Seq(Message)
           /\ Proper(q) => Proper(Append(q, m))
           /\ NoLeave(q) => NoLeave(Append(q, m))
           /\ Ann(Append(q, m)) <=> Ann(q)
           /\ \A S : Only(Append(q, m), S) <=> Only(q, S) /\ m \in S
<1>1. ~Announces(m) /\ m.type # "LEAVE"
  BY WaveSays
<1> QED BY <1>1, AppendWaves

LEMMA GreetsSays ==
    ASSUME NEW x, NEW y, net[x][y] \in Seq(Message), NEW r, Greets(x, y, r),
           Proper(net[x][y]), NoLeave(net[x][y])
    PROVE  /\ r \in Seq(Message) /\ Proper(r) /\ NoLeave(r)
           /\ \A S : Only(r, S) <=> Only(net[x][y], S)
           /\ Ann(net[x][y]) => Ann(r)
           /\ Ann(r) => \/ Ann(net[x][y])
                        \/ x \notin peers[y] /\ ~(x \in own /\ y \in known[x])
           /\ \A l, k : Wave(k) /\ Never(net[x][y], l, k) => Never(r, l, k)
<1>1. CASE r = net[x][y]
  BY <1>1
<1>2. ASSUME NEW m \in Message,
             r = Append(net[x][y], m), ~Wave(m), m.type # "LEAVE",
             Announces(m) => /\ ~Ann(net[x][y]) /\ Only(net[x][y], {})
                             /\ x \notin peers[y] /\ ~(x \in own /\ y \in known[x])
      PROVE  /\ r \in Seq(Message) /\ Proper(r) /\ NoLeave(r)
             /\ \A S : Only(r, S) <=> Only(net[x][y], S)
             /\ Ann(net[x][y]) => Ann(r)
             /\ Ann(r) => \/ Ann(net[x][y])
                          \/ x \notin peers[y] /\ ~(x \in own /\ y \in known[x])
             /\ \A l, k : Wave(k) /\ Never(net[x][y], l, k) => Never(r, l, k)
  <2>1. \A l, k : Wave(k) /\ Never(net[x][y], l, k) => Never(r, l, k)
    BY <1>2, AppendWaves
  <2>2. \A S : Only(r, S) <=> Only(net[x][y], S)
    BY <1>2, AppendWaves
  <2>3. r \in Seq(Message) /\ Proper(r) /\ NoLeave(r) /\ (Ann(r) <=> Ann(net[x][y]) \/ Announces(m))
    BY <1>2, AppendWaves
  <2> QED BY <1>2, <2>1, <2>2, <2>3
<1> QED BY <1>1, <1>2 DEF Greets

LEMMA ChatsSays ==
    ASSUME NEW x, NEW y, net[x][y] \in Seq(Message), Chats(x, y),
           Proper(net[x][y]), NoLeave(net[x][y])
    PROVE  /\ net'[x][y] \in Seq(Message) /\ Proper(net'[x][y]) /\ NoLeave(net'[x][y])
           /\ \A S : Only(net'[x][y], S) <=> Only(net[x][y], S)
           /\ Ann(net[x][y]) => Ann(net'[x][y])
           /\ Ann(net'[x][y]) => \/ Ann(net[x][y])
                                 \/ x \notin peers[y] /\ ~(x \in own /\ y \in known[x])
           /\ \A l, k : Wave(k) /\ Never(net[x][y], l, k) => Never(net'[x][y], l, k)
<1>1. CASE Greets(x, y, net'[x][y])
  BY <1>1, GreetsSays
<1>2. CASE /\ net[x][y] # <<>> /\ net'[x][y] = Tail(net[x][y])
           /\ ~Wave(Head(net[x][y])) /\ ~Announces(Head(net[x][y]))
  <2> DEFINE q == net[x][y]
             r == net'[x][y]
  <2>1. \A S : Only(r, S) <=> Only(q, S)
    BY <1>2, TailWaves
  <2>2. \A l, k : Never(q, l, k) => Never(r, l, k)
    BY <1>2, TailWaves
  <2>3. r \in Seq(Message) /\ Proper(r) /\ NoLeave(r) /\ (Ann(r) <=> Ann(q))
    BY <1>2, TailWaves
  <2> QED BY <2>1, <2>2, <2>3
<1> QED BY <1>1, <1>2 DEF Chats

LEMMA ChattingHeard ==
    ASSUME NEW J, NEW n \in Node, NEW p \in Node, Pair(J, n, p), Chatting(n, p)
    PROVE  Heard(n, p)'
<1>1. Chats(n, p) /\ UNCHANGED <<election, peers>>
  BY DEF Chatting
<1>2. Heard(n, p) /\ net[n][p] \in Seq(Message)
  BY PairSays DEF Pair
<1>3. /\ Proper(net'[n][p]) /\ NoLeave(net'[n][p])
      /\ Ann(net[n][p]) => Ann(net'[n][p])
      /\ Ann(net'[n][p]) => Ann(net[n][p]) \/ n \notin peers[p]
  BY <1>1, <1>2, ChatsSays DEF Heard
<1>4. n \in own' /\ p \in known'[n] => (n \in own /\ p \in known[n]) \/ Ann(net'[n][p])
  BY <1>1 DEF Chats
<1> QED BY <1>1, <1>2, <1>3, <1>4 DEF Heard, Open

LEMMA HearsHeard ==
    ASSUME NEW J, NEW n \in Node, NEW p \in Node, Pair(J, n, p), Hears(n, p)
    PROVE  Heard(n, p)' /\ Heard(p, n)'
<1>1. /\ Heard(n, p) /\ Heard(p, n)
      /\ net[n][p] \in Seq(Message) /\ net[p][n] \in Seq(Message)
  BY PairSays DEF Pair
<1>2. /\ net[p][n] # <<>> /\ net'[p][n] = Tail(net[p][n]) /\ Announces(Head(net[p][n]))
      /\ peers'[n] = {p} /\ peers'[p] = peers[p] /\ election'[p] = election[p]
      /\ own' = own
  BY DEF Hears, Takes
<1>3. Heard(p, n)'
  <2>1. Proper(net'[p][n]) /\ NoLeave(net'[p][n]) /\ ~Ann(net'[p][n])
    BY <1>1, <1>2, TailWaves DEF Heard
  <2> QED BY <1>2, <2>1 DEF Heard
<1>4. PICK r : /\ Greets(n, p, r)
               /\ n \in own => p \in known[n] \/ Ann(r)
               /\ net'[n][p] = r \/ net'[n][p] = Append(r, Elect(n))
  BY DEF Hears
<1>5. /\ r \in Seq(Message) /\ Proper(r) /\ NoLeave(r)
      /\ Ann(net[n][p]) => Ann(r)
      /\ Ann(r) => Ann(net[n][p]) \/ n \notin peers[p]
  BY <1>1, <1>4, GreetsSays DEF Heard
<1>6. Elect(n) \in Message /\ Wave(Elect(n))
  BY WaveSays DEF Waves
<1>7. Proper(net'[n][p]) /\ NoLeave(net'[n][p]) /\ (Ann(net'[n][p]) <=> Ann(r))
  <2>1. LET a == Append(r, Elect(n)) IN Proper(a) /\ NoLeave(a) /\ (Ann(a) <=> Ann(r))
    BY <1>5, <1>6, WaveBehind
  <2> QED BY <1>4, <1>5, <2>1
<1>8. Heard(n, p)'
  BY <1>1, <1>2, <1>4, <1>5, <1>7 DEF Heard, Open
<1> QED BY <1>3, <1>8

\* Nothing but waves is taken, and put behind.
LEMMA WavesHeard ==
    ASSUME NEW J, NEW n \in Node, NEW p \in Node, Pair(J, n, p), own' = own,
           known'[n] = known[n], known'[p] = known[p],
           peers'[n] = peers[n], peers'[p] = peers[p], p \in peers[n], election'[p] = election[p],
           \/ net'[p][n] = net[p][n]
           \/ /\ net[p][n] # <<>> /\ net'[p][n] = Tail(net[p][n])
              /\ Wave(Head(net[p][n])),
           \/ net'[n][p] = net[n][p]
           \/ \E m \in Message : Wave(m) /\ net'[n][p] = Append(net[n][p], m)
    PROVE  Heard(n, p)' /\ Heard(p, n)'
<1>1. /\ Heard(n, p) /\ Heard(p, n)
      /\ net[n][p] \in Seq(Message) /\ net[p][n] \in Seq(Message)
  BY PairSays DEF Pair
<1>2. /\ Proper(net'[n][p]) /\ NoLeave(net'[n][p]) /\ (Ann(net'[n][p]) <=> Ann(net[n][p]))
  <2>1. CASE net'[n][p] = net[n][p]
    BY <1>1, <2>1 DEF Heard
  <2>2. ASSUME NEW m \in Message, Wave(m), net'[n][p] = Append(net[n][p], m)
        PROVE  Proper(net'[n][p]) /\ NoLeave(net'[n][p]) /\ (Ann(net'[n][p]) <=> Ann(net[n][p]))
    BY <1>1, <2>2, WaveBehind DEF Heard
  <2> QED BY <2>1, <2>2
<1>3. /\ Proper(net'[p][n]) /\ NoLeave(net'[p][n]) /\ (Ann(net'[p][n]) => Ann(net[p][n]))
  BY <1>1, TailWaves DEF Heard
<1>4. Heard(n, p)'
  BY <1>1, <1>2 DEF Heard, Open
<1>5. Heard(p, n)'
  BY <1>1, <1>3 DEF Heard
<1> QED BY <1>4, <1>5

-----------------------------------------------------------------------------
(* Who will lead, step by step *)

Modes(a, b) == Idle(a, b) \/ Waits(a, b) \/ LowerLeads(a, b) \/ HigherLeads(a, b)

LEMMA WavesDiffer ==
    \A x, y \in Node : /\ Elect(x) # Leader(y)
                       /\ x # y => Elect(x) # Elect(y) /\ Leader(x) # Leader(y)
                       /\ Wave(Elect(x)) /\ Wave(Leader(x))
                       /\ Elect(x) \in Message /\ Leader(x) \in Message
BY MessageKinds DEF Elect, Leader, Wave

LEMMA NeverOnly ==
    ASSUME NEW q, NEW S, Only(q, S), NEW l, Wave(l), l \notin S, NEW k
    PROVE  Never(q, l, k)
BY DEF Never, Only

LEMMA ChattingModes ==
    ASSUME NEW J, NEW a \in Node, NEW b \in Node, Pair(J, a, b), Chatting(a, b), Modes(a, b)
    PROVE  Modes(a, b)'
<1> DEFINE ab == net[a][b]
           ba == net[b][a]
           abN == net'[a][b]
           baN == net'[b][a]
<1>1. \A S : (Only(abN, S) <=> Only(ab, S)) /\ (Only(baN, S) <=> Only(ba, S))
  BY ChatsSays, PairSays DEF Chatting, Pair, Heard
<1>2. /\ Ann(ba) => Ann(baN)
      /\ Ann(abN) => Ann(ab) \/ ~(a \in own /\ b \in known[a])
      /\ \A l, k : Wave(k) /\ Never(ba, l, k) => Never(baN, l, k)
  BY ChatsSays, PairSays DEF Chatting, Pair, Heard
<1>3. /\ election' = election /\ told' = told /\ peers' = peers
      /\ own \subseteq own' /\ (Calm' => Calm /\ own' = own)
  BY DEF Chatting
<1>4. peers[a] \subseteq known[a]
  BY PairSays
<1> HIDE DEF ab, ba, abN, baN
<1>5. ASSUME Idle(a, b)
      PROVE  Idle(a, b)'
  <2>1. Only(ab, {}) /\ Only(ba, {})
    BY <1>5 DEF Idle, ab, ba
  <2>2. Only(abN, {}) /\ Only(baN, {})
    BY <1>1, <2>1
  <2> QED BY <1>3, <1>5, <2>2 DEF Idle, Open, abN, baN
<1>6. ASSUME Waits(a, b)
      PROVE  Waits(a, b)'
  <2>1. Only(ab, {}) /\ Only(ba, {Elect(b)}) /\ Ann(ba)
    BY <1>6 DEF Waits, ab, ba
  <2>2. Only(abN, {}) /\ Only(baN, {Elect(b)}) /\ Ann(baN)
    BY <1>1, <1>2, <2>1
  <2> QED BY <1>3, <1>6, <2>2 DEF Waits, Stands, Open, abN, baN
<1>7. ASSUME LowerLeads(a, b)
      PROVE  LowerLeads(a, b)'
  <2>1. Opposes(a, b)' => Opposes(a, b)
    BY <1>2, <1>3, <1>4, <1>7 DEF LowerLeads, Opposes, Stands, Open, ab, abN
  <2>2. Never(baN, Leader(a), Elect(b))
    BY <1>2, <1>7, WavesDiffer DEF LowerLeads, ba
  <2>3. /\ Only(abN, {Elect(a), Leader(a)})
        /\ Only(baN, {Elect(a), Leader(a), Elect(b)})
        /\ Opposes(a, b) => Only(abN, {Elect(a)}) /\ Only(baN, {Elect(b)})
        /\ ~Only(baN, {Elect(a), Leader(a)}) => ~Only(ba, {Elect(a), Leader(a)})
    BY <1>1, <1>7 DEF LowerLeads, ab, ba
  <2> QED BY <1>3, <1>7, <2>1, <2>2, <2>3 DEF LowerLeads, Stands, Open, abN, baN, ba
<1>8. ASSUME HigherLeads(a, b)
      PROVE  HigherLeads(a, b)'
  <2>1. Only(abN, {Elect(b), Leader(b)}) /\ Only(baN, {Elect(b), Leader(b)})
    BY <1>1, <1>8 DEF HigherLeads, ab, ba
  <2> QED BY <1>3, <1>8, <2>1 DEF HigherLeads, Stands, Open, abN, baN
<1> QED BY <1>5, <1>6, <1>7, <1>8 DEF Modes

\* What the two queues say after n heard that p is a member.
LEMMA HearsSays ==
    ASSUME NEW J, NEW n \in Node, NEW p \in Node, Pair(J, n, p), Hears(n, p)
    PROVE  /\ \A S : Only(net[p][n], S) => Only(net'[p][n], S)
           /\ \A S : Only(net[n][p], S) /\ (n \in own => Elect(n) \in S) => Only(net'[n][p], S)
           /\ Ann(net[p][n]) /\ p \in own
           /\ Ann(net[n][p]) => Ann(net'[n][p])
           /\ n \in own => p \in known[n] \/ Ann(net'[n][p])
           /\ Ann(net'[n][p]) => Ann(net[n][p]) \/ ~(n \in own /\ p \in known[n])
           /\ ~Ann(net'[p][n])
<1>1. /\ net[n][p] \in Seq(Message) /\ net[p][n] \in Seq(Message)
      /\ Proper(net[n][p]) /\ NoLeave(net[n][p]) /\ Proper(net[p][n])
  BY PairSays DEF Pair, Heard
<1>2. /\ net[p][n] # <<>> /\ net'[p][n] = Tail(net[p][n])
      /\ Announces(Head(net[p][n])) /\ p \in own
  BY DEF Hears, Takes
<1>3. \A S : Only(net[p][n], S) => Only(net'[p][n], S)
  BY <1>1, <1>2, TailWaves
<1>4. Ann(net[p][n]) /\ ~Ann(net'[p][n])
  BY <1>1, <1>2, TailWaves
<1>5. PICK r : /\ Greets(n, p, r)
               /\ n \in own => p \in known[n] \/ Ann(r)
               /\ net'[n][p] = IF n \in own THEN Append(r, Elect(n)) ELSE r
  BY DEF Hears
<1>6. /\ r \in Seq(Message)
      /\ \A S : Only(r, S) <=> Only(net[n][p], S)
  BY <1>1, <1>5, GreetsSays
<1>7. /\ Ann(net[n][p]) => Ann(r)
      /\ Ann(r) => Ann(net[n][p]) \/ ~(n \in own /\ p \in known[n])
  BY <1>1, <1>5, GreetsSays
<1>8. LET s == Append(r, Elect(n))
      IN  (Ann(s) <=> Ann(r)) /\ \A S : Only(s, S) <=> Only(r, S) /\ Elect(n) \in S
  <2>1. Elect(n) \in Message /\ Wave(Elect(n))
    BY WavesDiffer
  <2> QED BY <1>6, <2>1, WaveBehind
<1>9. CASE n \in own
  <2>1. \A S : Only(net[n][p], S) /\ Elect(n) \in S => Only(net'[n][p], S)
    BY <1>5, <1>6, <1>8, <1>9
  <2>2. Ann(net'[n][p]) <=> Ann(r)
    BY <1>5, <1>8, <1>9
  <2> QED BY <1>2, <1>3, <1>4, <1>5, <1>7, <1>9, <2>1, <2>2
<1>10. CASE n \notin own
  BY <1>2, <1>3, <1>4, <1>5, <1>6, <1>7, <1>10
<1> QED BY <1>9, <1>10

\* The lower of the two hears of the other: it leads, or does not take part.
LEMMA LowerHears ==
    ASSUME NEW J, NEW a \in Node, NEW b \in Node, Pair(J, a, b), Hears(a, b), Modes(a, b)
    PROVE  Modes(a, b)'
<1> DEFINE ab == net[a][b]
           ba == net[b][a]
           abN == net'[a][b]
           baN == net'[b][a]
<1>1. /\ \A S : Only(ba, S) => Only(baN, S)
      /\ \A S : Only(ab, S) /\ (a \in own => Elect(a) \in S) => Only(abN, S)
  BY HearsSays
<1>2. Ann(ba)
  BY HearsSays
<1>3. /\ election'[b] = election[b] /\ told'[a] = told[a] /\ told'[b] = told[b]
      /\ own' = own /\ peers'[a] = {b} /\ (Calm' => Calm)
      /\ a \notin own => election'[a] = election[a]
      /\ a \in own => Stands(a, a)' /\ election'[a].erec = 0
  BY DEF Hears, Takes
<1>4. b \notin peers[a]
  BY <1>2, PairSays DEF Pair, Heard
<1> HIDE DEF ab, ba, abN, baN
<1>5. CASE Idle(a, b) /\ a \notin own
  <2>1. Only(ab, {}) /\ Only(ba, {})
    BY <1>5 DEF Idle, ab, ba
  <2>2. Only(abN, {}) /\ Only(baN, {})
    BY <1>1, <1>5, <2>1
  <2>3. Idle(a, b)'
    BY <1>3, <1>5, <2>2 DEF Idle, Open, abN, baN
  <2> QED BY <2>3 DEF Modes
<1>6. ASSUME /\ a \in own /\ told[a] = None /\ told[b] = None
             /\ Only(ab, {}) /\ Only(ba, {Elect(b)})
             /\ Open(b) => Stands(b, b) /\ election[b].erec = 0
      PROVE  LowerLeads(a, b)'
  <2>1. Only(abN, {Elect(a)}) /\ Only(baN, {Elect(b)})
    <3>1. Only(ab, {Elect(a)})
      BY <1>6, OnlyMore
    <3> QED BY <1>1, <1>6, <3>1
  <2>2. Only(abN, {Elect(a), Leader(a)}) /\ Only(baN, {Elect(a), Leader(a), Elect(b)})
    BY <2>1, OnlyMore
  <2>3. Never(baN, Leader(a), Elect(b))
    <3>1. Wave(Leader(a)) /\ Leader(a) \notin {Elect(b)}
      BY WavesDiffer
    <3> QED BY <2>1, <3>1, NeverOnly
  <2> QED BY <1>3, <1>6, <2>1, <2>2, <2>3 DEF LowerLeads, Stands, Open, abN, baN
<1>7. CASE Idle(a, b) /\ a \in own
  <2>1. Only(ba, {Elect(b)})
    BY <1>7, OnlyMore DEF Idle, ba
  <2> QED BY <1>6, <1>7, <2>1 DEF Idle, Modes, ab
<1>8. CASE Waits(a, b)
  BY <1>6, <1>8 DEF Waits, Modes, ab, ba
<1>9. ~LowerLeads(a, b) /\ ~HigherLeads(a, b)
  BY <1>4 DEF LowerLeads, HigherLeads
<1> QED BY <1>5, <1>7, <1>8, <1>9 DEF Modes

\* The higher one hears of the lower: it stands, whoever will lead.
LEMMA HigherHears ==
    ASSUME NEW J, NEW a \in Node, NEW b \in Node, Pair(J, a, b), Hears(b, a), Modes(a, b)
    PROVE  Modes(a, b)'
<1> DEFINE ab == net[a][b]
           ba == net[b][a]
           abN == net'[a][b]
           baN == net'[b][a]
<1>1. Pair(J, b, a)
  BY PairSays
<1>2. /\ \A S : Only(ab, S) => Only(abN, S)
      /\ \A S : Only(ba, S) /\ (b \in own => Elect(b) \in S) => Only(baN, S)
  BY <1>1, HearsSays
<1>3. /\ Ann(ab) /\ a \in own /\ ~Ann(abN)
      /\ Ann(ba) => Ann(baN)
      /\ b \in own => a \in known[b] \/ Ann(baN)
  BY <1>1, HearsSays
<1>4. /\ election'[a] = election[a] /\ told'[a] = told[a] /\ told'[b] = told[b]
      /\ own' = own /\ peers'[a] = peers[a] /\ (Calm' => Calm)
      /\ b \notin own => election'[b] = election[b]
      /\ b \in own => Stands(b, b)' /\ election'[b].erec = 0
  BY DEF Hears, Takes
<1>5. /\ b \in peers[a] \/ Ann(ba) => b \in own
      /\ b \in own => b \in peers[a] \/ Ann(baN)
  <2>1. (b \in peers[a] => b \in own) /\ (b \notin own => ~Ann(ba))
    BY <1>1, PairSays
  <2>2. b \in own /\ a \in known[b] => b \in peers[a] \/ Ann(ba)
    BY DEF Pair, Heard
  <2> QED BY <1>3, <2>1, <2>2
<1> HIDE DEF ab, ba, abN, baN
<1>6. CASE Idle(a, b) /\ b \notin own
  <2>1. Only(ab, {}) /\ Only(ba, {})
    BY <1>6 DEF Idle, ab, ba
  <2>2. Only(abN, {}) /\ Only(baN, {})
    BY <1>2, <1>6, <2>1
  <2>3. Idle(a, b)'
    BY <1>4, <1>6, <2>2 DEF Idle, Open, abN, baN
  <2> QED BY <2>3 DEF Modes
<1>7. CASE Idle(a, b) /\ b \in own
  <2>1. Only(ab, {}) /\ Only(ba, {}) /\ Only(ba, {Elect(b)})
    BY <1>7, OnlyMore DEF Idle, ab, ba
  <2>2. Only(abN, {}) /\ Only(baN, {Elect(b)})
    BY <1>2, <2>1
  <2>3. CASE b \in peers[a]
    <3>1. Only(abN, {Elect(b), Leader(b)}) /\ Only(baN, {Elect(b), Leader(b)})
      BY <2>2, OnlyMore
    <3>2. ~Calm'
      BY <1>3, <1>4, <1>7, <2>3 DEF Idle
    <3>3. HigherLeads(a, b)'
      BY <1>3, <1>4, <1>7, <2>3, <3>1, <3>2 DEF Idle, HigherLeads, Stands, Open, abN, baN
    <3> QED BY <3>3 DEF Modes
  <2>4. CASE b \notin peers[a]
    <3>1. Waits(a, b)'
      BY <1>3, <1>4, <1>5, <1>7, <2>2, <2>4 DEF Idle, Waits, Stands, Open, abN, baN
    <3> QED BY <3>1 DEF Modes
  <2> QED BY <2>3, <2>4
<1>8. CASE Waits(a, b)
  <2>1. Only(ab, {}) /\ Only(ba, {Elect(b)}) /\ Ann(ba)
    BY <1>8 DEF Waits, ab, ba
  <2>2. Only(abN, {}) /\ Only(baN, {Elect(b)}) /\ Ann(baN) /\ b \in own
    BY <1>2, <1>3, <1>5, <2>1
  <2>3. Waits(a, b)'
    BY <1>4, <1>8, <2>2 DEF Waits, Stands, Open, abN, baN
  <2> QED BY <2>3 DEF Modes
<1>9. CASE LowerLeads(a, b)
  <2>1. b \in own
    BY <1>5, <1>9 DEF LowerLeads
  <2>2. Open(a) /\ election[a].erec = 0 /\ Only(ab, {Elect(a)}) /\ Only(ba, {Elect(b)})
    BY <1>3, <1>9 DEF LowerLeads, Opposes, ab, ba
  <2>3. Only(abN, {Elect(a)}) /\ Only(baN, {Elect(b)})
    BY <1>2, <2>2
  <2>4. Only(abN, {Elect(a), Leader(a)}) /\ Only(baN, {Elect(a), Leader(a), Elect(b)})
    BY <2>3, OnlyMore
  <2>5. Never(baN, Leader(a), Elect(b))
    <3>1. Wave(Leader(a)) /\ Leader(a) \notin {Elect(b)}
      BY WavesDiffer
    <3> QED BY <2>3, <3>1, NeverOnly
  <2>6. LowerLeads(a, b)'
    BY <1>4, <1>9, <2>1, <2>2, <2>3, <2>4, <2>5 DEF LowerLeads, Stands, Open, abN, baN
  <2> QED BY <2>6 DEF Modes
<1>10. CASE HigherLeads(a, b)
  <2>1. b \in own
    BY <1>5, <1>10 DEF HigherLeads
  <2>2. Only(abN, {Elect(b), Leader(b)}) /\ Only(baN, {Elect(b), Leader(b)})
    BY <1>2, <1>10 DEF HigherLeads, ab, ba
  <2>3. HigherLeads(a, b)'
    BY <1>4, <1>10, <2>1, <2>2 DEF HigherLeads, Stands, Open, abN, baN
  <2> QED BY <2>3 DEF Modes
<1> QED BY <1>6, <1>7, <1>8, <1>9, <1>10 DEF Modes

\* The queue of which the wave m was taken.
LEMMA WaveTaken ==
    ASSUME NEW J, NEW n \in Node, NEW p \in Node, Pair(J, n, p), Takes(n, p),
           NEW m, Head(net[p][n]) = m, Wave(m)
    PROVE  /\ m \in Message
           /\ \A S : Only(net[p][n], S) => Only(net'[p][n], S) /\ m \in S
           /\ ~Ann(net[p][n]) /\ ~Ann(net'[p][n])
           /\ \A l, k : Never(net[p][n], l, k) => Never(net'[p][n], l, k)
           /\ \A k, S : Never(net[p][n], m, k) /\ Only(net[p][n], S) =>
                Only(net'[p][n], S \ {k})
<1>1. /\ net[p][n] \in Seq(Message) /\ Proper(net[p][n])
      /\ net[p][n] # <<>> /\ net'[p][n] = Tail(net[p][n])
  BY PairSays DEF Pair, Heard, Takes
<1>2. m \in Message /\ ~Announces(m)
  BY <1>1, LinkTail, WaveSays
<1>3. \A S : Only(net[p][n], S) => Only(net'[p][n], S) /\ m \in S
  BY <1>1, TailWaves
<1>4. ~Ann(net[p][n]) /\ ~Ann(net'[p][n])
  BY <1>1, <1>2, TailWaves
<1>5. \A l, k : Never(net[p][n], l, k) => Never(net'[p][n], l, k)
  BY <1>1, TailWaves
<1>6. \A k, S : Never(net[p][n], m, k) /\ Only(net[p][n], S) => Only(net'[p][n], S \ {k})
  BY <1>1, TailWaves
<1> QED BY <1>2, <1>3, <1>4, <1>5, <1>6

\* The queue q behind which the wave v was put, or which is left alone.
LEMMA WaveCast ==
    ASSUME NEW q \in Seq(Message), NEW v \in Message, Wave(v),
           NEW r, r = q \/ r = Append(q, v)
    PROVE  /\ \A S : Only(q, S) /\ v \in S => Only(r, S)
           /\ Ann(r) <=> Ann(q)
           /\ \A l, k : Never(q, l, k) /\ v # k => Never(r, l, k)
<1>1. CASE r = q
  BY <1>1
<1>2. CASE r = Append(q, v)
  <2>1. (Ann(r) <=> Ann(q)) /\ \A S : Only(q, S) /\ v \in S => Only(r, S)
    BY <1>2, WaveBehind
  <2>2. \A l, k : Never(q, l, k) /\ v # k => Never(r, l, k)
    BY <1>2, AppendWaves
  <2> QED BY <2>1, <2>2
<1> QED BY <1>1, <1>2

\* _handle_elect at the lower of the two.
LEMMA LowerVotes ==
    ASSUME NEW J, NEW a \in Node, NEW b \in Node, Pair(J, a, b), a < b,
           NEW c, Votes(a, b, c), Modes(a, b)
    PROVE  Modes(a, b)'
<1> DEFINE ab == net[a][b]
           ba == net[b][a]
           abN == net'[a][b]
           baN == net'[b][a]
           v == IF c = a THEN Leader(a) ELSE Elect(c)
<1>1. /\ Takes(a, b) /\ Head(ba) = Elect(c) /\ a \in Nat /\ b \in Nat
      /\ election'[b] = election[b] /\ told'[a] = told[a] /\ told'[b] = told[b]
      /\ own' = own /\ peers'[a] = peers[a] /\ (Calm' => Calm)
  BY NodeAssumption DEF Votes, Takes
<1>2. Wave(Elect(c))
  BY DEF Wave, Elect
<1>3. /\ Elect(c) \in Message /\ ~Ann(ba)
      /\ \A S : Only(ba, S) => Only(baN, S) /\ Elect(c) \in S
  BY <1>1, <1>2, WaveTaken
<1>4. \A l, k : Never(ba, l, k) => Never(baN, l, k)
  BY <1>1, <1>2, WaveTaken
<1>5. v \in Message /\ Wave(v)
  BY <1>2, <1>3, WavesDiffer
<1>6. /\ ab \in Seq(Message) /\ (abN = ab \/ abN = Append(ab, v))
  BY PairSays DEF Votes
<1>7. \/ abN = ab /\ election'[a] = election[a] /\ Open(a) /\ election[a].caw < c
      \/ Open(a)' /\ election'[a].caw = c /\ (Open(a) => c <= election[a].caw)
  BY DEF Votes
<1> HIDE DEF ab, ba, abN, baN, v
<1>8. /\ \A S : Only(ab, S) /\ v \in S => Only(abN, S)
      /\ Ann(abN) <=> Ann(ab)
  BY <1>5, <1>6, WaveCast
<1>9. ~Idle(a, b) /\ ~Waits(a, b)
  BY <1>3 DEF Idle, Waits, ba
<1>10. CASE LowerLeads(a, b)
  <2>1. /\ Only(ab, {Elect(a), Leader(a)}) /\ Only(ba, {Elect(a), Leader(a), Elect(b)})
        /\ Opposes(a, b) => Only(ab, {Elect(a)}) /\ Only(ba, {Elect(b)})
        /\ Never(ba, Leader(a), Elect(b))
        /\ Open(a) => election[a].caw = a
    BY <1>10 DEF LowerLeads, Stands, ab, ba
  <2>2. c \in {a, b}
    <3>1. Elect(c) \in {Elect(a), Leader(a), Elect(b)}
      BY <1>3, <2>1
    <3> QED BY <3>1 DEF Elect, Leader
  <2>3. Never(baN, Leader(a), Elect(b)) /\ Only(baN, {Elect(a), Leader(a), Elect(b)})
    BY <1>3, <1>4, <2>1
  <2>4. CASE c = b
    <3>1. ~Only(ba, {Elect(a), Leader(a)})
      <4>1. Elect(b) \notin {Elect(a), Leader(a)}
        BY <1>1, WavesDiffer
      <4> QED BY <1>3, <2>4, <4>1
    <3>2. Open(a) /\ abN = ab /\ election'[a] = election[a]
      BY <1>1, <1>7, <1>10, <2>1, <2>4, <3>1 DEF LowerLeads, ba
    <3>3. Opposes(a, b)' <=> Opposes(a, b)
      BY <1>1, <3>2 DEF Opposes, Stands, Open, ab, abN
    <3>4. Opposes(a, b) => Only(baN, {Elect(b)})
      BY <1>3, <2>1
    <3>5. LowerLeads(a, b)'
      BY <1>1, <1>10, <2>3, <3>2, <3>3, <3>4 DEF LowerLeads, Stands, Open, ab, abN, baN
    <3> QED BY <3>5 DEF Modes
  <2>5. CASE c = a
    <3>1. ~Opposes(a, b)
      <4>1. Elect(a) \notin {Elect(b)}
        BY <1>1, WavesDiffer
      <4> QED BY <1>3, <2>1, <2>5, <4>1
    <3>2. Open(a)' /\ election'[a].caw = a
      BY <1>1, <1>7, <2>1, <2>5
    <3>3. ~Opposes(a, b)'
      BY <1>1, <1>8, <3>1 DEF Opposes, Stands, Open, ab, abN
    <3>4. Only(abN, {Elect(a), Leader(a)})
      BY <1>8, <2>1, <2>5 DEF v
    <3>5. LowerLeads(a, b)'
      BY <1>1, <1>10, <2>3, <3>2, <3>3, <3>4 DEF LowerLeads, Stands, Open, abN, baN
    <3> QED BY <3>5 DEF Modes
  <2> QED BY <2>2, <2>4, <2>5
<1>11. CASE HigherLeads(a, b)
  <2>1. /\ Only(ab, {Elect(b), Leader(b)}) /\ Only(ba, {Elect(b), Leader(b)})
        /\ Open(a) => election[a].caw = b
    BY <1>11 DEF HigherLeads, Stands, ab, ba
  <2>2. c = b
    <3>1. Elect(c) \in {Elect(b), Leader(b)}
      BY <1>3, <2>1
    <3> QED BY <3>1 DEF Elect, Leader
  <2>3. Open(a)' /\ election'[a].caw = b
    BY <1>1, <1>7, <2>1, <2>2
  <2>4. Only(abN, {Elect(b), Leader(b)}) /\ Only(baN, {Elect(b), Leader(b)})
    BY <1>1, <1>3, <1>8, <2>1, <2>2 DEF v
  <2>5. HigherLeads(a, b)'
    BY <1>1, <1>11, <2>3, <2>4 DEF HigherLeads, Stands, Open, abN, baN
  <2> QED BY <2>5 DEF Modes
<1> QED BY <1>9, <1>10, <1>11 DEF Modes

\* _handle_elect at the higher of the two.
LEMMA HigherVotes ==
    ASSUME NEW J, NEW a \in Node, NEW b \in Node, Pair(J, a, b), a < b,
           NEW c, Votes(b, a, c), Modes(a, b)
    PROVE  Modes(a, b)'
<1> DEFINE ab == net[a][b]
           ba == net[b][a]
           abN == net'[a][b]
           baN == net'[b][a]
           v == IF c = b THEN Leader(b) ELSE Elect(c)
<1>1. /\ Takes(b, a) /\ Head(ab) = Elect(c) /\ a \in Nat /\ b \in Nat
      /\ election'[a] = election[a] /\ told'[a] = told[a] /\ told'[b] = told[b]
      /\ own' = own /\ peers'[a] = peers[a] /\ (Calm' => Calm)
  BY NodeAssumption DEF Votes, Takes
<1>2. Wave(Elect(c)) /\ Pair(J, b, a)
  BY PairSays DEF Wave, Elect
<1>3. /\ Elect(c) \in Message /\ ~Ann(abN)
      /\ \A S : Only(ab, S) => Only(abN, S) /\ Elect(c) \in S
  BY <1>1, <1>2, WaveTaken
<1>4. v \in Message /\ Wave(v)
  BY <1>2, <1>3, WavesDiffer
<1>5. /\ ba \in Seq(Message) /\ (baN = ba \/ baN = Append(ba, v))
  BY <1>2, PairSays DEF Votes
<1>6. \/ election'[b] = election[b] /\ Open(b) /\ election[b].caw < c
      \/ Open(b)' /\ election'[b].caw = c
  BY DEF Votes
<1> HIDE DEF ab, ba, abN, baN, v
<1>7. \A S : Only(ba, S) /\ v \in S => Only(baN, S)
  BY <1>4, <1>5, WaveCast
<1>8. \A l, k : Never(ba, l, k) /\ v # k => Never(baN, l, k)
  BY <1>4, <1>5, WaveCast
<1>9. ~Idle(a, b) /\ ~Waits(a, b)
  BY <1>3 DEF Idle, Waits, ab
<1>10. CASE LowerLeads(a, b)
  <2>1. /\ Only(ab, {Elect(a), Leader(a)}) /\ Only(ba, {Elect(a), Leader(a), Elect(b)})
        /\ Never(ba, Leader(a), Elect(b))
        /\ Open(b) => election[b].caw \in {a, b}
    BY <1>10 DEF LowerLeads, Stands, ab, ba
  <2>2. c = a
    <3>1. Elect(c) \in {Elect(a), Leader(a)}
      BY <1>3, <2>1
    <3> QED BY <3>1 DEF Elect, Leader
  <2>3. Open(b)' /\ election'[b].caw = a
    BY <1>1, <1>6, <2>1, <2>2
  <2>4. v = Elect(a) /\ v # Elect(b)
    BY <1>1, <2>2, WavesDiffer DEF v
  <2>5. /\ Only(abN, {Elect(a), Leader(a)}) /\ Only(baN, {Elect(a), Leader(a), Elect(b)})
        /\ Only(ba, {Elect(a), Leader(a)}) => Only(baN, {Elect(a), Leader(a)})
    BY <1>3, <1>7, <2>1, <2>4
  <2>6. Never(baN, Leader(a), Elect(b))
    BY <1>8, <2>1, <2>4
  <2>7. ~Opposes(a, b)'
    BY <1>1, <1>3, <2>3 DEF Opposes, Stands, abN
  <2>8. LowerLeads(a, b)'
    BY <1>1, <1>10, <2>3, <2>5, <2>6, <2>7 DEF LowerLeads, Stands, Open, abN, baN, ba
  <2> QED BY <2>8 DEF Modes
<1>11. CASE HigherLeads(a, b)
  <2>1. /\ Only(ab, {Elect(b), Leader(b)}) /\ Only(ba, {Elect(b), Leader(b)})
        /\ Open(b) => election[b].caw = b
    BY <1>11 DEF HigherLeads, Stands, ab, ba
  <2>2. c = b
    <3>1. Elect(c) \in {Elect(b), Leader(b)}
      BY <1>3, <2>1
    <3> QED BY <3>1 DEF Elect, Leader
  <2>3. Open(b)' /\ election'[b].caw = b
    BY <1>1, <1>6, <2>1, <2>2
  <2>4. Only(abN, {Elect(b), Leader(b)}) /\ Only(baN, {Elect(b), Leader(b)})
    BY <1>3, <1>7, <2>1, <2>2 DEF v
  <2>5. HigherLeads(a, b)'
    BY <1>1, <1>11, <2>3, <2>4 DEF HigherLeads, Stands, Open, abN, baN
  <2> QED BY <2>5 DEF Modes
<1> QED BY <1>9, <1>10, <1>11 DEF Modes

\* _handle_leader at the lower of the two.
LEMMA LowerCloses ==
    ASSUME NEW J, NEW a \in Node, NEW b \in Node, Pair(J, a, b), a < b,
           NEW w, Closes(a, b, w), Modes(a, b)
    PROVE  Modes(a, b)'
<1> DEFINE ab == net[a][b]
           ba == net[b][a]
           abN == net'[a][b]
           baN == net'[b][a]
           v == Leader(w)
<1>1. /\ Takes(a, b) /\ Head(ba) = v /\ a \in Nat /\ b \in Nat
      /\ election'[b] = election[b] /\ told'[b] = told[b]
      /\ own' = own /\ peers'[a] = peers[a] /\ (Calm' => Calm)
      /\ told'[a] \in {told[a], w}
      /\ Open(a)' => Open(a) /\ election'[a].caw = election[a].caw
  BY NodeAssumption DEF Closes, Takes, Open
<1>2. Wave(v)
  BY DEF Wave, Leader
<1>3. /\ v \in Message /\ ~Ann(ba)
      /\ \A S : Only(ba, S) => Only(baN, S) /\ v \in S
  BY <1>1, <1>2, WaveTaken
<1>4. \A l, k : Never(ba, l, k) => Never(baN, l, k)
  BY <1>1, <1>2, WaveTaken
<1>5. \A k, S : Never(ba, v, k) /\ Only(ba, S) => Only(baN, S \ {k})
  BY <1>1, <1>2, WaveTaken
<1>6. /\ ab \in Seq(Message) /\ (abN = ab \/ (w # a /\ abN = Append(ab, v)))
  BY PairSays DEF Closes
<1> HIDE DEF ab, ba, abN, baN, v
<1>7. \A S : Only(ab, S) /\ v \in S => Only(abN, S)
  BY <1>2, <1>3, <1>6, WaveCast
<1>8. ~Idle(a, b) /\ ~Waits(a, b)
  BY <1>3 DEF Idle, Waits, ba
<1>9. CASE LowerLeads(a, b)
  <2>1. /\ Only(ab, {Elect(a), Leader(a)}) /\ Only(ba, {Elect(a), Leader(a), Elect(b)})
        /\ Opposes(a, b) => Only(ba, {Elect(b)})
        /\ Never(ba, Leader(a), Elect(b))
    BY <1>9 DEF LowerLeads, ab, ba
  <2>2. w = a
    <3>1. Leader(w) \in {Elect(a), Leader(a), Elect(b)}
      BY <1>3, <2>1 DEF v
    <3> QED BY <3>1 DEF Elect, Leader
  <2>3. ~Opposes(a, b)
    <3>1. Leader(a) \notin {Elect(b)}
      BY WavesDiffer
    <3> QED BY <1>3, <2>1, <2>2, <3>1 DEF v
  <2>4. abN = ab
    BY <1>6, <2>2
  <2>5. ~Opposes(a, b)'
    BY <1>1, <2>3, <2>4 DEF Opposes, Stands, Open, ab, abN
  <2>6. Only(baN, {Elect(a), Leader(a)})
    <3>1. Only(baN, {Elect(a), Leader(a), Elect(b)} \ {Elect(b)})
      BY <1>5, <2>1, <2>2 DEF v
    <3> QED BY <3>1, OnlyMore
  <2>7. Only(baN, {Elect(a), Leader(a), Elect(b)}) /\ Never(baN, Leader(a), Elect(b))
    BY <1>3, <1>4, <2>1
  <2>8. LowerLeads(a, b)'
    BY <1>1, <1>9, <2>1, <2>2, <2>4, <2>5, <2>6, <2>7
       DEF LowerLeads, Stands, Open, abN, baN
  <2> QED BY <2>8 DEF Modes
<1>10. CASE HigherLeads(a, b)
  <2>1. Only(ab, {Elect(b), Leader(b)}) /\ Only(ba, {Elect(b), Leader(b)})
    BY <1>10 DEF HigherLeads, ab, ba
  <2>2. v \in {Elect(b), Leader(b)}
    BY <1>3, <2>1
  <2>3. w = b
    BY <2>2 DEF v, Elect, Leader
  <2>4. Only(abN, {Elect(b), Leader(b)}) /\ Only(baN, {Elect(b), Leader(b)})
    BY <1>3, <1>7, <2>1, <2>2
  <2>5. HigherLeads(a, b)'
    BY <1>1, <1>10, <2>3, <2>4 DEF HigherLeads, Stands, Open, abN, baN
  <2> QED BY <2>5 DEF Modes
<1> QED BY <1>8, <1>9, <1>10 DEF Modes

\* _handle_leader at the higher of the two.
LEMMA HigherCloses ==
    ASSUME NEW J, NEW a \in Node, NEW b \in Node, Pair(J, a, b), a < b,
           NEW w, Closes(b, a, w), Modes(a, b)
    PROVE  Modes(a, b)'
<1> DEFINE ab == net[a][b]
           ba == net[b][a]
           abN == net'[a][b]
           baN == net'[b][a]
           v == Leader(w)
<1>1. /\ Takes(b, a) /\ Head(ab) = v /\ a \in Nat /\ b \in Nat
      /\ election'[a] = election[a] /\ told'[a] = told[a]
      /\ own' = own /\ peers'[a] = peers[a] /\ (Calm' => Calm)
      /\ told'[b] \in {told[b], w}
      /\ Open(b)' => Open(b) /\ election'[b].caw = election[b].caw
  BY NodeAssumption DEF Closes, Takes, Open
<1>2. Wave(v) /\ Pair(J, b, a)
  BY PairSays DEF Wave, Leader
<1>3. /\ v \in Message /\ ~Ann(abN)
      /\ \A S : Only(ab, S) => Only(abN, S) /\ v \in S
  BY <1>1, <1>2, WaveTaken
<1>4. /\ ba \in Seq(Message) /\ (baN = ba \/ baN = Append(ba, v))
  BY <1>2, PairSays DEF Closes
<1> HIDE DEF ab, ba, abN, baN, v
<1>5. \A S : Only(ba, S) /\ v \in S => Only(baN, S)
  BY <1>2, <1>3, <1>4, WaveCast
<1>6. \A l, k : Never(ba, l, k) /\ v # k => Never(baN, l, k)
  BY <1>2, <1>3, <1>4, WaveCast
<1>7. ~Idle(a, b) /\ ~Waits(a, b)
  BY <1>3 DEF Idle, Waits, ab
<1>8. CASE LowerLeads(a, b)
  <2>1. /\ Only(ab, {Elect(a), Leader(a)}) /\ Only(ba, {Elect(a), Leader(a), Elect(b)})
        /\ Opposes(a, b) => Only(ab, {Elect(a)})
        /\ Never(ba, Leader(a), Elect(b))
    BY <1>8 DEF LowerLeads, ab, ba
  <2>2. v = Leader(a) /\ w = a
    <3>1. v \in {Elect(a), Leader(a)}
      BY <1>3, <2>1
    <3> QED BY <3>1 DEF v, Elect, Leader
  <2>3. v \notin {Elect(a)} /\ v # Elect(b)
    BY <2>2, WavesDiffer
  <2>4. ~Opposes(a, b)
    BY <1>3, <2>1, <2>3
  <2>5. ~Opposes(a, b)'
    BY <1>1, <1>3, <2>4 DEF Opposes, Stands, abN
  <2>6. /\ Only(abN, {Elect(a), Leader(a)}) /\ Only(baN, {Elect(a), Leader(a), Elect(b)})
        /\ Only(ba, {Elect(a), Leader(a)}) => Only(baN, {Elect(a), Leader(a)})
    BY <1>3, <1>5, <2>1, <2>2
  <2>7. Never(baN, Leader(a), Elect(b))
    BY <1>6, <2>1, <2>3
  <2>8. Open(b)' => Stands(b, a)'
    BY <1>1, <1>8, <2>4 DEF LowerLeads, Opposes, Stands
  <2>9. LowerLeads(a, b)'
    BY <1>1, <1>8, <2>2, <2>5, <2>6, <2>7, <2>8 DEF LowerLeads, Stands, Open, abN, baN, ba
  <2> QED BY <2>9 DEF Modes
<1>9. CASE HigherLeads(a, b)
  <2>1. Only(ab, {Elect(b), Leader(b)}) /\ Only(ba, {Elect(b), Leader(b)})
    BY <1>9 DEF HigherLeads, ab, ba
  <2>2. v \in {Elect(b), Leader(b)}
    BY <1>3, <2>1
  <2>3. w = b
    BY <2>2 DEF v, Elect, Leader
  <2>4. Only(abN, {Elect(b), Leader(b)}) /\ Only(baN, {Elect(b), Leader(b)})
    BY <1>3, <1>5, <2>1, <2>2
  <2>5. HigherLeads(a, b)'
    BY <1>1, <1>9, <2>3, <2>4 DEF HigherLeads, Stands, Open, abN, baN
  <2> QED BY <2>5 DEF Modes
<1> QED BY <1>7, <1>8, <1>9 DEF Modes

\* _maintain_elections: what n sends again, if it stands for c.
LEMMA ResendSays ==
    ASSUME NEW J, NEW n \in Node, NEW p \in Node, Pair(J, n, p), Resends(n, p)
    PROVE  /\ p \in peers[n]
           /\ \E v \in Message :
                /\ Wave(v) /\ net'[n][p] = Append(net[n][p], v)
                /\ v = Elect(election[n].caw)
                   \/ (v = Leader(n) /\ Stands(n, n) /\ election[n].erec > 0)
<1>1. Open(n) /\ p \in peers[n]
  BY DEF Resends, Pair, Heard
<1>2. Ballot(election[n], n, J, contest) /\ J \subseteq Node
      /\ election[n] \in Election \cup {NoElection}
  BY DEF Pair, Well, Fine, BallotsOk, Ballots
<1>3. election[n].caw \in Node
  BY <1>1, <1>2 DEF Open, Election
<1> QED BY <1>1, <1>3, WavesDiffer DEF Resends

LEMMA LowerResends ==
    ASSUME NEW J, NEW a \in Node, NEW b \in Node, Pair(J, a, b), a < b,
           Resends(a, b), Modes(a, b)
    PROVE  Modes(a, b)'
<1> DEFINE ab == net[a][b]
           abN == net'[a][b]
<1>1. /\ UNCHANGED <<election, told, peers, own>> /\ (Calm' => Calm)
      /\ Open(a) /\ net'[b][a] = net[b][a] /\ ab \in Seq(Message)
  BY PairSays DEF Resends
<1>2. PICK v \in Message :
        /\ Wave(v) /\ abN = Append(ab, v)
        /\ v = Elect(election[a].caw) \/ (v = Leader(a) /\ Stands(a, a) /\ election[a].erec > 0)
  BY ResendSays
<1> HIDE DEF ab, abN
<1>3. (\A S : Only(ab, S) /\ v \in S => Only(abN, S)) /\ (Ann(abN) <=> Ann(ab))
  BY <1>1, <1>2, WaveCast
<1>4. ~Idle(a, b) /\ ~Waits(a, b)
  BY <1>1 DEF Idle, Waits
<1>5. CASE LowerLeads(a, b)
  <2>1. /\ v \in {Elect(a), Leader(a)}
        /\ Opposes(a, b) => v \in {Elect(a)}
    BY <1>1, <1>2, <1>5 DEF LowerLeads, Stands
  <2>2. /\ Only(ab, {Elect(a), Leader(a)})
        /\ Opposes(a, b) => Only(ab, {Elect(a)})
    BY <1>5 DEF LowerLeads, ab
  <2>3. /\ Only(abN, {Elect(a), Leader(a)})
        /\ Opposes(a, b) => Only(abN, {Elect(a)})
    BY <1>3, <2>1, <2>2
  <2>4. Opposes(a, b)' <=> Opposes(a, b)
    BY <1>1, <1>3 DEF Opposes, Stands, Open, ab, abN
  <2>5. LowerLeads(a, b)'
    BY <1>1, <1>5, <2>3, <2>4 DEF LowerLeads, Stands, Open, abN
  <2> QED BY <2>5 DEF Modes
<1>6. CASE HigherLeads(a, b)
  <2>1. a # b
    BY DEF Pair
  <2>2. v = Elect(b) /\ Only(ab, {Elect(b), Leader(b)})
    BY <1>1, <1>2, <1>6, <2>1 DEF HigherLeads, Stands, ab
  <2>3. Only(abN, {Elect(b), Leader(b)})
    BY <1>3, <2>2
  <2>4. HigherLeads(a, b)'
    BY <1>1, <1>6, <2>3 DEF HigherLeads, Stands, Open, abN
  <2> QED BY <2>4 DEF Modes
<1> QED BY <1>4, <1>5, <1>6 DEF Modes

LEMMA HigherResends ==
    ASSUME NEW J, NEW a \in Node, NEW b \in Node, Pair(J, a, b), a < b,
           Resends(b, a), Modes(a, b)
    PROVE  Modes(a, b)'
<1> DEFINE ab == net[a][b]
           ba == net[b][a]
           baN == net'[b][a]
<1>1. Pair(J, b, a) /\ a # b
  BY PairSays DEF Pair
<1>2. /\ UNCHANGED <<election, told, peers, own>> /\ (Calm' => Calm)
      /\ Open(b) /\ net'[a][b] = net[a][b] /\ ba \in Seq(Message)
  BY <1>1, PairSays DEF Resends
<1>3. PICK v \in Message :
        /\ Wave(v) /\ baN = Append(ba, v)
        /\ v = Elect(election[b].caw) \/ (v = Leader(b) /\ Stands(b, b) /\ election[b].erec > 0)
  BY <1>1, ResendSays
<1>4. ~Ann(ab)
  BY <1>1, ResendSays DEF Pair, Heard
<1> HIDE DEF ab, ba, baN
<1>5. (\A S : Only(ba, S) /\ v \in S => Only(baN, S)) /\ (Ann(baN) <=> Ann(ba))
  BY <1>2, <1>3, WaveCast
<1>6. \A l, k : Never(ba, l, k) /\ v # k => Never(baN, l, k)
  BY <1>2, <1>3, WaveCast
<1>7. ~Idle(a, b)
  BY <1>2 DEF Idle
<1>8. CASE Waits(a, b)
  <2>1. v \in {Elect(b)} /\ Only(ba, {Elect(b)}) /\ Ann(ba)
    BY <1>2, <1>3, <1>8 DEF Waits, Stands, ba
  <2>2. Only(baN, {Elect(b)}) /\ Ann(baN)
    BY <1>5, <2>1
  <2>3. Waits(a, b)'
    BY <1>2, <1>8, <2>2 DEF Waits, Stands, Open, baN
  <2> QED BY <2>3 DEF Modes
<1>9. CASE LowerLeads(a, b) /\ Stands(b, a)
  <2>1. v = Elect(a) /\ v # Elect(b)
    BY <1>1, <1>3, <1>9, WavesDiffer DEF Stands
  <2>2. /\ Only(ba, {Elect(a), Leader(a), Elect(b)}) /\ Never(ba, Leader(a), Elect(b))
    BY <1>9 DEF LowerLeads, ba
  <2>3. /\ Only(baN, {Elect(a), Leader(a), Elect(b)}) /\ Never(baN, Leader(a), Elect(b))
        /\ Only(ba, {Elect(a), Leader(a)}) => Only(baN, {Elect(a), Leader(a)})
    BY <1>5, <1>6, <2>1, <2>2
  <2>4. ~Opposes(a, b)'
    BY <1>1, <1>2, <1>4, <1>9 DEF Opposes, Stands, Open, ab
  <2>5. LowerLeads(a, b)'
    BY <1>2, <1>9, <2>3, <2>4 DEF LowerLeads, Stands, Open, ba, baN
  <2> QED BY <2>5 DEF Modes
<1>10. CASE LowerLeads(a, b) /\ ~Stands(b, a)
  <2>1. Stands(b, b) /\ election[b].erec = 0 /\ Opposes(a, b)
    BY <1>2, <1>10 DEF LowerLeads, Opposes
  <2>2. v \in {Elect(b)} /\ Only(ba, {Elect(b)}) /\ Open(a)
    BY <1>3, <1>10, <2>1 DEF LowerLeads, Stands, ba
  <2>3. Only(baN, {Elect(b)})
    BY <1>5, <2>2
  <2>4. Only(baN, {Elect(a), Leader(a), Elect(b)})
    BY <2>3, OnlyMore
  <2>5. Never(baN, Leader(a), Elect(b))
    <3>1. Wave(Leader(a)) /\ Leader(a) \notin {Elect(b)}
      BY WavesDiffer
    <3> QED BY <2>3, <3>1, NeverOnly
  <2>6. LowerLeads(a, b)'
    BY <1>2, <1>10, <2>1, <2>2, <2>3, <2>4, <2>5 DEF LowerLeads, Stands, Open, baN
  <2> QED BY <2>6 DEF Modes
<1>11. CASE HigherLeads(a, b)
  <2>1. v \in {Elect(b), Leader(b)} /\ Only(ba, {Elect(b), Leader(b)})
    BY <1>2, <1>3, <1>11 DEF HigherLeads, Stands, ba
  <2>2. Only(baN, {Elect(b), Leader(b)})
    BY <1>5, <2>1
  <2>3. HigherLeads(a, b)'
    BY <1>2, <1>11, <2>2 DEF HigherLeads, Stands, Open, baN
  <2> QED BY <2>3 DEF Modes
<1> QED BY <1>7, <1>8, <1>9, <1>10, <1>11 DEF Modes

LEMMA WavingHeard ==
    ASSUME NEW J, NEW n \in Node, NEW p \in Node, Pair(J, n, p),
           \/ Resends(n, p)
           \/ \E c : Votes(n, p, c) \/ Closes(n, p, c)
    PROVE  Heard(n, p)' /\ Heard(p, n)'
<1>1. CASE Resends(n, p)
  <2>1. p \in peers[n] /\ \E v \in Message : Wave(v) /\ net'[n][p] = Append(net[n][p], v)
    BY <1>1, ResendSays
  <2> QED BY <1>1, <2>1, WavesHeard DEF Resends
<1>2. ASSUME NEW c, Votes(n, p, c)
      PROVE  Heard(n, p)' /\ Heard(p, n)'
  <2>1. /\ Takes(n, p) /\ Head(net[p][n]) = Elect(c) /\ p \in peers[n]
        /\ peers'[n] = peers[n] /\ known'[n] = known[n]
    BY <1>2 DEF Votes
  <2>2. Wave(Elect(c))
    BY DEF Wave, Elect
  <2>3. Elect(c) \in Message
    BY <2>1, <2>2, WaveTaken
  <2>4. \E m \in {Elect(c), Leader(n)} :
          net'[n][p] = net[n][p] \/ net'[n][p] = Append(net[n][p], m)
    BY <1>2 DEF Votes
  <2>5. net'[n][p] = net[n][p] \/ \E m \in Message : Wave(m) /\ net'[n][p] = Append(net[n][p], m)
    BY <2>2, <2>3, <2>4, WavesDiffer
  <2> QED BY <2>1, <2>2, <2>5, WavesHeard DEF Takes
<1>3. ASSUME NEW w, Closes(n, p, w)
      PROVE  Heard(n, p)' /\ Heard(p, n)'
  <2>1. /\ Takes(n, p) /\ Head(net[p][n]) = Leader(w) /\ p \in peers[n]
        /\ peers'[n] = peers[n] /\ known'[n] = known[n]
    BY <1>3 DEF Closes
  <2>2. Wave(Leader(w))
    BY DEF Wave, Leader
  <2>3. Leader(w) \in Message
    BY <2>1, <2>2, WaveTaken
  <2>4. net'[n][p] = net[n][p] \/ \E m \in Message : Wave(m) /\ net'[n][p] = Append(net[n][p], m)
    BY <1>3, <2>2, <2>3 DEF Closes
  <2> QED BY <2>1, <2>2, <2>4, WavesHeard DEF Takes
<1> QED BY <1>1, <1>2, <1>3

\* Each step of the two keeps who will lead, and who was heard of.
LEMMA PairGoes ==
    ASSUME NEW J, NEW a \in Node, NEW b \in Node, Pair(J, a, b), a < b, Modes(a, b),
           PairSteps(a, b) \/ PairSteps(b, a)
    PROVE  Modes(a, b)' /\ Heard(a, b)' /\ Heard(b, a)'
<1>1. Pair(J, b, a)
  BY PairSays
<1>3. CASE Chatting(a, b) \/ Chatting(b, a)
  <2>1. Chatting(a, b) /\ Chatting(b, a)
    BY <1>3 DEF Chatting
  <2> QED BY <1>1, <2>1, ChattingModes, ChattingHeard
<1>4. CASE Hears(a, b)
  BY <1>4, LowerHears, HearsHeard
<1>5. CASE Hears(b, a)
  BY <1>1, <1>5, HigherHears, HearsHeard
<1>6. CASE Resends(a, b) \/ \E c : Votes(a, b, c) \/ Closes(a, b, c)
  BY <1>6, WavingHeard, LowerResends, LowerVotes, LowerCloses
<1>7. CASE Resends(b, a) \/ \E c : Votes(b, a, c) \/ Closes(b, a, c)
  BY <1>1, <1>7, WavingHeard, HigherResends, HigherVotes, HigherCloses
<1> QED BY <1>3, <1>4, <1>5, <1>6, <1>7 DEF PairSteps

LEMMA InitDuo == \A a, b \in Node : Init => Duo(a, b)
<1> SUFFICES ASSUME NEW a \in Node, NEW b \in Node, Init
             PROVE  Heard(a, b) /\ Heard(b, a) /\ Idle(a, b)
  BY DEF Duo
<1>1. /\ net[a][b] = <<>> /\ net[b][a] = <<>>
      /\ peers[a] = {} /\ peers[b] = {} /\ known[a] = {} /\ known[b] = {}
      /\ ~Open(a) /\ ~Open(b) /\ told[a] = None /\ told[b] = None
  BY DEF Init, Open
<1> QED BY <1>1, EmptyWaves DEF Heard, Idle

LEMMA DuoStep ==
    ASSUME Inv, Waking, NEW a \in Node, NEW b \in Node, Node = {a, b}, a < b, Duo(a, b),
           [Next]_vars
    PROVE  Duo(a, b)'
<1> SUFFICES ASSUME contest' = {a, b}, Node \subseteq live', spent'["leave"] = 0
             PROVE  Modes(a, b)' /\ Heard(a, b)' /\ Heard(b, a)'
  BY DEF Duo, Modes
<1>1. contest = {a, b} /\ Node \subseteq live /\ spent["leave"] = 0
  BY JoinedGrows DEF Inv
<1>2. Modes(a, b) /\ Heard(a, b) /\ Heard(b, a)
  BY <1>1 DEF Duo, Modes
<1>3. PICK J : J = Joined
  OBVIOUS
<1>4. J = own
  BY <1>1, <1>3 DEF Joined
<1>5. Well(J)
  BY <1>3, InvFine DEF Inv, Counts, Well
<1>6. a # b
  BY NodeAssumption
<1>7. Pair(J, a, b)
  BY <1>1, <1>2, <1>4, <1>5, <1>6 DEF Pair
<1>8. PairSteps(a, b) \/ PairSteps(b, a)
  BY <1>7, NextPair
<1> QED BY <1>2, <1>7, <1>8, PairGoes

\* Of two nodes that contest the group and run: who will lead is who does.
LEMMA DuoAgree ==
    ASSUME Inv, Waking, NEW a \in Node, NEW b \in Node, Node = {a, b}, a < b, Duo(a, b),
           contest = {a, b}
    PROVE  (spent["leave"] = 0 => Agreement) /\ LowestLeads
<1>1. Members \subseteq {a, b}
  BY DEF Members, Inv, Counts
<1>2. spent["leave"] = 0 /\ Members = {a, b} => Modes(a, b)
  BY DEF Duo, Modes, Members
<1>3. spent["leave"] = 0 => Agreement
  <2> SUFFICES ASSUME spent["leave"] = 0, NEW n \in Members, NEW p \in Members,
                      told[n] # None, told[p] # None, n # p
               PROVE  told[n] = told[p]
    BY DEF Agreement
  <2>1. {n, p} = {a, b} /\ Modes(a, b)
    BY <1>1, <1>2
  <2> QED BY <2>1 DEF Modes, Idle, Waits, LowerLeads, HigherLeads
<1>4. LowestLeads
  <2> SUFFICES ASSUME Settled, Calm, Cardinality(Members) > 1, NEW m \in Members
               PROVE  \A n \in Members : told[n] = Lowest(Members \cap contest)
    BY DEF LowestLeads
  <2>1. Members = {a, b}
    BY <1>1, Another
  <2>2. Lowest({a, b}) = a
    BY NodeAssumption DEF Lowest
  <2>3. spent["leave"] = 0
    BY DEF Calm, Inv, Counts, Kinds
  <2>4. told[a] # None /\ told[b] # None
    BY <2>1, SettledTold, NodeAssumption
  <2> QED BY <1>2, <2>1, <2>2, <2>3, <2>4 DEF Modes, Idle, Waits, LowerLeads, HigherLeads
<1> QED BY <1>3, <1>4

\* Two nodes elect one: as long as nobody leaves the group they are never told
\* (_finish_election) different leaders, however HELLO, JOIN and the waves of
\* _handle_elect and _handle_leader meet, and what _maintain_elections sends
\* again; and the lower one leads a group nobody joined late.
THEOREM TwoAgree ==
    ASSUME NEW a \in Node, NEW b \in Node, Node = {a, b}, a < b
    PROVE  Spec => []((spent["leave"] = 0 => Agreement) /\ LowestLeads)
<1>1. Init => Duo(a, b)
  BY InitDuo
<1>2. Inv /\ Waking /\ Duo(a, b) /\ [Next]_vars => Duo(a, b)'
  BY DuoStep
<1>3. Inv /\ Waking /\ Duo(a, b) => (spent["leave"] = 0 => Agreement) /\ LowestLeads
  <2> SUFFICES ASSUME Inv, Waking, Duo(a, b)
               PROVE  (spent["leave"] = 0 => Agreement) /\ LowestLeads
    OBVIOUS
  <2>1. contest = {a, b} \/ \E c \in Node : contest \subseteq {c}
    BY DEF Inv, Counts
  <2> QED BY <2>1, DuoAgree, OneAgrees
<1> QED BY <1>1, <1>2, <1>3, WakingHolds, PTL DEF Spec
=============================================================================
