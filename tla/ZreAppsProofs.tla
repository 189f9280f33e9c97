--------------------------- MODULE ZreAppsProofs ---------------------------
(***************************************************************************)
(* Theorems about the programs of ZreConfig and ZreTasks, for every number *)
(* of nodes, settings and tasks.                                           *)
(***************************************************************************)
EXTENDS ZreConfig, ZreTasks, FiniteSetTheorems, SequenceTheorems, TLAPS

(* Sequences *)

LEMMA RangeEmpty == Range(<<>>) = {}
BY DEF Range

LEMMA RangeType ==
    ASSUME NEW S, NEW q \in Seq(S)
    PROVE  /\ \A x : x \in Range(q) <=> \E i \in 1..Len(q) : q[i] = x
           /\ Range(q) \subseteq S
<1>1. DOMAIN q = 1..Len(q) /\ \A i \in 1..Len(q) : q[i] \in S
  BY LenProperties, ElementOfSeq
<1> QED
  BY <1>1 DEF Range

LEMMA RangeAppend ==
    ASSUME NEW S, NEW q \in Seq(S), NEW x \in S
    PROVE  Append(q, x) \in Seq(S) /\ Range(Append(q, x)) = Range(q) \cup {x}
<1> DEFINE r == Append(q, x)
<1>1. /\ r \in Seq(S) /\ Len(r) = Len(q) + 1
      /\ \A i \in 1..Len(q) : r[i] = q[i]
      /\ r[Len(q) + 1] = x
  BY AppendProperties
<1> HIDE DEF r
<1>2. Len(q) \in Nat
  BY LenProperties
<1>3. \A y : y \in Range(r) <=> \E i \in 1..Len(q) + 1 : r[i] = y
  BY <1>1, RangeType
<1>4. \A y : y \in Range(q) <=> \E i \in 1..Len(q) : q[i] = y
  BY RangeType
<1>5. \A y : y \in Range(r) => y \in Range(q) \cup {x}
  BY <1>1, <1>2, <1>3, <1>4
<1>6. \A y : y \in Range(q) => y \in Range(r)
  BY <1>1, <1>2, <1>3, <1>4
<1>7. x \in Range(r)
  BY <1>1, <1>2, <1>3
<1> QED
  BY <1>1, <1>5, <1>6, <1>7 DEF r

LEMMA RangeTail ==
    ASSUME NEW S, NEW q \in Seq(S), q # <<>>
    PROVE  /\ Head(q) \in S /\ Tail(q) \in Seq(S)
           /\ Range(q) = {Head(q)} \cup Range(Tail(q))
<1>1. /\ Head(q) \in S /\ Tail(q) \in Seq(S)
      /\ Len(Tail(q)) = Len(q) - 1
      /\ \A i \in 1..Len(Tail(q)) : Tail(q)[i] = q[i + 1]
  BY HeadTailProperties
<1>2. Len(q) \in Nat \ {0}
  BY EmptySeq
<1>3. Head(q) = q[1]
  OBVIOUS
<1>4. \A x : x \in Range(q) <=> \E i \in 1..Len(q) : q[i] = x
  BY RangeType
<1>5. \A x : x \in Range(Tail(q)) <=> \E i \in 1..Len(Tail(q)) : Tail(q)[i] = x
  BY <1>1, RangeType
<1>6. ASSUME NEW x \in Range(q) PROVE x \in {Head(q)} \cup Range(Tail(q))
  <2>1. PICK i \in 1..Len(q) : q[i] = x
    BY <1>4
  <2>2. i # 1 => i - 1 \in 1..Len(Tail(q)) /\ Tail(q)[i - 1] = q[i]
    BY <1>1, <1>2
  <2> QED
    BY <1>3, <1>5, <2>1, <2>2
<1>7. ASSUME NEW x \in Range(Tail(q)) PROVE x \in Range(q)
  <2>1. PICK i \in 1..Len(Tail(q)) : Tail(q)[i] = x
    BY <1>5
  <2>2. i + 1 \in 1..Len(q) /\ q[i + 1] = x
    BY <1>1, <1>2, <2>1
  <2> QED
    BY <1>4, <2>2
<1>8. Head(q) \in Range(q)
  <2>1. 1 \in 1..Len(q)
    BY <1>2
  <2> QED
    BY <1>3, <1>4, <2>1
<1> QED
  BY <1>1, <1>6, <1>7, <1>8

LEMMA RangeConcat ==
    ASSUME NEW S, NEW q \in Seq(S), NEW r \in Seq(S)
    PROVE  q \o r \in Seq(S) /\ Range(q \o r) = Range(q) \cup Range(r)
<1>1. /\ q \o r \in Seq(S)
      /\ Len(q \o r) = Len(q) + Len(r)
      /\ \A i \in 1 .. Len(q) + Len(r) :
            (q \o r)[i] = IF i <= Len(q) THEN q[i] ELSE r[i - Len(q)]
  BY ConcatProperties
<1>2. Len(q) \in Nat /\ Len(r) \in Nat
  BY LenProperties
<1>3. \A x : x \in Range(q \o r) <=> \E i \in 1 .. Len(q) + Len(r) : (q \o r)[i] = x
  BY <1>1, RangeType
<1>4. \A x : x \in Range(q) <=> \E i \in 1..Len(q) : q[i] = x
  BY RangeType
<1>5. \A x : x \in Range(r) <=> \E i \in 1..Len(r) : r[i] = x
  BY RangeType
<1>6. ASSUME NEW x \in Range(q \o r) PROVE x \in Range(q) \cup Range(r)
  <2>1. PICK i \in 1 .. Len(q) + Len(r) : (q \o r)[i] = x
    BY <1>3
  <2>2. i <= Len(q) => i \in 1..Len(q) /\ q[i] = x
    BY <1>1, <1>2, <2>1
  <2>3. ~(i <= Len(q)) => i - Len(q) \in 1..Len(r) /\ r[i - Len(q)] = x
    BY <1>1, <1>2, <2>1
  <2> QED
    BY <1>4, <1>5, <2>2, <2>3
<1>7. ASSUME NEW x \in Range(q) PROVE x \in Range(q \o r)
  <2>1. PICK i \in 1..Len(q) : q[i] = x
    BY <1>4
  <2>2. i \in 1 .. Len(q) + Len(r) /\ (q \o r)[i] = x
    BY <1>1, <1>2, <2>1
  <2> QED
    BY <1>3, <2>2
<1>8. ASSUME NEW x \in Range(r) PROVE x \in Range(q \o r)
  <2>1. PICK i \in 1..Len(r) : r[i] = x
    BY <1>5
  <2>2. i + Len(q) \in 1 .. Len(q) + Len(r) /\ (q \o r)[i + Len(q)] = x
    BY <1>1, <1>2, <2>1
  <2> QED
    BY <1>3, <2>2
<1> QED
  BY <1>1, <1>6, <1>7, <1>8

\* SetToSeq lists a finite set.
LEMMA SetToSeqLists ==
    ASSUME NEW S, IsFiniteSet(S)
    PROVE  SetToSeq(S) \in Seq(S) /\ Range(SetToSeq(S)) = S
<1> DEFINE n == Cardinality(S)
           q == SetToSeq(S)
<1>1. n \in Nat /\ ExistsBijection(1..n, S)
  BY FS_CardinalityType
<1>2. \E f \in [1..n -> S] : IsInjective(f)
  BY <1>1 DEF ExistsBijection, Bijection, Injection
<1>3. q \in [1..n -> S] /\ IsInjective(q)
  BY <1>2 DEF SetToSeq
<1>4. q \in Injection(1..n, S)
  BY <1>3 DEF Injection
<1>5. Cardinality(1..n) = n
  BY <1>1, FS_Interval
<1>6. q \in Surjection(1..n, S)
  BY <1>4, <1>5, FS_Injection
<1> QED
  BY <1>1, <1>3, <1>6 DEF Range, Surjection

-----------------------------------------------------------------------------
(* The mesh *)

\* What the links are after a message to every node of a set.
LEMMA SendEffect ==
    ASSUME NEW S, net \in [Node -> [Node -> Seq(S)]],
           NEW n \in Node, NEW to, NEW msg \in S, Send(n, to, msg)
    PROVE  /\ net' \in [Node -> [Node -> Seq(S)]]
           /\ \A a, b \in Node :
                 net'[a][b] = IF a = n /\ b \in to THEN Append(net[a][b], msg) ELSE net[a][b]
<1>1. \A a, b \in Node :
         net'[a][b] = IF a = n /\ b \in to THEN Append(net[a][b], msg) ELSE net[a][b]
  BY DEF Send
<1>2. \A a, b \in Node : Append(net[a][b], msg) \in Seq(S)
  BY RangeAppend
<1> QED
  BY <1>1, <1>2 DEF Send

\* What they are after n handled a message of p.
LEMMA ReceiveEffect ==
    ASSUME NEW S, net \in [Node -> [Node -> Seq(S)]],
           NEW n \in Node, NEW p \in Node, n # p, Hello(n) \in S, Receive(n, p)
    PROVE  /\ net' \in [Node -> [Node -> Seq(S)]]
           /\ net'[p][n] = Tail(net[p][n])
           /\ net'[n][p] = IF p \in knows[n] THEN net[n][p] ELSE Append(net[n][p], Hello(n))
           /\ \A a, b \in Node : <<a, b>> \notin {<<p, n>>, <<n, p>>} => net'[a][b] = net[a][b]
<1>1. net[p][n] # <<>> /\ Tail(net[p][n]) \in Seq(S)
  BY RangeTail DEF Receive
<1>2. Append(net[n][p], Hello(n)) \in Seq(S)
  BY RangeAppend
<1>3. net' = IF p \in knows[n] THEN [net EXCEPT ![p][n] = Tail(@)]
             ELSE [[net EXCEPT ![p][n] = Tail(@)] EXCEPT ![n][p] = Append(@, Hello(n))]
  BY DEF Receive
<1> QED
  BY <1>1, <1>2, <1>3

-----------------------------------------------------------------------------
(* config_sync.py *)

ConfigStep == [ConfigNext \/ (GroupNext /\ UNCHANGED configVars)]_<<mesh, configVars>>

LEMMA ConfigInitial ==
    ASSUME up \subseteq Node, joined = up, GroupInit, ConfigInit
    PROVE  ConfigTypes /\ Honest /\ Behind /\ AllCovered
<1>1. writer \in [Key -> SUBSET Node]
  BY WriterAssumption DEF ConfigInit
<1>2. ConfigTypes
  BY <1>1, EmptySeq DEF ConfigTypes, GroupInit, ConfigInit
<1>3. Honest
  BY RangeEmpty DEF Honest, GroupInit, ConfigInit
<1>4. Behind
  BY <1>1 DEF Behind, ConfigInit
<1>5. AllCovered
  BY DEF AllCovered, Greeted, Covered, GroupInit, ConfigInit
<1> QED
  BY <1>2, <1>3, <1>4, <1>5

\* A message that n handles is one of p, for whom n is not p.
LEMMA FirstLetter ==
    ASSUME ConfigTypes, Honest, NEW n \in Node, NEW p \in Node, net[p][n] # <<>>
    PROVE  /\ n # p /\ {n, p} \subseteq up
           /\ Head(net[p][n]) \in Letters /\ Head(net[p][n]) \in Range(net[p][n])
           /\ Tail(net[p][n]) \in Seq(Letters)
           /\ Range(net[p][n]) = {Head(net[p][n])} \cup Range(Tail(net[p][n]))
           /\ Head(net[p][n]).from = p
<1>1. net[p][n] \in Seq(Letters)
  BY DEF ConfigTypes
<1>2. /\ Head(net[p][n]) \in Letters /\ Head(net[p][n]) \in Range(net[p][n])
      /\ Tail(net[p][n]) \in Seq(Letters)
      /\ Range(net[p][n]) = {Head(net[p][n])} \cup Range(Tail(net[p][n]))
  BY <1>1, RangeTail
<1> QED
  BY <1>2 DEF Honest

LEMMA FirstEvent ==
    ASSUME ConfigTypes, Honest, NEW n \in Node, events[n] # <<>>
    PROVE  /\ n \in up
           /\ Event(n) \in Letters /\ Event(n) \in Range(events[n])
           /\ Tail(events[n]) \in Seq(Letters)
           /\ Range(events[n]) = {Event(n)} \cup Range(Tail(events[n]))
BY RangeTail DEF ConfigTypes, Event

LEMMA FirstTask ==
    ASSUME ConfigTypes, Honest, NEW n \in Node, tasks[n] # <<>>
    PROVE  /\ n \in up
           /\ Head(tasks[n]) \in Updates /\ Head(tasks[n]) \in Range(tasks[n])
           /\ Tail(tasks[n]) \in Seq(Updates)
           /\ Range(tasks[n]) = {Head(tasks[n])} \cup Range(Tail(tasks[n]))
BY RangeTail DEF ConfigTypes

LEMMA HelloLetter ==
    ASSUME ConfigTypes, NEW n \in up
    PROVE  Hello(n) \in Letters
BY DEF ConfigTypes, Hello, Letters

\* What a node that sees another enter shouts: all it has.
LEMMA FullConfigFacts ==
    ASSUME ConfigTypes, NEW n \in Node
    PROVE  /\ FullConfig(n) \in Seq(Updates)
           /\ Range(FullConfig(n)) =
                 {Update(n, k, config[n][k], versions[n][k]) : k \in {k \in Key : config[n][k] # <<>>}}
<1> DEFINE S == {k \in Key : config[n][k] # <<>>}
           q == SetToSeq(S)
<1>1. q \in Seq(S) /\ Range(q) = S
  <2>1. IsFiniteSet(S)
    BY FiniteAssumption, FS_Subset
  <2> QED
    BY <2>1, SetToSeqLists
<1>2. FullConfig(n) = [i \in DOMAIN q |-> Update(n, q[i], config[n][q[i]], versions[n][q[i]])]
  BY DEF FullConfig
<1>3. \A k \in S : Update(n, k, config[n][k], versions[n][k]) \in Updates
  BY DEF ConfigTypes, Update, Updates
<1> HIDE DEF q
<1>4. DOMAIN q = 1..Len(q) /\ Len(q) \in Nat /\ \A i \in 1..Len(q) : q[i] \in S
  BY <1>1, LenProperties, ElementOfSeq
<1>5. FullConfig(n) \in [1..Len(q) -> Updates]
  BY <1>2, <1>3, <1>4
<1>6. \A k : k \in S <=> \E i \in 1..Len(q) : q[i] = k
  BY <1>1, RangeType
<1>7. FullConfig(n) \in Seq(Updates)
  BY <1>4, <1>5
<1>8. Range(FullConfig(n)) =
         {Update(n, k, config[n][k], versions[n][k]) : k \in S}
  BY <1>2, <1>4, <1>6 DEF Range
<1> QED
  BY <1>7, <1>8

\* What each action does, as far as the invariant goes; u, s, e, m and h are the
\* update, the letters and the event that it is about.
SetDoes(n, k, u) ==
    /\ u = Update(n, k, <<n, versions[n][k] + 1>>, versions[n][k] + 1)
    /\ n \in up /\ n \in writer[k] /\ u \in Updates /\ u.value # <<>>
    /\ tasks' \in [Node -> Seq(Updates)] /\ Range(tasks'[n]) = Range(tasks[n]) \cup {u}
    /\ \A a \in Node \ {n} : tasks'[a] = tasks[a]
    /\ versions' = [versions EXCEPT ![n][k] = u.version]
    /\ config' = [config EXCEPT ![n][k] = u.value]
    /\ UNCHANGED <<mesh, writer>>

\* What Set does.
LEMMA SetEffect ==
    ASSUME ConfigTypes, NEW n \in Node, NEW k \in Key, Set(n, k)
    PROVE  \E u : SetDoes(n, k, u)
<1>0. PICK u : u = Update(n, k, <<n, versions[n][k] + 1>>, versions[n][k] + 1)
  OBVIOUS
<1>1. /\ n \in up \cap writer[k]
      /\ tasks' = [tasks EXCEPT ![n] = @ \o <<u>>]
      /\ versions' = [versions EXCEPT ![n][k] = versions[n][k] + 1]
      /\ config' = [config EXCEPT ![n][k] = <<n, versions[n][k] + 1>>]
      /\ UNCHANGED <<mesh, writer>>
  BY <1>0 DEF Set, Schedule
<1>2. versions[n][k] \in Nat
  BY DEF ConfigTypes
<1>3. /\ u \in Updates /\ u.value = <<n, versions[n][k] + 1>> /\ u.version = versions[n][k] + 1
      /\ u.value # <<>>
  BY <1>0, <1>2 DEF Update, Updates, Value
<1> DEFINE q == <<u>>
<1>4. q \in Seq(Updates) /\ Len(q) = 1 /\ q[1] = u
  BY <1>3
<1>5. tasks[n] \in Seq(Updates) /\ tasks'[n] = tasks[n] \o q
  BY <1>1 DEF ConfigTypes
<1> HIDE DEF q
<1>6. Range(q) = {u}
  BY <1>4, RangeType
<1>7. tasks'[n] \in Seq(Updates) /\ Range(tasks'[n]) = Range(tasks[n]) \cup {u}
  BY <1>4, <1>5, <1>6, RangeConcat
<1>8. tasks' \in [Node -> Seq(Updates)] /\ \A a \in Node \ {n} : tasks'[a] = tasks[a]
  BY <1>1, <1>5, <1>7 DEF ConfigTypes, q
<1> QED
  BY <1>0, <1>1, <1>3, <1>7, <1>8 DEF SetDoes

RunTaskDoes(n, u, s) ==
    /\ u = Head(tasks[n]) /\ s = Data("SHOUT", n, u)
    /\ n \in up /\ u \in Updates /\ u \in Range(tasks[n])
    /\ s \in Letters
    /\ net' \in [Node -> [Node -> Seq(Letters)]]
    /\ \A b \in members[n] : Range(net'[n][b]) = Range(net[n][b]) \cup {s}
    /\ \A a, b \in Node : (a = n => b \notin members[n]) => net'[a][b] = net[a][b]
    /\ tasks' \in [Node -> Seq(Updates)]
    /\ Range(tasks[n]) = {u} \cup Range(tasks'[n])
    /\ \A a \in Node \ {n} : tasks'[a] = tasks[a]
    /\ UNCHANGED <<up, joined, knows, members, events, writer, config, versions>>

\* What RunTask does: the update goes to the members.
LEMMA RunTaskEffect ==
    ASSUME ConfigTypes, Honest, NEW n \in Node, RunTask(n)
    PROVE  \E u, s : RunTaskDoes(n, u, s)
<1>0. PICK u, s : u = Head(tasks[n]) /\ s = Data("SHOUT", n, u)
  OBVIOUS
<1>1. /\ tasks[n] # <<>>
      /\ tasks' = [tasks EXCEPT ![n] = Tail(@)]
      /\ Send(n, members[n], s)
      /\ UNCHANGED <<up, joined, knows, members, events, writer, config, versions>>
  BY <1>0 DEF RunTask, Shout, peers
<1>2. n \in up /\ u \in Updates /\ Tail(tasks[n]) \in Seq(Updates)
  BY <1>0, <1>1, FirstTask
<1>3. Range(tasks[n]) = {u} \cup Range(Tail(tasks[n]))
  BY <1>0, <1>1, FirstTask
<1>4. s \in Letters
  BY <1>0, <1>2 DEF Data, Letters
<1>5. /\ tasks'[n] = Tail(tasks[n]) /\ tasks' \in [Node -> Seq(Updates)]
      /\ \A a \in Node \ {n} : tasks'[a] = tasks[a]
  BY <1>1, <1>2 DEF ConfigTypes
<1>6. net \in [Node -> [Node -> Seq(Letters)]]
  BY DEF ConfigTypes
<1>7. /\ net' \in [Node -> [Node -> Seq(Letters)]]
      /\ \A a, b \in Node :
            net'[a][b] = IF a = n /\ b \in members[n] THEN Append(net[a][b], s) ELSE net[a][b]
  BY <1>1, <1>4, <1>6, SendEffect DEF Send
<1>8. ASSUME NEW b \in members[n] PROVE Range(net'[n][b]) = Range(net[n][b]) \cup {s}
  <2>1. b \in Node /\ net[n][b] \in Seq(Letters)
    BY <1>6 DEF ConfigTypes
  <2>2. net'[n][b] = Append(net[n][b], s)
    BY <1>7, <2>1
  <2> QED
    BY <1>4, <2>1, <2>2, RangeAppend
<1>9. \A a, b \in Node : (a = n => b \notin members[n]) => net'[a][b] = net[a][b]
  BY <1>7
<1>10. u \in Range(tasks[n])
  BY <1>0, <1>1, FirstTask
<1> QED
  BY <1>0, <1>1, <1>2, <1>3, <1>4, <1>5, <1>7, <1>8, <1>9, <1>10 DEF RunTaskDoes

HandleDoes(n, e) ==
    /\ e = Event(n)
    /\ n \in up /\ e \in Letters /\ e \in Range(events[n])
    /\ events' \in [Node -> Seq(Letters)]
    /\ \A a \in Node \ {n} : events'[a] = events[a]
    /\ Range(events[n]) = {e} \cup Range(events'[n])
    /\ UNCHANGED <<up, joined, knows, members, net, writer>>
    /\ \/ /\ e.cmd = "HELLO"
          /\ tasks' \in [Node -> Seq(Updates)]
          /\ \A a \in Node \ {n} : tasks'[a] = tasks[a]
          /\ Range(tasks'[n]) = Range(tasks[n]) \cup Range(FullConfig(n))
          /\ UNCHANGED <<config, versions>>
       \/ /\ e.cmd = "SHOUT" /\ e.payload \in Updates
          /\ IF Newer(n, e.payload)
             THEN /\ config' = [config EXCEPT ![n][e.payload.key] = e.payload.value]
                  /\ versions' = [versions EXCEPT ![n][e.payload.key] = e.payload.version]
             ELSE UNCHANGED <<config, versions>>
          /\ UNCHANGED tasks

\* What HandleConfig does to the queues, and to the settings.
LEMMA HandleEffect ==
    ASSUME ConfigTypes, Honest, NEW n \in Node, HandleConfig(n)
    PROVE  \E e : HandleDoes(n, e)
<1>0. PICK e : e = Event(n)
  OBVIOUS
<1>1. /\ events[n] # <<>>
      /\ events' = [events EXCEPT ![n] = Tail(@)]
      /\ UNCHANGED <<up, joined, knows, members, net, writer>>
  BY DEF HandleConfig, Consume, peers
<1>2. /\ n \in up /\ e \in Letters /\ e \in Range(events[n])
      /\ Tail(events[n]) \in Seq(Letters)
      /\ Range(events[n]) = {e} \cup Range(Tail(events[n]))
  BY <1>0, <1>1, FirstEvent
<1>3. /\ events'[n] = Tail(events[n]) /\ events' \in [Node -> Seq(Letters)]
      /\ \A a \in Node \ {n} : events'[a] = events[a]
  BY <1>1, <1>2 DEF ConfigTypes
<1>4. CASE e.cmd = "HELLO"
  <2>1. tasks' = [tasks EXCEPT ![n] = @ \o FullConfig(n)] /\ UNCHANGED <<config, versions>>
    BY <1>0, <1>4 DEF HandleConfig, Answer, Schedule
  <2>2. tasks'[n] = tasks[n] \o FullConfig(n) /\ tasks[n] \in Seq(Updates)
    BY <2>1 DEF ConfigTypes
  <2>3. tasks'[n] \in Seq(Updates) /\ Range(tasks'[n]) = Range(tasks[n]) \cup Range(FullConfig(n))
    BY <2>2, FullConfigFacts, RangeConcat
  <2>4. tasks' \in [Node -> Seq(Updates)] /\ \A a \in Node \ {n} : tasks'[a] = tasks[a]
    BY <2>1, <2>2, <2>3 DEF ConfigTypes
  <2> QED
    BY <1>0, <1>1, <1>2, <1>3, <1>4, <2>1, <2>3, <2>4 DEF HandleDoes
<1>5. CASE e.cmd = "SHOUT"
  <2>1. e.payload \in Updates
    BY <1>2, <1>5 DEF Letters
  <2> QED
    BY <1>0, <1>1, <1>2, <1>3, <1>5, <2>1 DEF HandleConfig, HandleDoes
<1> QED
  BY <1>2, <1>4, <1>5 DEF Letters

LetterDoes(n, p, m, h) ==
    /\ m = Head(net[p][n]) /\ h = Hello(n)
    /\ n # p /\ {n, p} \subseteq up /\ m \in Letters /\ m.from = p
    /\ m \in Range(net[p][n])
    /\ Range(net[p][n]) = {m} \cup Range(net'[p][n])
    /\ net' \in [Node -> [Node -> Seq(Letters)]]
    /\ h \in Letters
    /\ IF p \in knows[n] THEN net'[n][p] = net[n][p]
       ELSE Range(net'[n][p]) = Range(net[n][p]) \cup {h}
    /\ \A a, b \in Node : <<a, b>> \notin {<<p, n>>, <<n, p>>} => net'[a][b] = net[a][b]
    /\ knows' = [knows EXCEPT ![n] = @ \cup {p}]
    /\ members' = IF m.cmd = "HELLO" THEN [members EXCEPT ![n] = @ \cup {p}] ELSE members
    /\ events' \in [Node -> Seq(Letters)]
    /\ \A a \in Node \ {n} : events'[a] = events[a]
    /\ Range(events'[n]) = Range(events[n]) \cup {m}
    /\ UNCHANGED <<up, joined>>

\* What Receive does.
LEMMA LetterEffect ==
    ASSUME ConfigTypes, Honest, NEW n \in Node, NEW p \in Node, Receive(n, p)
    PROVE  \E m, h : LetterDoes(n, p, m, h)
<1>0. PICK m, h : m = Head(net[p][n]) /\ h = Hello(n)
  OBVIOUS
<1>1. net[p][n] # <<>>
  BY DEF Receive
<1>2. /\ n # p /\ {n, p} \subseteq up /\ m \in Letters /\ m.from = p
      /\ m \in Range(net[p][n])
      /\ Range(net[p][n]) = {m} \cup Range(Tail(net[p][n]))
  BY <1>0, <1>1, FirstLetter
<1>3. h \in Letters
  BY <1>0, <1>2, HelloLetter
<1>4. net \in [Node -> [Node -> Seq(Letters)]]
  BY DEF ConfigTypes
<1>5. /\ net' \in [Node -> [Node -> Seq(Letters)]]
      /\ net'[p][n] = Tail(net[p][n])
      /\ net'[n][p] = IF p \in knows[n] THEN net[n][p] ELSE Append(net[n][p], h)
      /\ \A a, b \in Node : <<a, b>> \notin {<<p, n>>, <<n, p>>} => net'[a][b] = net[a][b]
  <2>1. Hello(n) \in Letters /\ n # p
    BY <1>0, <1>2, <1>3
  <2>2. /\ net' \in [Node -> [Node -> Seq(Letters)]]
        /\ net'[p][n] = Tail(net[p][n])
        /\ net'[n][p] = IF p \in knows[n] THEN net[n][p] ELSE Append(net[n][p], Hello(n))
        /\ \A a, b \in Node : <<a, b>> \notin {<<p, n>>, <<n, p>>} => net'[a][b] = net[a][b]
    BY <1>4, <2>1, ReceiveEffect, Zenon DEF Receive
  <2> QED
    BY <1>0, <2>2
<1>6. /\ m.cmd \in {"HELLO", "SHOUT"} /\ (m.cmd = "HELLO" => m.payload = TRUE)
  BY <1>2 DEF Letters
<1>7. /\ knows' = [knows EXCEPT ![n] = @ \cup {p}]
      /\ members' = IF m.cmd = "HELLO" THEN [members EXCEPT ![n] = @ \cup {p}] ELSE members
      /\ events' = [events EXCEPT ![n] = Append(@, m)]
      /\ UNCHANGED <<up, joined>>
  BY <1>0, <1>6 DEF Receive
<1>8. events[n] \in Seq(Letters) /\ events'[n] = Append(events[n], m)
  BY <1>7 DEF ConfigTypes
<1>9. events'[n] \in Seq(Letters) /\ Range(events'[n]) = Range(events[n]) \cup {m}
  BY <1>2, <1>8, RangeAppend
<1>10. events' \in [Node -> Seq(Letters)] /\ \A a \in Node \ {n} : events'[a] = events[a]
  BY <1>7, <1>9 DEF ConfigTypes
<1>11. IF p \in knows[n] THEN net'[n][p] = net[n][p]
       ELSE Range(net'[n][p]) = Range(net[n][p]) \cup {h}
  <2>1. net[n][p] \in Seq(Letters)
    BY <1>4
  <2> QED
    BY <1>3, <1>5, <2>1, RangeAppend
<1>12. Range(net[p][n]) = {m} \cup Range(net'[p][n])
  BY <1>2, <1>5
<1> QED
  BY <1>0, <1>2, <1>3, <1>5, <1>7, <1>9, <1>10, <1>11, <1>12 DEF LetterDoes

DiscoverDoes(n, p, h) ==
    /\ h = Hello(n)
    /\ n # p /\ {n, p} \subseteq up /\ p \notin knows[n]
    /\ h \in Letters
    /\ net' \in [Node -> [Node -> Seq(Letters)]]
    /\ Range(net'[n][p]) = Range(net[n][p]) \cup {h}
    /\ \A a, b \in Node : ~(a = n /\ b = p) => net'[a][b] = net[a][b]
    /\ knows' = [knows EXCEPT ![n] = @ \cup {p}]
    /\ UNCHANGED <<up, joined, members, events>>

\* What Discover does.
LEMMA DiscoverEffect ==
    ASSUME ConfigTypes, NEW n \in Node, NEW p \in Node, Discover(n, p)
    PROVE  \E h : DiscoverDoes(n, p, h)
<1>0. PICK h : h = Hello(n)
  OBVIOUS
<1>1. /\ n # p /\ {n, p} \subseteq up /\ p \notin knows[n] /\ Send(n, {p}, h)
      /\ knows' = [knows EXCEPT ![n] = @ \cup {p}]
      /\ UNCHANGED <<up, joined, members, events>>
  BY <1>0 DEF Discover
<1>2. h \in Letters
  BY <1>0, <1>1, HelloLetter
<1>3. net \in [Node -> [Node -> Seq(Letters)]]
  BY DEF ConfigTypes
<1>4. /\ net' \in [Node -> [Node -> Seq(Letters)]]
      /\ \A a, b \in Node :
            net'[a][b] = IF a = n /\ b \in {p} THEN Append(net[a][b], h) ELSE net[a][b]
  BY <1>1, <1>2, <1>3, SendEffect DEF Send
<1>5. Range(net'[n][p]) = Range(net[n][p]) \cup {h}
  <2>1. net[n][p] \in Seq(Letters) /\ net'[n][p] = Append(net[n][p], h)
    BY <1>1, <1>3, <1>4
  <2> QED
    BY <1>2, <2>1, RangeAppend
<1>6. \A a, b \in Node : ~(a = n /\ b = p) => net'[a][b] = net[a][b]
  BY <1>4
<1> QED
  BY <1>0, <1>1, <1>2, <1>4, <1>5, <1>6 DEF DiscoverDoes

LEMMA SetKeepsTypes ==
    ASSUME ConfigTypes, NEW n \in Node, NEW k \in Key, Set(n, k)
    PROVE  ConfigTypes'
<1>1. PICK u : SetDoes(n, k, u)
  BY SetEffect
<1>2. u.version \in Nat \ {0} /\ u.value \in Value
  BY <1>1 DEF SetDoes, Updates
<1>3. /\ versions' \in [Node -> [Key -> Nat]]
      /\ config' \in [Node -> [Key -> {<<>>} \cup Value]]
      /\ tasks' \in [Node -> Seq(Updates)]
  BY <1>1, <1>2 DEF SetDoes, ConfigTypes
<1>4. \A a \in Node, j \in Key : config'[a][j] = <<>> <=> versions'[a][j] = 0
  BY <1>1, <1>2 DEF SetDoes, ConfigTypes
<1>5. \A a \in Node : a \notin up => /\ tasks'[a] = <<>>
                                     /\ \A j \in Key : versions'[a][j] = 0
  BY <1>1 DEF SetDoes, ConfigTypes
<1> QED
  BY <1>1, <1>3, <1>4, <1>5 DEF SetDoes, ConfigTypes, mesh

LEMMA ConfigTypesStep == ConfigTypes /\ Honest /\ ConfigStep => ConfigTypes'
<1> SUFFICES ASSUME ConfigTypes, Honest, ConfigStep PROVE ConfigTypes'
  OBVIOUS
<1>1. CASE UNCHANGED <<mesh, configVars>>
  BY <1>1 DEF ConfigTypes, mesh, configVars
<1>2. ASSUME NEW n \in Node, RunTask(n) PROVE ConfigTypes'
  <2>1. PICK u, s : RunTaskDoes(n, u, s)
    BY <1>2, RunTaskEffect
  <2> QED
    BY <2>1 DEF RunTaskDoes, ConfigTypes
<1>3. ASSUME NEW n \in Node, HandleConfig(n) PROVE ConfigTypes'
  <2>0. PICK e : HandleDoes(n, e)
    BY <1>3, HandleEffect
  <2>1. /\ n \in up
        /\ events' \in [Node -> Seq(Letters)]
        /\ \A a \in Node \ {n} : events'[a] = events[a]
        /\ UNCHANGED <<up, joined, knows, members, net, writer>>
    BY <2>0 DEF HandleDoes
  <2>2. \/ /\ tasks' \in [Node -> Seq(Updates)]
           /\ \A a \in Node \ {n} : tasks'[a] = tasks[a]
           /\ UNCHANGED <<config, versions>>
        \/ /\ e.payload \in Updates
           /\ config' = [config EXCEPT ![n][e.payload.key] = e.payload.value]
           /\ versions' = [versions EXCEPT ![n][e.payload.key] = e.payload.version]
           /\ UNCHANGED tasks
        \/ UNCHANGED <<config, versions, tasks>>
    BY <2>0 DEF HandleDoes
  <2>3. events' \in [Node -> Seq(Letters)] /\ \A a \in Node \ up : events'[a] = <<>>
    BY <2>1 DEF ConfigTypes
  <2>4. CASE /\ tasks' \in [Node -> Seq(Updates)]
             /\ \A a \in Node \ {n} : tasks'[a] = tasks[a]
             /\ UNCHANGED <<config, versions>>
    BY <2>1, <2>3, <2>4 DEF ConfigTypes
  <2>5. CASE /\ e.payload \in Updates
             /\ config' = [config EXCEPT ![n][e.payload.key] = e.payload.value]
             /\ versions' = [versions EXCEPT ![n][e.payload.key] = e.payload.version]
             /\ UNCHANGED tasks
    <3> DEFINE k == e.payload.key
    <3>1. /\ k \in Key /\ e.payload.value \in Value /\ e.payload.version \in Nat \ {0}
          /\ e.payload.value # <<>>
      BY <2>5 DEF Updates, Value
    <3> DEFINE v == e.payload.value
               w == e.payload.version
    <3> HIDE DEF k, v, w
    <3>2. /\ config' = [config EXCEPT ![n][k] = v]
          /\ versions' = [versions EXCEPT ![n][k] = w]
      BY <2>5 DEF k, v, w
    <3>3. k \in Key /\ v \in Value /\ w \in Nat \ {0} /\ v # <<>>
      BY <3>1 DEF k, v, w
    <3>4. /\ versions' \in [Node -> [Key -> Nat]]
          /\ config' \in [Node -> [Key -> {<<>>} \cup Value]]
      BY <3>2, <3>3 DEF ConfigTypes
    <3>5. \A a \in Node, j \in Key : config'[a][j] = <<>> <=> versions'[a][j] = 0
      BY <3>2, <3>3 DEF ConfigTypes
    <3>6. \A a \in Node \ up, j \in Key : versions'[a][j] = 0
      BY <2>1, <3>2 DEF ConfigTypes
    <3> QED
      BY <2>1, <2>3, <2>5, <3>4, <3>5, <3>6 DEF ConfigTypes
  <2>6. CASE UNCHANGED <<config, versions, tasks>>
    BY <2>1, <2>3, <2>6 DEF ConfigTypes
  <2> QED
    BY <2>2, <2>4, <2>5, <2>6
<1>4. ASSUME NEW n \in Node, NEW p \in Node, Discover(n, p), UNCHANGED configVars
      PROVE  ConfigTypes'
  <2>1. PICK h : DiscoverDoes(n, p, h)
    BY <1>4, DiscoverEffect
  <2> QED
    BY <1>4, <2>1, SMTT(30) DEF DiscoverDoes, ConfigTypes, configVars
<1>5. ASSUME NEW n \in Node, NEW p \in Node, Receive(n, p), UNCHANGED configVars
      PROVE  ConfigTypes'
  <2>0. PICK m, h : LetterDoes(n, p, m, h)
    BY <1>5, LetterEffect
  <2>1. /\ n # p /\ {n, p} \subseteq up
        /\ net' \in [Node -> [Node -> Seq(Letters)]]
        /\ knows' = [knows EXCEPT ![n] = @ \cup {p}]
        /\ members' = IF m.cmd = "HELLO" THEN [members EXCEPT ![n] = @ \cup {p}] ELSE members
        /\ events' \in [Node -> Seq(Letters)]
        /\ \A a \in Node \ {n} : events'[a] = events[a]
        /\ UNCHANGED <<up, joined>>
    BY <2>0 DEF LetterDoes
  <2>2. knows' \in [Node -> SUBSET up] /\ members' \in [Node -> SUBSET up]
    <3>1. knows' \in [Node -> SUBSET up] /\ [members EXCEPT ![n] = @ \cup {p}] \in [Node -> SUBSET up]
      BY <2>1 DEF ConfigTypes
    <3> QED
      BY <2>1, <3>1 DEF ConfigTypes
  <2>3. \A a \in Node : a \notin knows'[a] /\ members'[a] \subseteq knows'[a]
    BY <2>1 DEF ConfigTypes
  <2>4. \A a \in Node \ up : events'[a] = <<>>
    BY <2>1 DEF ConfigTypes
  <2>5. UNCHANGED <<writer, config, versions, tasks>>
    BY <1>5 DEF configVars
  <2>6. /\ net' \in [Node -> [Node -> Seq(Letters)]] /\ events' \in [Node -> Seq(Letters)]
        /\ UNCHANGED <<up, joined>>
    BY <2>1
  <2>7. up' \subseteq Node /\ joined' = up' /\ writer' \in [Key -> SUBSET Node]
    BY <2>5, <2>6 DEF ConfigTypes
  <2>8. /\ versions' \in [Node -> [Key -> Nat]]
        /\ config' \in [Node -> [Key -> {<<>>} \cup Value]]
        /\ tasks' \in [Node -> Seq(Updates)]
    BY <2>5 DEF ConfigTypes
  <2>9. \A a \in Node :
           /\ \A k \in Key : config'[a][k] = <<>> <=> versions'[a][k] = 0
           /\ a \notin up' => /\ tasks'[a] = <<>> /\ events'[a] = <<>>
                             /\ \A k \in Key : versions'[a][k] = 0
    BY <2>4, <2>5, <2>6 DEF ConfigTypes
  <2>10. knows' \in [Node -> SUBSET up'] /\ members' \in [Node -> SUBSET up']
    BY <2>2, <2>6
  <2> QED
    BY <2>3, <2>6, <2>7, <2>8, <2>9, <2>10 DEF ConfigTypes
<1>6. \A n \in Node, k \in Key : Set(n, k) => ConfigTypes'
  BY SetKeepsTypes
<1> QED
  BY <1>1, <1>2, <1>3, <1>4, <1>5, <1>6 DEF ConfigStep, ConfigNext, GroupNext

\* A version goes up where its node sets it or takes an update of it.
LEMMA SettingStep ==
    ASSUME ConfigTypes, Honest, ConfigStep
    PROVE  /\ UNCHANGED <<up, writer>>
           /\ \A n \in Node, k \in Key :
                 \/ versions'[n][k] = versions[n][k] /\ config'[n][k] = config[n][k]
                 \/ /\ versions'[n][k] = versions[n][k] + 1 /\ n \in writer[k]
                    /\ \E u \in Range(tasks'[n]) : u.key = k /\ u.version = versions'[n][k]
                 \/ \E m \in Range(events[n]) :
                       /\ m.cmd = "SHOUT" /\ m.payload \in Updates
                       /\ m.payload.key = k /\ m.payload.version > versions[n][k]
                       /\ versions'[n][k] = m.payload.version
                       /\ config'[n][k] = m.payload.value
<1>1. CASE UNCHANGED <<mesh, configVars>>
  BY <1>1 DEF mesh, configVars
<1>2. ASSUME NEW a \in Node, RunTask(a) PROVE UNCHANGED <<up, writer, config, versions>>
  BY <1>2 DEF RunTask, peers
<1>3. ASSUME NEW a \in Node, HandleConfig(a)
      PROVE  /\ UNCHANGED <<up, writer>>
             /\ \A n \in Node, k \in Key :
                   \/ versions'[n][k] = versions[n][k] /\ config'[n][k] = config[n][k]
                   \/ \E m \in Range(events[n]) :
                         /\ m.cmd = "SHOUT" /\ m.payload \in Updates
                         /\ m.payload.key = k /\ m.payload.version > versions[n][k]
                         /\ versions'[n][k] = m.payload.version
                         /\ config'[n][k] = m.payload.value
  <2>0. PICK e : HandleDoes(a, e)
    BY <1>3, HandleEffect
  <2>1. e \in Range(events[a]) /\ UNCHANGED <<up, writer>>
    BY <2>0 DEF HandleDoes
  <2>2. \/ UNCHANGED <<config, versions>>
        \/ /\ e.cmd = "SHOUT" /\ e.payload \in Updates /\ Newer(a, e.payload)
           /\ config' = [config EXCEPT ![a][e.payload.key] = e.payload.value]
           /\ versions' = [versions EXCEPT ![a][e.payload.key] = e.payload.version]
    BY <2>0 DEF HandleDoes
  <2>3. ASSUME e.cmd = "SHOUT", e.payload \in Updates, Newer(a, e.payload),
               config' = [config EXCEPT ![a][e.payload.key] = e.payload.value],
               versions' = [versions EXCEPT ![a][e.payload.key] = e.payload.version],
               NEW n \in Node, NEW k \in Key
        PROVE  \/ versions'[n][k] = versions[n][k] /\ config'[n][k] = config[n][k]
               \/ /\ n = a /\ e.payload.key = k /\ e.payload.version > versions[n][k]
                  /\ versions'[n][k] = e.payload.version
                  /\ config'[n][k] = e.payload.value
    BY <2>3 DEF ConfigTypes, Newer
  <2> QED
    BY <2>1, <2>2, <2>3
<1>4. ASSUME NEW a \in Node, NEW j \in Key, Set(a, j)
      PROVE  /\ UNCHANGED <<up, writer>>
             /\ \A n \in Node, k \in Key :
                   \/ versions'[n][k] = versions[n][k] /\ config'[n][k] = config[n][k]
                   \/ /\ versions'[n][k] = versions[n][k] + 1 /\ n \in writer[k]
                      /\ \E u \in Range(tasks'[n]) : u.key = k /\ u.version = versions'[n][k]
  <2>1. PICK u : SetDoes(a, j, u)
    BY <1>4, SetEffect
  <2>2. u.key = j /\ u.version = versions[a][j] + 1
    BY <2>1 DEF SetDoes, Update
  <2>3. UNCHANGED <<up, writer>>
    BY <2>1 DEF SetDoes, mesh
  <2>4. ASSUME NEW n \in Node, NEW k \in Key, <<n, k>> # <<a, j>>
        PROVE  versions'[n][k] = versions[n][k] /\ config'[n][k] = config[n][k]
    BY <2>1, <2>4 DEF SetDoes, ConfigTypes
  <2>5. versions'[a][j] = u.version /\ a \in writer[j] /\ u \in Range(tasks'[a])
    BY <2>1 DEF SetDoes, ConfigTypes
  <2> QED
    BY <2>2, <2>3, <2>4, <2>5
<1>5. ASSUME NEW a \in Node, NEW b \in Node, Discover(a, b) \/ Receive(a, b), UNCHANGED configVars
      PROVE  UNCHANGED <<up, writer, config, versions>>
  BY <1>5 DEF Discover, Receive, configVars
<1> QED
  BY <1>1, <1>2, <1>3, <1>4, <1>5 DEF ConfigStep, ConfigNext, GroupNext

LEMMA VersionsGrow ==
    ASSUME ConfigTypes, Honest, ConfigStep, NEW n \in Node, NEW k \in Key
    PROVE  versions'[n][k] \in Nat /\ versions'[n][k] >= versions[n][k]
<1>1. versions[n][k] \in Nat
  BY DEF ConfigTypes
<1>2. \A u \in Updates : u.version \in Nat
  BY DEF Updates
<1> QED
  BY <1>1, <1>2, SettingStep

\* A sole writer takes no update of its setting.
LEMMA WriterStep ==
    ASSUME ConfigTypes, Honest, ConfigStep,
           NEW k \in Key, NEW p \in Node, writer[k] \subseteq {p}
    PROVE  \/ versions'[p][k] = versions[p][k] /\ config'[p][k] = config[p][k]
           \/ versions'[p][k] = versions[p][k] + 1
<1> SUFFICES ASSUME NEW m \in Range(events[p]), m.cmd = "SHOUT", m.payload \in Updates,
                    m.payload.key = k, m.payload.version > versions[p][k]
             PROVE  FALSE
  BY SettingStep
<1>1. Fresh(m.payload)
  BY DEF Honest, Sound
<1>2. m.payload.version <= versions[p][k]
  BY <1>1 DEF Fresh
<1>3. m.payload.version \in Nat /\ versions[p][k] \in Nat
  BY DEF ConfigTypes, Updates
<1> QED
  BY <1>2, <1>3

LEMMA FreshStep ==
    ASSUME ConfigTypes, Honest, ConfigStep, NEW u \in Updates, Fresh(u)
    PROVE  Fresh(u)'
<1> SUFFICES ASSUME NEW p \in Node, writer[u.key] \subseteq {p}
             PROVE  /\ u.version <= versions'[p][u.key]
                    /\ u.version = versions'[p][u.key] => u.value = config'[p][u.key]
  BY SettingStep DEF Fresh
<1> DEFINE k == u.key
<1>1. k \in Key /\ u.version \in Nat
  BY DEF Updates
<1>2. versions[p][k] \in Nat
  BY <1>1 DEF ConfigTypes
<1>3. u.version <= versions[p][k] /\ (u.version = versions[p][k] => u.value = config[p][k])
  BY DEF Fresh
<1>4. \/ versions'[p][k] = versions[p][k] /\ config'[p][k] = config[p][k]
      \/ versions'[p][k] = versions[p][k] + 1
  BY <1>1, WriterStep
<1> HIDE DEF k
<1>5. /\ u.version <= versions'[p][k]
      /\ u.version = versions'[p][k] => u.value = config'[p][k]
  BY <1>1, <1>2, <1>3, <1>4
<1> QED
  BY <1>5 DEF k

LEMMA SoundStep ==
    ASSUME ConfigTypes, Honest, ConfigStep, NEW u \in Updates, NEW n \in Node, Sound(u, n)
    PROVE  Sound(u, n)'
<1>1. u.key \in Key /\ u.version \in Nat /\ versions[n][u.key] \in Nat
  BY DEF Updates, ConfigTypes
<1>2. versions'[n][u.key] \in Nat /\ versions'[n][u.key] >= versions[n][u.key]
  BY <1>1, VersionsGrow
<1>3. Fresh(u)'
  BY FreshStep DEF Sound
<1> QED
  BY <1>1, <1>2, <1>3, SettingStep DEF Sound

\* A setting of a node is behind its sole writer's after a step, as it was before.
LEMMA BehindStep == ConfigTypes /\ Honest /\ Behind /\ ConfigStep => Behind'
<1> SUFFICES ASSUME ConfigTypes, Honest, Behind, ConfigStep,
                    NEW k \in Key, NEW n \in Node, NEW p \in Node, writer[k] \subseteq {p}
             PROVE  /\ versions'[n][k] <= versions'[p][k]
                    /\ versions'[n][k] = versions'[p][k] => config'[n][k] = config'[p][k]
  BY SettingStep DEF Behind
<1>1. /\ versions[n][k] \in Nat /\ versions[p][k] \in Nat
      /\ versions[n][k] <= versions[p][k]
      /\ versions[n][k] = versions[p][k] => config[n][k] = config[p][k]
  BY DEF Behind, ConfigTypes
<1>2. CASE versions'[n][k] = versions[n][k] /\ config'[n][k] = config[n][k]
  BY <1>1, <1>2, WriterStep
<1>3. CASE n \in writer[k]
  <2>1. n = p /\ versions'[n][k] \in Nat
    BY <1>3, VersionsGrow
  <2> QED
    BY <2>1
<1>4. ASSUME NEW m \in Range(events[n]), m.cmd = "SHOUT", m.payload \in Updates,
             m.payload.key = k, versions'[n][k] = m.payload.version,
             config'[n][k] = m.payload.value
      PROVE  /\ versions'[n][k] <= versions'[p][k]
             /\ versions'[n][k] = versions'[p][k] => config'[n][k] = config'[p][k]
  <2>1. Fresh(m.payload)
    BY <1>4 DEF Honest, Sound
  <2>2. Fresh(m.payload)'
    BY <1>4, <2>1, FreshStep
  <2>3. writer'[k] \subseteq {p}
    BY SettingStep
  <2> QED
    BY <1>4, <2>2, <2>3 DEF Fresh
<1> QED
  BY <1>2, <1>3, <1>4, SettingStep

\* What is on its way keeps to what its sender has, whatever else a step does.
LEMMA HonestStep == ConfigTypes /\ Honest /\ Behind /\ ConfigStep => Honest'
<1> SUFFICES ASSUME ConfigTypes, Honest, Behind, ConfigStep PROVE Honest'
  OBVIOUS
<1> DEFINE Sealed(m, n, p) == /\ {n, p} \subseteq up' /\ n # p /\ m.from = n
                              /\ m.cmd = "SHOUT" => Sound(m.payload, n)'
<1>1. ASSUME NEW n \in Node, NEW u \in Range(tasks[n]) PROVE Sound(u, n)'
  <2>1. u \in Updates /\ Sound(u, n)
    BY RangeType DEF ConfigTypes, Honest
  <2> QED
    BY <2>1, SoundStep
<1>2. ASSUME NEW n \in Node, NEW p \in Node, NEW m \in Range(net[n][p]) PROVE Sealed(m, n, p)
  <2>1. m \in Letters
    BY RangeType DEF ConfigTypes
  <2>2. m.cmd = "SHOUT" => m.payload \in Updates /\ Sound(m.payload, n)
    BY <2>1 DEF Letters, Honest
  <2> QED
    BY <2>2, SoundStep, SettingStep DEF Honest
<1>3. ASSUME NEW p \in Node, NEW m \in Range(events[p]) PROVE m.from \in Node /\ Sealed(m, m.from, p)
  <2>1. m \in Letters /\ p \in up
    BY RangeType, RangeEmpty DEF ConfigTypes
  <2>2. m.cmd = "SHOUT" => m.payload \in Updates /\ Sound(m.payload, m.from)
    BY <2>1 DEF Letters, Honest
  <2>3. m.from \in up \ {p} /\ m.from \in Node
    BY <2>1 DEF Letters, Honest
  <2> QED
    BY <2>1, <2>2, <2>3, SoundStep, SettingStep
<1> HIDE DEF Sealed
<1>4. ASSUME \A n \in Node : \A u \in Range(tasks'[n]) : Sound(u, n)',
             \A n, p \in Node : \A m \in Range(net'[n][p]) : Sealed(m, n, p),
             \A p \in Node : \A m \in Range(events'[p]) : Sealed(m, m.from, p)
      PROVE  Honest'
  BY <1>4 DEF Honest, Sealed
<1>5. CASE UNCHANGED <<mesh, configVars>>
  BY <1>1, <1>2, <1>3, <1>4, <1>5 DEF mesh, configVars
<1>6. ASSUME NEW n \in Node, NEW k \in Key, Set(n, k) PROVE Honest'
  <2>1. PICK u : SetDoes(n, k, u)
    BY <1>6, SetEffect
  <2>2. u.key = k /\ u.source = n /\ u.version \in Nat
    BY <2>1 DEF SetDoes, Update, Updates
  <2>3. versions'[n][k] = u.version /\ config'[n][k] = u.value
    BY <2>1 DEF SetDoes, ConfigTypes
  <2>4. UNCHANGED <<up, writer, net, events>>
    BY <2>1 DEF SetDoes, mesh
  <2>5. Sound(u, n)'
    <3>1. n \in up'
      BY <2>1, <2>4 DEF SetDoes
    <3>3. u.source = n /\ u.version <= versions'[n][u.key]
      BY <2>2, <2>3
    <3>2. ASSUME NEW p \in Node, writer'[k] \subseteq {p}
          PROVE  u.version <= versions'[p][k] /\ u.value = config'[p][k]
      <4>1. p = n
        BY <2>1, <2>4, <3>2 DEF SetDoes
      <4> QED
        BY <2>2, <2>3, <4>1
    <3> QED
      BY <2>2, <3>1, <3>2, <3>3 DEF Sound, Fresh
  <2>6. \A a \in Node : \A x \in Range(tasks'[a]) : Sound(x, a)'
    BY <1>1, <2>1, <2>5 DEF SetDoes
  <2> QED
    BY <1>2, <1>3, <1>4, <2>4, <2>6
<1>7. ASSUME NEW n \in Node, RunTask(n) PROVE Honest'
  <2>1. PICK u, s : RunTaskDoes(n, u, s)
    BY <1>7, RunTaskEffect
  <2>2. s.cmd = "SHOUT" /\ s.from = n /\ s.payload = u
    BY <2>1 DEF RunTaskDoes, Data
  <2>3. Sound(u, n)'
    BY <1>1, <2>1 DEF RunTaskDoes
  <2>4. ASSUME NEW a \in Node, NEW b \in Node, NEW m \in Range(net'[a][b])
        PROVE  Sealed(m, a, b)
    <3>1. CASE a = n /\ b \in members[n]
      <4>1. {a, b} \subseteq up' /\ a # b
        BY <2>1, <3>1 DEF RunTaskDoes, ConfigTypes
      <4>2. Sealed(s, a, b)
        BY <2>2, <2>3, <3>1, <4>1 DEF Sealed
      <4>3. m \in Range(net[n][b]) \cup {s}
        BY <2>1, <3>1 DEF RunTaskDoes
      <4> QED
        BY <1>2, <3>1, <4>2, <4>3
    <3>2. CASE a = n => b \notin members[n]
      <4>1. net'[a][b] = net[a][b]
        BY <2>1, <3>2 DEF RunTaskDoes
      <4> QED
        BY <1>2, <4>1
    <3> QED
      BY <3>1, <3>2
  <2>5. \A a \in Node : \A x \in Range(tasks'[a]) : Sound(x, a)'
    BY <1>1, <2>1 DEF RunTaskDoes
  <2> QED
    BY <1>3, <1>4, <2>1, <2>4, <2>5 DEF RunTaskDoes
<1>8. ASSUME NEW n \in Node, HandleConfig(n) PROVE Honest'
  <2>1. PICK e : HandleDoes(n, e)
    BY <1>8, HandleEffect
  <2>2. \A a \in Node : Range(tasks'[a]) \subseteq
           Range(tasks[a]) \cup (IF a = n THEN Range(FullConfig(n)) ELSE {})
    BY <2>1 DEF HandleDoes
  <2>3. ASSUME NEW u \in Range(FullConfig(n)) PROVE Sound(u, n)'
    <3>1. PICK k \in Key : u = Update(n, k, config[n][k], versions[n][k])
      BY FullConfigFacts
    <3>2. /\ u.source = n /\ u.key = k /\ u.version = versions[n][k] /\ u.value = config[n][k]
          /\ versions[n][k] \in Nat
      BY <3>1 DEF Update, ConfigTypes
    <3>3. Sound(u, n)
      BY <2>1, <3>2 DEF HandleDoes, Sound, Fresh, Behind
    <3>4. u \in Updates
      BY FullConfigFacts, RangeType
    <3> QED
      BY <3>3, <3>4, SoundStep
  <2>4. \A a \in Node : \A x \in Range(tasks'[a]) : Sound(x, a)'
    BY <1>1, <2>2, <2>3
  <2>5. \A a \in Node : \A x \in Range(events'[a]) : Sealed(x, x.from, a)
    BY <1>3, <2>1 DEF HandleDoes
  <2> QED
    BY <1>2, <1>4, <2>1, <2>4, <2>5 DEF HandleDoes
<1>9. ASSUME NEW n \in Node, NEW p \in Node, Discover(n, p), UNCHANGED configVars PROVE Honest'
  <2>1. PICK h : DiscoverDoes(n, p, h)
    BY <1>9, DiscoverEffect
  <2>2. Sealed(h, n, p)
    BY <2>1 DEF DiscoverDoes, Sealed, Hello
  <2>3. \A a, b \in Node : \A m \in Range(net'[a][b]) : Sealed(m, a, b)
    BY <1>2, <2>1, <2>2 DEF DiscoverDoes
  <2> QED
    BY <1>1, <1>3, <1>4, <1>9, <2>1, <2>3 DEF DiscoverDoes, configVars
<1>10. ASSUME NEW n \in Node, NEW p \in Node, Receive(n, p), UNCHANGED configVars PROVE Honest'
  <2>1. PICK m, h : LetterDoes(n, p, m, h)
    BY <1>10, LetterEffect
  <2>2. Sealed(h, n, p)
    BY <2>1 DEF LetterDoes, Sealed, Hello
  <2>3. ASSUME NEW a \in Node, NEW b \in Node, NEW x \in Range(net'[a][b])
        PROVE  Sealed(x, a, b)
    <3>1. CASE a = p /\ b = n
      BY <1>2, <2>1, <3>1 DEF LetterDoes
    <3>2. CASE a = n /\ b = p
      BY <1>2, <2>1, <2>2, <3>2 DEF LetterDoes
    <3>3. CASE <<a, b>> \notin {<<p, n>>, <<n, p>>}
      <4>1. net'[a][b] = net[a][b]
        BY <2>1, <3>3, Zenon DEF LetterDoes
      <4> QED
        BY <1>2, <4>1
    <3> QED
      BY <3>1, <3>2, <3>3
  <2>4. \A a \in Node : \A x \in Range(events'[a]) : Sealed(x, x.from, a)
    BY <1>2, <1>3, <2>1 DEF LetterDoes
  <2> QED
    BY <1>1, <1>4, <1>10, <2>3, <2>4 DEF configVars
<1> QED
  BY <1>5, <1>6, <1>7, <1>8, <1>9, <1>10 DEF ConfigStep, ConfigNext, GroupNext

LEMMA CoveredLess ==
    ASSUME ConfigTypes, NEW p \in Node, NEW k \in Key, NEW v \in Nat, NEW w \in Nat, w <= v,
           Covered(p, k, v)
    PROVE  Covered(p, k, w)
<1>1. \A n \in Node : versions[n][k] \in Nat
  BY DEF ConfigTypes
<1>2. ASSUME NEW q, Brings(q, k, v), Range(q) \subseteq Letters PROVE Brings(q, k, w)
  <2>1. PICK m \in Range(q) : m.cmd = "SHOUT" /\ m.payload.key = k /\ m.payload.version >= v
    BY <1>2 DEF Brings
  <2>2. m.payload.version \in Nat
    BY <1>2, <2>1 DEF Letters, Updates
  <2> QED
    BY <2>1, <2>2 DEF Brings
<1>3. ASSUME NEW m \in up, Offers(m, p, k, v) PROVE Offers(m, p, k, w)
  <2>1. m \in Node /\ Range(tasks[m]) \subseteq Updates
    BY RangeType DEF ConfigTypes
  <2>2. \A u \in Range(tasks[m]) : u.version >= v => u.version >= w
    BY <2>1 DEF Updates
  <2> QED
    BY <1>1, <1>3, <2>1, <2>2 DEF Offers
<1>4. Range(events[p]) \subseteq Letters /\ \A m \in up : Range(net[m][p]) \subseteq Letters
  BY RangeType DEF ConfigTypes
<1> QED
  BY <1>1, <1>2, <1>3, <1>4 DEF Covered

\* What covers p lasts where nothing is taken off a queue.
LEMMA CoveredKept ==
    ASSUME ConfigTypes, Honest, ConfigStep,
           NEW p \in up, NEW k \in Key, NEW v \in Nat, Covered(p, k, v),
           \/ versions[p][k] >= v
           \/ Brings(events[p], k, v) /\ Range(events[p]) \subseteq Range(events'[p])
           \/ \E m \in up \ {p} :
                 \/ /\ Brings(net[m][p], k, v) /\ Range(net[m][p]) \subseteq Range(net'[m][p])
                 \/ /\ Offers(m, p, k, v) /\ Range(tasks[m]) \subseteq Range(tasks'[m])
                    /\ Range(events[m]) \subseteq Range(events'[m])
                    /\ \/ p \notin members'[m] \/ p \in members[m]
                       \/ \E e \in Range(events'[m]) : e.cmd = "HELLO" /\ e.from = p
    PROVE  Covered(p, k, v)'
<1>1. \A n \in Node : /\ versions[n][k] \in Nat /\ versions'[n][k] \in Nat
                      /\ versions'[n][k] >= versions[n][k]
  BY VersionsGrow DEF ConfigTypes
<1>2. up' = up /\ p \in Node
  BY SettingStep DEF ConfigTypes
<1>3. CASE versions[p][k] >= v
  BY <1>1, <1>2, <1>3 DEF Covered
<1>4. CASE Brings(events[p], k, v) /\ Range(events[p]) \subseteq Range(events'[p])
  BY <1>4 DEF Covered, Brings
<1>5. ASSUME NEW m \in up \ {p}, Brings(net[m][p], k, v),
             Range(net[m][p]) \subseteq Range(net'[m][p])
      PROVE  Covered(p, k, v)'
  BY <1>2, <1>5 DEF Covered, Brings
<1>6. ASSUME NEW m \in up \ {p}, Offers(m, p, k, v), Range(tasks[m]) \subseteq Range(tasks'[m]),
             Range(events[m]) \subseteq Range(events'[m]),
             \/ p \notin members'[m] \/ p \in members[m]
             \/ \E e \in Range(events'[m]) : e.cmd = "HELLO" /\ e.from = p
      PROVE  Covered(p, k, v)'
  <2>1. m \in Node /\ versions'[m][k] >= v
    BY <1>1, <1>6 DEF Offers, ConfigTypes
  <2>2. Offers(m, p, k, v)'
    BY <1>6, <2>1 DEF Offers
  <2> QED
    BY <1>2, <2>2 DEF Covered
<1> QED
  BY <1>3, <1>4, <1>5, <1>6

\* Whoever is covered stays so: a shout that is taken off a queue is on its way,
\* and what is on its way is taken.
LEMMA CoveredStep ==
    ASSUME ConfigTypes, Honest, ConfigStep,
           NEW p \in up, NEW k \in Key, NEW v \in Nat, Covered(p, k, v)
    PROVE  Covered(p, k, v)'
<1>1. p \in Node /\ up' = up /\ up \subseteq Node
  BY SettingStep DEF ConfigTypes
<1>2. \A n \in Node : /\ versions[n][k] \in Nat /\ versions'[n][k] \in Nat
                      /\ versions'[n][k] >= versions[n][k]
  BY VersionsGrow DEF ConfigTypes
<1>3. ASSUME \A n \in up : /\ Range(tasks[n]) \subseteq Range(tasks'[n])
                           /\ Range(events[n]) \subseteq Range(events'[n])
                           /\ \A q \in up : Range(net[n][q]) \subseteq Range(net'[n][q]),
             UNCHANGED members
      PROVE  Covered(p, k, v)'
  BY <1>3, CoveredKept DEF Covered
<1>4. CASE UNCHANGED <<mesh, configVars>>
  BY <1>3, <1>4 DEF mesh, configVars
<1>5. ASSUME NEW n \in Node, NEW j \in Key, Set(n, j) PROVE Covered(p, k, v)'
  <2>1. PICK u : SetDoes(n, j, u)
    BY <1>5, SetEffect
  <2> QED
    BY <1>1, <1>3, <2>1 DEF SetDoes, mesh
<1>6. ASSUME NEW n \in Node, NEW q \in Node, Discover(n, q), UNCHANGED configVars
      PROVE  Covered(p, k, v)'
  <2>1. PICK h : DiscoverDoes(n, q, h)
    BY <1>6, DiscoverEffect
  <2>2. \A a, b \in Node : Range(net[a][b]) \subseteq Range(net'[a][b])
    BY <2>1 DEF DiscoverDoes
  <2> QED
    BY <1>1, <1>3, <1>6, <2>1, <2>2 DEF DiscoverDoes, configVars
<1>7. ASSUME NEW n \in Node, RunTask(n) PROVE Covered(p, k, v)'
  <2>1. PICK u, s : RunTaskDoes(n, u, s)
    BY <1>7, RunTaskEffect
  <2>2. \A a, b \in Node : Range(net[a][b]) \subseteq Range(net'[a][b])
    BY <2>1 DEF RunTaskDoes
  <2>3. UNCHANGED <<members, events, versions>> /\ n \in up
    BY <2>1 DEF RunTaskDoes
  <2>4. CASE versions[p][k] >= v \/ Brings(events[p], k, v)
    BY <2>3, <2>4, CoveredKept
  <2>5. ASSUME NEW m \in up \ {p}, Brings(net[m][p], k, v) PROVE Covered(p, k, v)'
    <3>1. Range(net[m][p]) \subseteq Range(net'[m][p])
      BY <1>1, <2>2
    <3> QED
      BY <2>5, <3>1, CoveredKept
  <2>6. ASSUME NEW m \in up \ {p}, Offers(m, p, k, v) PROVE Covered(p, k, v)'
    <3>1. CASE Range(tasks[m]) \subseteq Range(tasks'[m])
      BY <2>3, <2>6, <3>1, CoveredKept
    <3>2. CASE ~(Range(tasks[m]) \subseteq Range(tasks'[m]))
      <4>1. m = n
        BY <1>1, <2>1, <3>2 DEF RunTaskDoes
      <4>2. CASE p \notin members[n] \/ \E e \in Range(events[n]) : e.cmd = "HELLO" /\ e.from = p
        BY <1>1, <2>3, <2>6, <4>1, <4>2 DEF Covered, Offers
      <4>3. ASSUME NEW x \in Range(tasks'[n]), x.key = k, x.version >= v
            PROVE  Covered(p, k, v)'
        BY <1>1, <2>3, <2>6, <4>1, <4>3 DEF Covered, Offers
      <4>4. CASE u.key = k /\ u.version >= v /\ p \in members[n]
        <5>1. s \in Range(net'[n][p]) /\ s.cmd = "SHOUT" /\ s.payload = u
          BY <2>1, <4>4 DEF RunTaskDoes, Data
        <5>2. Brings(net'[n][p], k, v)
          BY <4>4, <5>1 DEF Brings
        <5> QED
          BY <1>1, <4>1, <5>2 DEF Covered, Brings
      <4>5. Range(tasks[n]) = {u} \cup Range(tasks'[n])
        BY <2>1 DEF RunTaskDoes
      <4> QED
        BY <2>6, <4>1, <4>2, <4>3, <4>4, <4>5 DEF Offers
    <3> QED
      BY <3>1, <3>2
  <2> QED
    BY <2>4, <2>5, <2>6 DEF Covered
<1>8. ASSUME NEW n \in Node, HandleConfig(n) PROVE Covered(p, k, v)'
  <2>1. PICK e : HandleDoes(n, e)
    BY <1>8, HandleEffect
  <2>2. UNCHANGED <<members, net>> /\ n \in up
    BY <2>1 DEF HandleDoes
  <2>3. \A a \in Node : Range(tasks[a]) \subseteq Range(tasks'[a])
    BY <2>1 DEF HandleDoes
  <2>4. CASE \/ versions[p][k] >= v
             \/ \E m \in up \ {p} : Brings(net[m][p], k, v)
    BY <2>2, <2>4, CoveredKept
  <2>5. CASE Brings(events[p], k, v)
    <3>1. PICK x \in Range(events[p]) :
             x.cmd = "SHOUT" /\ x.payload.key = k /\ x.payload.version >= v
      BY <2>5 DEF Brings
    <3>2. CASE x \in Range(events'[p])
      BY <3>1, <3>2 DEF Covered, Brings
    <3>3. CASE x \notin Range(events'[p])
      <4>1. n = p /\ x = e
        BY <1>1, <2>1, <3>1, <3>3 DEF HandleDoes
      <4>2. x.payload \in Updates /\ x.payload.source # p
        BY <1>1, <2>1, <3>1, <4>1 DEF HandleDoes, Honest, Sound
      <4>3. x.payload.version \in Nat
        BY <4>2 DEF Updates
      <4>4. versions'[p][k] >= x.payload.version
        <5>1. CASE Newer(p, x.payload)
          <6>1. versions' = [versions EXCEPT ![p][k] = x.payload.version]
            BY <2>1, <3>1, <4>1, <5>1 DEF HandleDoes
          <6>2. versions'[p][k] = x.payload.version
            BY <1>1, <6>1 DEF ConfigTypes
          <6> QED
            BY <4>3, <6>2
        <5>2. CASE ~Newer(p, x.payload)
          BY <1>1, <1>2, <3>1, <4>2, <4>3, <5>2 DEF Newer
        <5> QED
          BY <5>1, <5>2
      <4>5. versions'[p][k] >= v
        BY <1>1, <1>2, <3>1, <4>3, <4>4
      <4> QED
        BY <4>5 DEF Covered
    <3> QED
      BY <3>2, <3>3
  <2>6. ASSUME NEW m \in up \ {p}, Offers(m, p, k, v) PROVE Covered(p, k, v)'
    <3>1. m \in Node /\ versions'[m][k] >= v
      BY <1>1, <1>2, <2>6 DEF Offers
    <3>2. CASE \/ \E u \in Range(tasks[m]) : u.key = k /\ u.version >= v
               \/ p \notin members[m]
      <4>1. Offers(m, p, k, v)'
        BY <2>2, <2>3, <3>1, <3>2 DEF Offers
      <4> QED
        BY <1>1, <4>1 DEF Covered
    <3>3. ASSUME NEW x \in Range(events[m]), x.cmd = "HELLO", x.from = p
          PROVE  Covered(p, k, v)'
      <4>1. CASE x \in Range(events'[m])
        BY <1>1, <3>1, <3>3, <4>1 DEF Covered, Offers
      <4>2. CASE x \notin Range(events'[m])
        <5>1. n = m /\ x = e
          BY <2>1, <3>1, <3>3, <4>2 DEF HandleDoes
        <5>2. Range(tasks'[m]) = Range(tasks[m]) \cup Range(FullConfig(m))
          BY <2>1, <3>3, <5>1 DEF HandleDoes
        <5>3. CASE v = 0
          BY <1>1, <1>2, <5>3 DEF Covered
        <5>4. CASE v > 0
          <6> DEFINE y == Update(m, k, config[m][k], versions[m][k])
          <6>1. versions[m][k] \in Nat /\ versions[m][k] >= v
            BY <1>2, <2>6, <3>1 DEF Offers
          <6>2. config[m][k] # <<>>
            BY <3>1, <5>4, <6>1 DEF ConfigTypes
          <6>3. y \in Range(FullConfig(m))
            BY <3>1, <6>2, FullConfigFacts
          <6>4. y.key = k /\ y.version >= v
            BY <6>1 DEF Update
          <6>5. \E u \in Range(tasks'[m]) : u.key = k /\ u.version >= v
            BY <5>2, <6>3, <6>4
          <6> QED
            BY <1>1, <3>1, <6>5 DEF Covered, Offers
        <5> QED
          BY <5>3, <5>4
      <4> QED
        BY <4>1, <4>2
    <3> QED
      BY <2>6, <3>2, <3>3 DEF Offers
  <2> QED
    BY <2>4, <2>5, <2>6 DEF Covered
<1>9. ASSUME NEW n \in Node, NEW q \in Node, Receive(n, q), UNCHANGED configVars
      PROVE  Covered(p, k, v)'
  <2>1. PICK x, h : LetterDoes(n, q, x, h)
    BY <1>9, LetterEffect
  <2>2. \A a \in Node : Range(events[a]) \subseteq Range(events'[a])
    BY <2>1 DEF LetterDoes
  <2>3. UNCHANGED <<tasks, versions>> /\ n # q /\ {n, q} \subseteq up
    BY <1>9, <2>1 DEF LetterDoes, configVars
  <2>4. CASE versions[p][k] >= v \/ Brings(events[p], k, v)
    BY <1>1, <2>2, <2>4, CoveredKept
  <2>5. ASSUME NEW m \in up \ {p}, Brings(net[m][p], k, v) PROVE Covered(p, k, v)'
    <3>1. PICK y \in Range(net[m][p]) :
             y.cmd = "SHOUT" /\ y.payload.key = k /\ y.payload.version >= v
      BY <2>5 DEF Brings
    <3>2. CASE y \in Range(net'[m][p])
      BY <1>1, <3>1, <3>2 DEF Covered, Brings
    <3>3. CASE m = q /\ p = n
      <4>1. y = x \/ y \in Range(net'[m][p])
        BY <2>1, <3>1, <3>3 DEF LetterDoes
      <4>2. y = x => y \in Range(events'[p])
        BY <2>1, <3>3 DEF LetterDoes
      <4>3. y \in Range(events'[p]) => Covered(p, k, v)'
        BY <3>1 DEF Covered, Brings
      <4> QED
        BY <3>2, <4>1, <4>2, <4>3
    <3>4. CASE m = n /\ p = q
      <4>1. y \in Range(net'[m][p])
        BY <2>1, <3>1, <3>4 DEF LetterDoes
      <4> QED
        BY <3>2, <4>1
    <3>5. CASE <<m, p>> \notin {<<q, n>>, <<n, q>>}
      <4>1. net'[m][p] = net[m][p]
        BY <1>1, <2>1, <3>5 DEF LetterDoes
      <4> QED
        BY <3>1, <3>2, <4>1
    <3> QED
      BY <3>3, <3>4, <3>5
  <2>6. ASSUME NEW m \in up \ {p}, Offers(m, p, k, v) PROVE Covered(p, k, v)'
    <3>1. \/ p \notin members'[m] \/ p \in members[m]
          \/ \E e \in Range(events'[m]) : e.cmd = "HELLO" /\ e.from = p
      <4>1. CASE m = n /\ p = q /\ x.cmd = "HELLO"
        BY <2>1, <4>1 DEF LetterDoes
      <4>2. CASE ~(m = n /\ p = q /\ x.cmd = "HELLO")
        BY <1>1, <2>1, <4>2 DEF LetterDoes, ConfigTypes
      <4> QED
        BY <4>1, <4>2
    <3> QED
      BY <1>1, <2>2, <2>3, <2>6, <3>1, CoveredKept
  <2> QED
    BY <2>4, <2>5, <2>6 DEF Covered
<1> QED
  BY <1>4, <1>5, <1>6, <1>7, <1>8, <1>9 DEF ConfigStep, ConfigNext, GroupNext

LEMMA GreetedStep == ConfigTypes /\ Honest /\ Greeted /\ ConfigStep => Greeted'
<1> SUFFICES ASSUME ConfigTypes, Honest, Greeted, ConfigStep,
                    NEW a \in up, NEW b \in up, b \in knows'[a], a \notin members'[b]
             PROVE  \E m \in Range(net'[a][b]) : m.cmd = "HELLO"
  BY SettingStep DEF Greeted
<1>1. a \in Node /\ b \in Node
  BY DEF ConfigTypes
<1>2. ASSUME b \in knows[a], a \notin members[b], Range(net[a][b]) \subseteq Range(net'[a][b])
      PROVE  \E m \in Range(net'[a][b]) : m.cmd = "HELLO"
  BY <1>2 DEF Greeted
<1>3. CASE UNCHANGED <<mesh, configVars>>
  BY <1>2, <1>3 DEF mesh
<1>4. ASSUME NEW n \in Node, NEW k \in Key, Set(n, k)
      PROVE  \E m \in Range(net'[a][b]) : m.cmd = "HELLO"
  BY <1>2, <1>4 DEF Set, mesh
<1>5. ASSUME NEW n \in Node, RunTask(n) PROVE \E m \in Range(net'[a][b]) : m.cmd = "HELLO"
  <2>1. PICK u, s : RunTaskDoes(n, u, s)
    BY <1>5, RunTaskEffect
  <2>2. Range(net[a][b]) \subseteq Range(net'[a][b])
    BY <1>1, <2>1 DEF RunTaskDoes
  <2> QED
    BY <1>2, <2>1, <2>2 DEF RunTaskDoes
<1>6. ASSUME NEW n \in Node, HandleConfig(n) PROVE \E m \in Range(net'[a][b]) : m.cmd = "HELLO"
  BY <1>2, <1>6 DEF HandleConfig, peers
<1>7. ASSUME NEW n \in Node, NEW p \in Node, Discover(n, p)
      PROVE  \E m \in Range(net'[a][b]) : m.cmd = "HELLO"
  <2>1. PICK h : DiscoverDoes(n, p, h)
    BY <1>7, DiscoverEffect
  <2>2. CASE a = n /\ b = p
    <3>1. h \in Range(net'[a][b]) /\ h.cmd = "HELLO"
      BY <2>1, <2>2 DEF DiscoverDoes, Hello
    <3> QED
      BY <3>1
  <2>3. CASE ~(a = n /\ b = p)
    <3>1. net'[a][b] = net[a][b] /\ b \in knows[a] /\ a \notin members[b]
      BY <1>1, <2>1, <2>3 DEF DiscoverDoes, ConfigTypes
    <3> QED
      BY <1>2, <3>1
  <2> QED
    BY <2>2, <2>3
<1>8. ASSUME NEW n \in Node, NEW p \in Node, Receive(n, p)
      PROVE  \E m \in Range(net'[a][b]) : m.cmd = "HELLO"
  <2>1. PICK x, h : LetterDoes(n, p, x, h)
    BY <1>8, LetterEffect
  <2>2. a \notin members[b]
    BY <1>1, <2>1 DEF LetterDoes, ConfigTypes
  <2>3. CASE a = n /\ b = p
    <3>1. CASE p \in knows[n]
      BY <1>2, <2>1, <2>2, <2>3, <3>1 DEF LetterDoes
    <3>2. CASE p \notin knows[n]
      <4>1. h \in Range(net'[a][b]) /\ h.cmd = "HELLO"
        BY <2>1, <2>3, <3>2 DEF LetterDoes, Hello
      <4> QED
        BY <4>1
    <3> QED
      BY <3>1, <3>2
  <2>4. CASE a = p /\ b = n
    <3>1. b \in knows[a]
      BY <1>1, <2>1, <2>4 DEF LetterDoes, ConfigTypes
    <3>2. PICK m \in Range(net[a][b]) : m.cmd = "HELLO"
      BY <2>2, <3>1 DEF Greeted
    <3>3. x.cmd # "HELLO"
      BY <1>1, <2>1, <2>4 DEF LetterDoes, ConfigTypes
    <3>4. m \in Range(net'[a][b])
      BY <2>1, <2>4, <3>2, <3>3 DEF LetterDoes
    <3> QED
      BY <3>2, <3>4
  <2>5. CASE <<a, b>> \notin {<<p, n>>, <<n, p>>}
    <3>1. net'[a][b] = net[a][b]
      BY <1>1, <2>1, <2>5, Zenon DEF LetterDoes
    <3>2. b \in knows[a]
      BY <1>1, <2>1, <2>5 DEF LetterDoes, ConfigTypes
    <3> QED
      BY <1>2, <2>2, <3>1, <3>2
  <2> QED
    BY <2>3, <2>4, <2>5
<1> QED
  BY <1>3, <1>4, <1>5, <1>6, <1>7, <1>8 DEF ConfigStep, ConfigNext, GroupNext

\* A version that a node gets in a step is one that the others will get.
LEMMA CoveredVersion ==
    ASSUME ConfigTypes, Honest, AllCovered, ConfigStep,
           NEW n \in up, NEW p \in up, NEW k \in Key, NEW v, v = versions'[n][k]
    PROVE  Covered(p, k, v)'
<1>1. n \in Node /\ p \in Node /\ up' = up /\ up \subseteq Node
  BY SettingStep DEF ConfigTypes
<1>2. v \in Nat /\ \A a \in Node : versions[a][k] \in Nat
  BY <1>1, VersionsGrow DEF ConfigTypes
<1>3. CASE v = versions[n][k]
  BY <1>2, <1>3, CoveredStep DEF AllCovered
<1>4. ASSUME NEW u \in Range(tasks'[n]), u.key = k, u.version = v PROVE Covered(p, k, v)'
  <2>1. CASE n = p
    BY <1>2, <2>1 DEF Covered
  <2>2. CASE n # p
    <3>1. Offers(n, p, k, v)'
      BY <1>2, <1>4 DEF Offers
    <3> QED
      BY <1>1, <2>2, <3>1 DEF Covered
  <2> QED
    BY <2>1, <2>2
<1>5. ASSUME NEW m \in Range(events[n]), m.cmd = "SHOUT", m.payload \in Updates,
             m.payload.key = k, v = m.payload.version
      PROVE  Covered(p, k, v)'
  <2>1. m.from \in up /\ v <= versions[m.from][k]
    BY <1>1, <1>5 DEF Honest, Sound
  <2>2. Covered(p, k, versions[m.from][k])
    BY <2>1 DEF AllCovered
  <2>3. Covered(p, k, v)
    BY <1>1, <1>2, <2>1, <2>2, CoveredLess
  <2> QED
    BY <1>2, <2>3, CoveredStep
<1> QED
  BY <1>1, <1>3, <1>4, <1>5, SettingStep

LEMMA AllCoveredStep == ConfigTypes /\ Honest /\ AllCovered /\ ConfigStep => AllCovered'
<1> SUFFICES ASSUME ConfigTypes, Honest, AllCovered, ConfigStep PROVE AllCovered'
  OBVIOUS
<1>1. Greeted'
  BY GreetedStep DEF AllCovered
<1>2. ASSUME NEW n \in up, NEW p \in up, NEW k \in Key PROVE Covered(p, k, versions[n][k])'
  <2>1. PICK v : v = versions'[n][k]
    OBVIOUS
  <2>2. Covered(p, k, v)'
    BY <2>1, CoveredVersion
  <2> QED
    BY <2>1, <2>2 DEF Covered, Brings, Offers
<1> QED
  BY <1>1, <1>2, SettingStep DEF AllCovered

\* At rest nothing covers p but what it has.
LEMMA RestConverged == ConfigTypes /\ Behind /\ AllCovered => Converged
<1> SUFFICES ASSUME ConfigTypes, Behind, AllCovered, Rest, tasks = [n \in Node |-> <<>>],
                    NEW k \in Key, NEW n \in up, NEW p \in up
             PROVE  /\ versions[n][k] = versions[p][k]
                    /\ Cardinality(writer[k]) <= 1 => config[n][k] = config[p][k]
  BY DEF Converged
<1>1. up \subseteq Node /\ \A a \in Node : versions[a][k] \in Nat
  BY DEF ConfigTypes
<1>2. \A a, b \in up : a # b => a \in members[b]
  BY <1>1, RangeEmpty DEF Rest, AllCovered, Greeted
<1>3. ASSUME NEW a \in up, NEW b \in up PROVE versions[b][k] >= versions[a][k]
  <2>1. Covered(b, k, versions[a][k])
    BY <1>3 DEF AllCovered
  <2>2. ~Brings(events[b], k, versions[a][k])
    BY <1>1, RangeEmpty DEF Rest, Brings
  <2>3. \A m \in up \ {b} : /\ ~Brings(net[m][b], k, versions[a][k])
                            /\ ~Offers(m, b, k, versions[a][k])
    BY <1>1, <1>2, RangeEmpty DEF Rest, Brings, Offers
  <2> QED
    BY <2>1, <2>2, <2>3 DEF Covered
<1>4. \A a, b \in up : versions[a][k] = versions[b][k]
  BY <1>1, <1>3
<1>5. ASSUME Cardinality(writer[k]) <= 1 PROVE config[n][k] = config[p][k]
  <2>1. PICK w \in Node : writer[k] \subseteq {w}
    <3>1. writer[k] \subseteq Node /\ IsFiniteSet(writer[k])
      BY FiniteAssumption, FS_Subset DEF ConfigTypes
    <3>2. Cardinality(writer[k]) = 0 \/ Cardinality(writer[k]) = 1
      BY <1>5, <3>1, FS_CardinalityType
    <3>3. CASE Cardinality(writer[k]) = 0
      BY <1>1, <3>1, <3>3, FS_EmptySet
    <3>4. CASE Cardinality(writer[k]) = 1
      BY <3>1, <3>4, FS_Singleton
    <3> QED
      BY <3>2, <3>3, <3>4
  <2>2. versions[n][k] = versions[w][k] /\ versions[p][k] = versions[w][k]
    <3>1. CASE w \in up
      BY <1>4, <3>1
    <3>2. CASE w \notin up
      <4>1. versions[w][k] = 0
        BY <2>1, <3>2 DEF ConfigTypes
      <4>2. versions[n][k] <= versions[w][k] /\ versions[p][k] <= versions[w][k]
        BY <1>1, <2>1 DEF Behind
      <4>3. versions[n][k] \in Nat /\ versions[p][k] \in Nat
        BY <1>1
      <4> QED
        BY <4>1, <4>2, <4>3
    <3> QED
      BY <3>1, <3>2
  <2> QED
    BY <1>1, <2>1, <2>2 DEF Behind
<1> QED
  BY <1>4, <1>5

LEMMA ConfigInvariant == ConfigSpec => [](ConfigTypes /\ Honest /\ Behind /\ AllCovered)
<1>1. ConfigTypes /\ Honest /\ Behind /\ AllCovered /\ ConfigStep
         => (ConfigTypes /\ Honest /\ Behind /\ AllCovered)'
  BY ConfigTypesStep, HonestStep, BehindStep, AllCoveredStep
<1>2. up \subseteq Node /\ joined = up /\ GroupInit /\ ConfigInit
         => ConfigTypes /\ Honest /\ Behind /\ AllCovered
  BY ConfigInitial
<1> QED
  BY <1>1, <1>2, PTL DEF ConfigSpec, ConfigStep

\* However updates and rebroadcasts overtake each other, no node holds a value of
\* a setting that its sole writer did not set, or one of another version.
THEOREM NoRollbackHolds == ConfigSpec => []NoRollback
<1>1. Behind => NoRollback
  BY DEF Behind, NoRollback
<1> QED
  BY <1>1, ConfigInvariant, PTL

\* Whoever enters late, and whatever was set meanwhile by whom, all nodes end up
\* with the same settings once everything is handled.
THEOREM ConvergedHolds == ConfigSpec => []Converged
BY RestConverged, ConfigInvariant, PTL

-----------------------------------------------------------------------------
(* task_queue.py: the tasks in a queue *)

\* Carries, position by position.
LEMMA CarriesMeans ==
    ASSUME NEW q \in Seq(Letter), NEW a \in Nat, NEW b \in Nat
    PROVE  Carries(q, a, b) <=>
              /\ \A i \in 1..Len(q) : q[i].cmd = "SHOUT" => q[i].payload \in a + 1 .. b
              /\ \A t \in a + 1 .. b : \E i \in 1..Len(q) : q[i].cmd = "SHOUT" /\ q[i].payload = t
              /\ \A i, j \in 1..Len(q) : q[i].cmd = "SHOUT" /\ q[j].cmd = "SHOUT" /\ i < j
                    => q[i].payload < q[j].payload
<1>1. DOMAIN q = 1..Len(q)
  BY LenProperties
<1> QED
  BY <1>1 DEF Carries

LEMMA CarriesNothing ==
    ASSUME NEW a \in Nat, NEW b \in Nat
    PROVE  /\ Carries(<<>>, a, a)
           /\ Carries(<<>>, a, b) /\ a <= b => a = b
<1> DEFINE q == <<>>
<1>1. q \in Seq(Letter) /\ Len(q) = 0
  BY EmptySeq
<1> HIDE DEF q
<1>2. Carries(q, a, a)
  <2>1. a + 1 .. a = {} /\ 1 .. Len(q) = {}
    BY <1>1
  <2> QED
    BY <1>1, <2>1, CarriesMeans
<1>3. ASSUME Carries(q, a, b), a <= b PROVE a = b
  <2>1. \A t \in a + 1 .. b : \E i \in 1..Len(q) : q[i].cmd = "SHOUT" /\ q[i].payload = t
    BY <1>1, <1>3, CarriesMeans
  <2>2. 1 .. Len(q) = {}
    BY <1>1
  <2>3. a + 1 \notin a + 1 .. b
    BY <2>1, <2>2
  <2> QED
    BY <1>3, <2>3
<1> QED
  BY <1>2, <1>3 DEF q

\* Without a task on its way there is no SHOUT.
LEMMA CarriesNone ==
    ASSUME NEW q \in Seq(Letter), NEW a \in Nat, NEW b \in Nat, Carries(q, a, a)
    PROVE  Carries(q, b, b)
<1>1. \A x \in Nat : x + 1 .. x = {}
  OBVIOUS
<1> QED
  BY <1>1, CarriesMeans

\* A message at the end of a queue.
LEMMA CarriesAppend ==
    ASSUME NEW q \in Seq(Letter), NEW m \in Letter, NEW a \in Nat, NEW b \in Nat, Carries(q, a, b), a <= b
    PROVE  /\ m.cmd # "SHOUT" => Carries(Append(q, m), a, b)
           /\ m.cmd = "SHOUT" /\ m.payload = b + 1 => Carries(Append(q, m), a, b + 1)
<1> DEFINE r == Append(q, m)
<1>1. /\ r \in Seq(Letter) /\ Len(r) = Len(q) + 1 /\ r[Len(q) + 1] = m
      /\ \A i \in 1..Len(q) : r[i] = q[i]
  BY AppendProperties
<1> HIDE DEF r
<1>2. Len(q) \in Nat
  BY LenProperties
<1>3. 1..Len(r) = 1..Len(q) \cup {Len(r)} /\ Len(r) \notin 1..Len(q)
  BY <1>1, <1>2
<1>4. /\ \A i \in 1..Len(q) : q[i].cmd = "SHOUT" => q[i].payload \in a + 1 .. b
      /\ \A t \in a + 1 .. b : \E i \in 1..Len(q) : q[i].cmd = "SHOUT" /\ q[i].payload = t
      /\ \A i, j \in 1..Len(q) : q[i].cmd = "SHOUT" /\ q[j].cmd = "SHOUT" /\ i < j
            => q[i].payload < q[j].payload
  BY CarriesMeans
<1>5. ASSUME m.cmd # "SHOUT" PROVE Carries(r, a, b)
  <2>1. \A i \in 1..Len(r) : r[i].cmd = "SHOUT" => i \in 1..Len(q) /\ r[i] = q[i]
    BY <1>1, <1>3, <1>5
  <2>2. \A i \in 1..Len(q) : i \in 1..Len(r) /\ r[i] = q[i]
    BY <1>1, <1>3
  <2>3. \A i \in 1..Len(r) : r[i].cmd = "SHOUT" => r[i].payload \in a + 1 .. b
    BY <1>4, <2>1
  <2>4. \A t \in a + 1 .. b : \E i \in 1..Len(r) : r[i].cmd = "SHOUT" /\ r[i].payload = t
    BY <1>4, <2>2
  <2>5. \A i, j \in 1..Len(r) : r[i].cmd = "SHOUT" /\ r[j].cmd = "SHOUT" /\ i < j
            => r[i].payload < r[j].payload
    BY <1>4, <2>1
  <2> QED
    BY <1>1, <2>3, <2>4, <2>5, CarriesMeans
<1>6. ASSUME m.cmd = "SHOUT", m.payload = b + 1 PROVE Carries(r, a, b + 1)
  <2>1. r[Len(r)] = m /\ \A i \in 1..Len(q) : i \in 1..Len(r) /\ i < Len(r) /\ r[i] = q[i]
    BY <1>1, <1>2, <1>3
  <2>2. a + 1 .. b + 1 = (a + 1 .. b) \cup {b + 1}
    OBVIOUS
  <2>3. \A i \in 1..Len(r) : r[i].cmd = "SHOUT" => r[i].payload \in a + 1 .. b + 1
    BY <1>3, <1>4, <1>6, <2>1, <2>2
  <2>4. ASSUME NEW t \in a + 1 .. b + 1
        PROVE  \E i \in 1..Len(r) : r[i].cmd = "SHOUT" /\ r[i].payload = t
    <3>1. CASE t = b + 1
      BY <1>3, <1>6, <2>1, <3>1
    <3>2. CASE t # b + 1
      <4>1. PICK i \in 1..Len(q) : q[i].cmd = "SHOUT" /\ q[i].payload = t
        BY <1>4, <2>2, <3>2
      <4> QED
        BY <2>1, <4>1
    <3> QED
      BY <3>1, <3>2
  <2>5. ASSUME NEW i \in 1..Len(r), NEW j \in 1..Len(r), r[i].cmd = "SHOUT", r[j].cmd = "SHOUT", i < j
        PROVE  r[i].payload < r[j].payload
    <3>1. i \in 1..Len(q)
      BY <1>1, <1>2, <1>3, <2>5
    <3>2. CASE j \in 1..Len(q)
      BY <1>1, <1>4, <2>5, <3>1, <3>2
    <3>3. CASE j = Len(r)
      <4>1. r[i].payload \in a + 1 .. b /\ r[j].payload = b + 1
        BY <1>1, <1>4, <1>6, <2>1, <2>5, <3>1, <3>3
      <4> QED
        BY <4>1
    <3> QED
      BY <1>3, <3>2, <3>3
  <2>6. b + 1 \in Nat
    OBVIOUS
  <2> QED
    BY <1>1, <2>3, <2>4, <2>5, <2>6, CarriesMeans
<1> QED
  BY <1>5, <1>6 DEF r

\* The message at the head of a queue goes.
LEMMA CarriesTail ==
    ASSUME NEW q \in Seq(Letter), q # <<>>, NEW a \in Nat, NEW b \in Nat, Carries(q, a, b)
    PROVE  /\ Head(q).cmd # "SHOUT" => Carries(Tail(q), a, b)
           /\ Head(q).cmd = "SHOUT" =>
                 Head(q).payload = a + 1 /\ a + 1 <= b /\ Carries(Tail(q), a + 1, b)
<1> DEFINE r == Tail(q)
<1>1. r \in Seq(Letter) /\ Len(r) = Len(q) - 1 /\ \A i \in 1..Len(r) : r[i] = q[i + 1]
  BY HeadTailProperties
<1>2. Len(q) \in Nat \ {0} /\ Head(q) = q[1]
  BY EmptySeq
<1> HIDE DEF r
<1>3. 1 \in 1..Len(q) /\ \A i \in 1..Len(r) : i + 1 \in 1..Len(q) /\ i + 1 > 1 /\ r[i] = q[i + 1]
  BY <1>1, <1>2
<1>4. \A i \in 1..Len(q) : i # 1 => i - 1 \in 1..Len(r) /\ r[i - 1] = q[i]
  BY <1>1, <1>2
<1>5. /\ \A i \in 1..Len(q) : q[i].cmd = "SHOUT" => q[i].payload \in a + 1 .. b
      /\ \A t \in a + 1 .. b : \E i \in 1..Len(q) : q[i].cmd = "SHOUT" /\ q[i].payload = t
      /\ \A i, j \in 1..Len(q) : q[i].cmd = "SHOUT" /\ q[j].cmd = "SHOUT" /\ i < j
            => q[i].payload < q[j].payload
  BY CarriesMeans
<1>6. \A i, j \in 1..Len(r) : r[i].cmd = "SHOUT" /\ r[j].cmd = "SHOUT" /\ i < j
         => r[i].payload < r[j].payload
  <2>1. ASSUME NEW i \in 1..Len(r), NEW j \in 1..Len(r), r[i].cmd = "SHOUT", r[j].cmd = "SHOUT", i < j
        PROVE  r[i].payload < r[j].payload
    <3>1. i + 1 \in 1..Len(q) /\ j + 1 \in 1..Len(q) /\ r[i] = q[i + 1] /\ r[j] = q[j + 1]
      BY <1>3
    <3>2. i + 1 < j + 1
      BY <2>1
    <3> QED
      BY <1>5, <2>1, <3>1, <3>2
  <2> QED
    BY <2>1
<1>7. ASSUME Head(q).cmd # "SHOUT" PROVE Carries(r, a, b)
  <2>1. \A i \in 1..Len(r) : r[i].cmd = "SHOUT" => r[i].payload \in a + 1 .. b
    BY <1>3, <1>5
  <2>2. ASSUME NEW t \in a + 1 .. b
        PROVE  \E i \in 1..Len(r) : r[i].cmd = "SHOUT" /\ r[i].payload = t
    <3>1. PICK i \in 1..Len(q) : q[i].cmd = "SHOUT" /\ q[i].payload = t
      BY <1>5
    <3> QED
      BY <1>2, <1>4, <1>7, <3>1
  <2> QED
    BY <1>1, <1>6, <2>1, <2>2, CarriesMeans
<1>8. ASSUME Head(q).cmd = "SHOUT"
      PROVE  Head(q).payload = a + 1 /\ a + 1 <= b /\ Carries(r, a + 1, b)
  <2>1. q[1].cmd = "SHOUT" /\ q[1].payload \in a + 1 .. b
    BY <1>2, <1>3, <1>5, <1>8
  <2>2. a + 1 <= b
    BY <2>1
  <2>3. q[1].payload = a + 1
    <3>1. PICK i \in 1..Len(q) : q[i].cmd = "SHOUT" /\ q[i].payload = a + 1
      BY <1>5, <2>2
    <3>2. i # 1 => q[1].payload < q[i].payload
      BY <1>3, <1>5, <2>1, <3>1
    <3> QED
      BY <2>1, <3>1, <3>2
  <2>4. ASSUME NEW i \in 1..Len(r), r[i].cmd = "SHOUT" PROVE r[i].payload \in (a + 1) + 1 .. b
    <3>1. i + 1 \in 1..Len(q) /\ 1 < i + 1 /\ q[i + 1].cmd = "SHOUT" /\ r[i] = q[i + 1]
      BY <1>3, <2>4
    <3>2. q[i + 1].payload \in a + 1 .. b /\ q[1].payload < q[i + 1].payload
      BY <1>3, <1>5, <2>1, <3>1
    <3> QED
      BY <2>3, <3>1, <3>2
  <2>5. ASSUME NEW t \in (a + 1) + 1 .. b
        PROVE  \E i \in 1..Len(r) : r[i].cmd = "SHOUT" /\ r[i].payload = t
    <3>1. t \in a + 1 .. b /\ t # a + 1
      OBVIOUS
    <3>2. PICK i \in 1..Len(q) : q[i].cmd = "SHOUT" /\ q[i].payload = t
      BY <1>5, <3>1
    <3>3. i # 1
      BY <2>3, <3>1, <3>2
    <3> QED
      BY <1>4, <3>2, <3>3
  <2>6. a + 1 \in Nat
    OBVIOUS
  <2>7. Carries(r, a + 1, b)
    BY <1>1, <1>6, <2>4, <2>5, <2>6, CarriesMeans
  <2> QED
    BY <1>2, <2>2, <2>3, <2>7
<1> QED
  BY <1>7, <1>8 DEF r

-----------------------------------------------------------------------------
(* task_queue.py: what its actions do *)

TasksStep == [TasksNext \/ (GroupNext /\ UNCHANGED taskVars)]_<<mesh, taskVars>>

LEMMA QueuedMeans ==
    ASSUME TasksTypes
    PROVE  /\ \A a, b \in Node : \A m \in Range(net[a][b]) :
                 a # b /\ {a, b} \subseteq up /\ m.from = a /\ (m.cmd = "WHISPER" => b = Coordinator)
           /\ \A a \in Node : \A m \in Range(events[a]) :
                 a \in up /\ m.from \in up \ {a} /\ (m.cmd = "WHISPER" => a = Coordinator)
BY DEF TasksTypes, Queued

\* A message m of n to the nodes of a set.
PostDoes(n, to, m) ==
    /\ Queued' /\ events' = events /\ m \in Letter
    /\ \A a, b \in Node :
          net'[a][b] = IF a = n /\ b \in to THEN Append(net[a][b], m) ELSE net[a][b]
    /\ \A a, b \in Node :
          Range(net'[a][b]) = Range(net[a][b]) \cup (IF a = n /\ b \in to THEN {m} ELSE {})

LEMMA PostEffect ==
    ASSUME TasksTypes, NEW n \in up, NEW to \in SUBSET (up \ {n}), NEW m \in Letter,
           m.from = n, m.cmd = "WHISPER" => to \subseteq {Coordinator},
           Send(n, to, m), UNCHANGED <<up, events>>
    PROVE  PostDoes(n, to, m)
<1>1. n \in Node /\ net \in [Node -> [Node -> Seq(Letter)]] /\ up \subseteq Node
  BY DEF TasksTypes, Queued
<1>2. /\ net' \in [Node -> [Node -> Seq(Letter)]]
      /\ \A a, b \in Node :
            net'[a][b] = IF a = n /\ b \in to THEN Append(net[a][b], m) ELSE net[a][b]
  BY <1>1, SendEffect DEF Send
<1>3. \A a, b \in Node : Range(Append(net[a][b], m)) = Range(net[a][b]) \cup {m}
  BY <1>1, RangeAppend
<1>4. \A a, b \in Node :
         Range(net'[a][b]) = Range(net[a][b]) \cup (IF a = n /\ b \in to THEN {m} ELSE {})
  BY <1>2, <1>3
<1>5. ASSUME NEW a \in Node, NEW b \in Node, NEW x \in Range(net'[a][b])
      PROVE  a # b /\ {a, b} \subseteq up' /\ x.from = a /\ (x.cmd = "WHISPER" => b = Coordinator)
  <2>1. CASE x \in Range(net[a][b])
    BY <2>1, QueuedMeans
  <2>2. CASE a = n /\ b \in to /\ x = m
    BY <2>2
  <2> QED
    BY <1>4, <1>5, <2>1, <2>2
<1>6. Queued'
  <2>1. events' \in [Node -> Seq(Letter)]
    BY DEF TasksTypes, Queued
  <2>2. \A a \in Node : \A x \in Range(events'[a]) :
           a \in up' /\ x.from \in up' \ {a} /\ (x.cmd = "WHISPER" => a = Coordinator)
    BY QueuedMeans
  <2> QED
    BY <1>2, <1>5, <2>1, <2>2 DEF Queued
<1> QED
  BY <1>2, <1>4, <1>6 DEF PostDoes

\* The program of n takes the event e.
TakeDoes(n, e) ==
    /\ Queued' /\ net' = net
    /\ n \in up /\ e = Event(n) /\ e \in Letter
    /\ events[n] # <<>> /\ events'[n] = Tail(events[n])
    /\ Range(events[n]) = {e} \cup Range(events'[n])
    /\ \A a \in Node \ {n} : events'[a] = events[a]
    /\ e.cmd = "WHISPER" => n = Coordinator

LEMMA TakeEffect ==
    ASSUME TasksTypes, NEW n \in Node, Consume(n), UNCHANGED <<up, net>>
    PROVE  \E e : TakeDoes(n, e)
<1>0. PICK e : e = Event(n)
  OBVIOUS
<1>1. events[n] # <<>> /\ events' = [events EXCEPT ![n] = Tail(@)] /\ events[n] \in Seq(Letter)
  BY DEF Consume, TasksTypes, Queued
<1>2. /\ e \in Letter /\ Tail(events[n]) \in Seq(Letter)
      /\ Range(events[n]) = {e} \cup Range(Tail(events[n]))
  BY <1>0, <1>1, RangeTail DEF Event
<1>3. /\ events'[n] = Tail(events[n]) /\ \A a \in Node \ {n} : events'[a] = events[a]
      /\ events' \in [Node -> Seq(Letter)]
  BY <1>1, <1>2 DEF TasksTypes, Queued
<1>4. \A a \in Node : Range(events'[a]) \subseteq Range(events[a])
  BY <1>2, <1>3
<1>5. Queued'
  <2>1. net' \in [Node -> [Node -> Seq(Letter)]]
    BY DEF TasksTypes, Queued
  <2>2. \A a \in Node : \A x \in Range(events'[a]) :
           a \in up' /\ x.from \in up' \ {a} /\ (x.cmd = "WHISPER" => a = Coordinator)
    BY <1>4, QueuedMeans
  <2>3. \A a, b \in Node : \A x \in Range(net'[a][b]) :
           a # b /\ {a, b} \subseteq up' /\ x.from = a /\ (x.cmd = "WHISPER" => b = Coordinator)
    BY QueuedMeans
  <2> QED
    BY <1>3, <2>1, <2>2, <2>3 DEF Queued
<1>6. n \in up /\ (e.cmd = "WHISPER" => n = Coordinator)
  BY <1>2, QueuedMeans
<1> QED
  BY <1>0, <1>1, <1>2, <1>3, <1>5, <1>6 DEF TakeDoes

\* n handles the message x of p, and may greet it with h.
HandsOver(n, p, x, h) ==
    /\ Queued' /\ n # p /\ {n, p} \subseteq up
    /\ x \in Letter /\ x = Head(net[p][n]) /\ x.from = p
    /\ net[p][n] # <<>> /\ net'[p][n] = Tail(net[p][n])
    /\ Range(net[p][n]) = {x} \cup Range(net'[p][n])
    /\ h \in Letter /\ h.cmd = "HELLO"
    /\ net'[n][p] = IF p \in knows[n] THEN net[n][p] ELSE Append(net[n][p], h)
    /\ Range(net'[n][p]) = Range(net[n][p]) \cup (IF p \in knows[n] THEN {} ELSE {h})
    /\ \A a, b \in Node : <<a, b>> \notin {<<p, n>>, <<n, p>>} => net'[a][b] = net[a][b]
    /\ events'[n] = IF x.cmd = "JOIN" THEN events[n] ELSE Append(events[n], x)
    /\ Range(events'[n]) = Range(events[n]) \cup (IF x.cmd = "JOIN" THEN {} ELSE {x})
    /\ \A a \in Node \ {n} : events'[a] = events[a]
    /\ up' = up
    /\ knows' = [knows EXCEPT ![n] = @ \cup {p}]
    /\ \/ members' = members
       \/ members' = [members EXCEPT ![n] = @ \cup {p}]

LEMMA ReceiveDoes ==
    ASSUME TasksTypes, NEW n \in Node, NEW p \in Node, Receive(n, p)
    PROVE  \E x, h : HandsOver(n, p, x, h)
<1>0. PICK x, h : x = Head(net[p][n]) /\ h = Hello(n)
  OBVIOUS
<1>1. /\ net \in [Node -> [Node -> Seq(Letter)]] /\ events \in [Node -> Seq(Letter)]
      /\ net[p][n] \in Seq(Letter) /\ net[n][p] \in Seq(Letter) /\ events[n] \in Seq(Letter)
  BY DEF TasksTypes, Queued
<1>2. net[p][n] # <<>> /\ UNCHANGED up
  BY DEF Receive
<1>3. /\ x \in Letter /\ x \in Range(net[p][n])
      /\ Range(net[p][n]) = {x} \cup Range(Tail(net[p][n]))
  BY <1>0, <1>1, <1>2, RangeTail
<1>4. n # p /\ {n, p} \subseteq up /\ x.from = p /\ (x.cmd = "WHISPER" => n = Coordinator)
  BY <1>3, QueuedMeans
<1>5. h \in Letter /\ h.cmd = "HELLO" /\ h.from = n
  BY <1>0 DEF Hello, Letter
<1>6. /\ net' \in [Node -> [Node -> Seq(Letter)]]
      /\ net'[p][n] = Tail(net[p][n])
      /\ net'[n][p] = IF p \in knows[n] THEN net[n][p] ELSE Append(net[n][p], Hello(n))
      /\ \A a, b \in Node : <<a, b>> \notin {<<p, n>>, <<n, p>>} => net'[a][b] = net[a][b]
  <2>1. Hello(n) \in Letter
    BY <1>0, <1>5
  <2>2. net \in [Node -> [Node -> Seq(Letter)]]
    BY <1>1
  <2>3. n # p
    BY <1>4
  <2> QED
    BY <2>1, <2>2, <2>3, ReceiveEffect, Zenon DEF Receive
<1>7. Range(net'[n][p]) = Range(net[n][p]) \cup (IF p \in knows[n] THEN {} ELSE {h})
  BY <1>0, <1>1, <1>5, <1>6, RangeAppend
<1>8. /\ events' = IF x.cmd = "JOIN" THEN events ELSE [events EXCEPT ![n] = Append(@, x)]
      /\ knows' = [knows EXCEPT ![n] = @ \cup {p}]
      /\ \/ members' = members
         \/ members' = [members EXCEPT ![n] = @ \cup {p}]
  BY <1>0 DEF Receive
<1>9. /\ Append(events[n], x) \in Seq(Letter)
      /\ Range(Append(events[n], x)) = Range(events[n]) \cup {x}
  BY <1>1, <1>3, RangeAppend
<1>10. /\ events' \in [Node -> Seq(Letter)]
       /\ events'[n] = IF x.cmd = "JOIN" THEN events[n] ELSE Append(events[n], x)
       /\ \A a \in Node \ {n} : events'[a] = events[a]
  BY <1>1, <1>8, <1>9
<1>11. Range(events'[n]) = Range(events[n]) \cup (IF x.cmd = "JOIN" THEN {} ELSE {x})
  BY <1>9, <1>10
<1>12. ASSUME NEW a \in Node, NEW b \in Node, NEW m \in Range(net'[a][b])
       PROVE  a # b /\ {a, b} \subseteq up' /\ m.from = a /\ (m.cmd = "WHISPER" => b = Coordinator)
  <2>1. CASE m \in Range(net[a][b])
    BY <1>2, <2>1, QueuedMeans
  <2>2. CASE a = n /\ b = p /\ m = h
    BY <1>2, <1>4, <1>5, <2>2
  <2>3. a = p /\ b = n => m \in Range(net[a][b])
    BY <1>3, <1>6, <1>12
  <2>4. a = n /\ b = p => m \in Range(net[a][b]) \/ m = h
    BY <1>7, <1>12
  <2>5. <<a, b>> \notin {<<p, n>>, <<n, p>>} => m \in Range(net[a][b])
    BY <1>6, <1>12
  <2> QED
    BY <2>1, <2>2, <2>3, <2>4, <2>5
<1>13. ASSUME NEW a \in Node, NEW m \in Range(events'[a])
       PROVE  a \in up' /\ m.from \in up' \ {a} /\ (m.cmd = "WHISPER" => a = Coordinator)
  <2>1. CASE m \in Range(events[a])
    BY <1>2, <2>1, QueuedMeans
  <2>2. CASE a = n /\ m = x
    BY <1>2, <1>4, <2>2
  <2> QED
    BY <1>10, <1>11, <1>13, <2>1, <2>2
<1>14. Queued'
  BY <1>6, <1>10, <1>12, <1>13 DEF Queued
<1>15. /\ net'[n][p] = IF p \in knows[n] THEN net[n][p] ELSE Append(net[n][p], h)
       /\ Range(net[p][n]) = {x} \cup Range(net'[p][n])
       /\ up' = up
  BY <1>0, <1>2, <1>3, <1>6
<1>16. HandsOver(n, p, x, h)
  BY <1>0, <1>2, <1>3, <1>4, <1>5, <1>6, <1>7, <1>8, <1>10, <1>11, <1>14, <1>15, Zenon DEF HandsOver
<1> QED
  BY <1>16

LEMMA EnlistEffect ==
    ASSUME TasksTypes, NEW n \in Node, Enlist(n)
    PROVE  /\ n \in up /\ UNCHANGED <<up, knows, members, issued, pending, doing, worked>>
           /\ \E m : PostDoes(n, knows[n], m) /\ m.cmd = "JOIN"
<1>0. PICK m : m = JoinMsg(n)
  OBVIOUS
<1>1. m \in Letter /\ m.from = n /\ m.cmd = "JOIN"
  BY <1>0 DEF JoinMsg, Letter
<1>2. /\ n \in up /\ knows[n] \in SUBSET (up \ {n}) /\ Send(n, knows[n], m)
      /\ UNCHANGED <<up, knows, members, events, issued, pending, doing, worked>>
  BY <1>0 DEF Enlist, SendJoin, peers, TasksTypes
<1>3. PostDoes(n, knows[n], m)
  BY <1>1, <1>2, PostEffect DEF Send
<1> QED
  BY <1>1, <1>2, <1>3

LEMMA FindEffect ==
    ASSUME TasksTypes, NEW n \in Node, NEW p \in Node, Discover(n, p)
    PROVE  /\ n # p /\ {n, p} \subseteq up /\ UNCHANGED <<up, members>>
           /\ knows' = [knows EXCEPT ![n] = @ \cup {p}]
           /\ \E m : PostDoes(n, {p}, m) /\ m.cmd = "HELLO"
<1>0. PICK m : m = Hello(n)
  OBVIOUS
<1>1. m \in Letter /\ m.from = n /\ m.cmd = "HELLO"
  BY <1>0 DEF Hello, Letter
<1>2. /\ n # p /\ {n, p} \subseteq up /\ Send(n, {p}, m)
      /\ knows' = [knows EXCEPT ![n] = @ \cup {p}]
      /\ UNCHANGED <<up, members, events>>
  BY <1>0 DEF Discover
<1>3. PostDoes(n, {p}, m)
  BY <1>1, <1>2, PostEffect DEF Send
<1> QED
  BY <1>1, <1>2, <1>3

LEMMA IssueEffect ==
    ASSUME TasksTypes, Issue
    PROVE  /\ issued' = issued + 1 /\ pending' = pending \cup {issued + 1}
           /\ UNCHANGED <<up, knows, members, doing, worked>>
           /\ \E m : PostDoes(Coordinator, members[Coordinator], m)
                        /\ m.cmd = "SHOUT" /\ m.payload = issued + 1
<1>0. PICK m : m = Data("SHOUT", Coordinator, issued + 1)
  OBVIOUS
<1>1. m \in Letter /\ m.from = Coordinator /\ m.cmd = "SHOUT" /\ m.payload = issued + 1
  <2>1. issued + 1 \in Nat \ {0}
    BY DEF TasksTypes
  <2> QED
    BY <1>0, <2>1, CoordinatorAssumption DEF Data, Letter
<1>2. /\ issued' = issued + 1 /\ pending' = pending \cup {issued + 1}
      /\ Send(Coordinator, members[Coordinator], m)
      /\ UNCHANGED <<up, knows, members, events, doing, worked>>
  BY <1>0 DEF Issue, Shout, peers
<1>3. Coordinator \in up /\ members[Coordinator] \in SUBSET (up \ {Coordinator})
  BY CoordinatorAssumption DEF TasksTypes
<1>4. PostDoes(Coordinator, members[Coordinator], m)
  BY <1>1, <1>2, <1>3, PostEffect DEF Send
<1> QED
  BY <1>1, <1>2, <1>4

LEMMA ReportEffect ==
    ASSUME TasksTypes, NEW w \in Worker, Report(w)
    PROVE  /\ doing[w] # 0 /\ doing' = [doing EXCEPT ![w] = 0]
           /\ UNCHANGED <<up, knows, members, issued, pending, worked>>
           /\ \E m : PostDoes(w, {Coordinator} \cap knows[w], m)
                        /\ m.cmd = "WHISPER" /\ m.payload = doing[w]
<1>0. PICK m : m = Data("WHISPER", w, doing[w])
  OBVIOUS
<1>1. w \in up /\ w \in Node /\ w # Coordinator
  BY DEF Worker, TasksTypes
<1>2. m \in Letter /\ m.from = w /\ m.cmd = "WHISPER" /\ m.payload = doing[w]
  <2>1. doing[w] \in Nat \ {0}
    BY <1>1 DEF TasksTypes, Report
  <2> QED
    BY <1>0, <1>1, <2>1 DEF Data, Letter
<1>3. /\ doing[w] # 0 /\ doing' = [doing EXCEPT ![w] = 0]
      /\ Send(w, {Coordinator} \cap knows[w], m)
      /\ UNCHANGED <<up, knows, members, events, issued, pending, worked>>
  BY <1>0 DEF Report, Result, Whisper, peers
<1>4. {Coordinator} \cap knows[w] \in SUBSET (up \ {w})
  BY <1>1 DEF TasksTypes
<1>5. PostDoes(w, {Coordinator} \cap knows[w], m)
  BY <1>1, <1>2, <1>3, <1>4, PostEffect DEF Send
<1> QED
  BY <1>2, <1>3, <1>5

LEMMA TakeTaskEffect ==
    ASSUME TasksTypes, NEW w \in Worker, TakeTask(w)
    PROVE  /\ doing[w] = 0
           /\ UNCHANGED <<up, knows, members, issued, pending>>
           /\ \E e : /\ TakeDoes(w, e)
                     /\ IF e.cmd = "SHOUT"
                        THEN /\ e.payload \in Nat \ {0}
                             /\ doing' = [doing EXCEPT ![w] = e.payload]
                             /\ worked' = [worked EXCEPT ![w] = Append(@, e.payload)]
                        ELSE UNCHANGED <<doing, worked>>
<1>1. w \in Node /\ doing[w] = 0 /\ Consume(w)
      /\ UNCHANGED <<up, knows, members, net, issued, pending>>
  BY DEF TakeTask, peers, Worker, TasksTypes
<1>2. PICK e : TakeDoes(w, e)
  BY <1>1, TakeEffect DEF Consume
<1>3. e = Event(w) /\ (e.cmd = "SHOUT" => e.payload \in Nat \ {0})
  BY <1>2 DEF TakeDoes, Letter
<1>4. IF e.cmd = "SHOUT"
      THEN /\ doing' = [doing EXCEPT ![w] = e.payload]
           /\ worked' = [worked EXCEPT ![w] = Append(@, e.payload)]
      ELSE UNCHANGED <<doing, worked>>
  BY <1>3 DEF TakeTask
<1> QED
  BY <1>1, <1>2, <1>3, <1>4

LEMMA TakeResultEffect ==
    ASSUME TasksTypes, TakeResult
    PROVE  /\ UNCHANGED <<up, knows, members, issued, doing, worked>>
           /\ \E e : /\ TakeDoes(Coordinator, e)
                     /\ pending' = IF e.cmd = "WHISPER" THEN pending \ {e.payload} ELSE pending
<1>1. Consume(Coordinator) /\ UNCHANGED <<up, knows, members, net, issued, doing, worked>>
  BY DEF TakeResult, peers
<1>2. PICK e : TakeDoes(Coordinator, e)
  BY <1>1, TakeEffect, CoordinatorAssumption DEF Consume
<1>3. e = Event(Coordinator)
  BY <1>2 DEF TakeDoes
<1>4. pending' = IF e.cmd = "WHISPER" THEN pending \ {e.payload} ELSE pending
  BY <1>3 DEF TakeResult
<1> QED
  BY <1>1, <1>2, <1>4

-----------------------------------------------------------------------------
(* task_queue.py: its invariant *)

LEMMA TasksInitial ==
    ASSUME Coordinator \in up, up \subseteq Node, GroupInit, TasksInit
    PROVE  TasksTypes /\ InOrder /\ Reporting
<1>1. Queued
  <2>1. net \in [Node -> [Node -> Seq(Letter)]] /\ events \in [Node -> Seq(Letter)]
    BY EmptySeq DEF GroupInit
  <2>2. \A n, p \in Node : Range(net[n][p]) = {} /\ Range(events[p]) = {}
    BY RangeEmpty DEF GroupInit
  <2> QED
    BY <2>1, <2>2 DEF Queued
<1>2. worked \in [Node -> Seq(Nat \ {0})] /\ \A w \in Node : Range(worked[w]) = {}
  BY EmptySeq, RangeEmpty DEF TasksInit
<1>3. TasksTypes
  BY <1>1, <1>2 DEF TasksTypes, GroupInit, TasksInit
<1>4. InOrder
  <2>1. ASSUME NEW w \in Worker PROVE Upto(w, 0, 0)
    <3>1. w \in Node
      BY DEF Worker
    <3>2. events[w] = <<>> /\ net[Coordinator][w] = <<>> /\ issued = 0 /\ worked[w] = <<>>
      BY <3>1, CoordinatorAssumption DEF GroupInit, TasksInit
    <3> QED
      BY <3>2, CarriesNothing DEF Upto
  <2>2. 0 \in 0..issued
    BY DEF TasksInit
  <2> QED
    BY <2>1, <2>2 DEF InOrder
<1>5. Reporting
  <2>1. \A n, p \in Node : Range(net[n][p]) = {} /\ Range(events[p]) = {}
    BY RangeEmpty DEF GroupInit
  <2>2. Worker \subseteq Node /\ 1..issued = {} /\ \A w \in Node : doing[w] = 0
    BY DEF Worker, TasksInit
  <2> QED
    BY <1>2, <2>1, <2>2, CoordinatorAssumption DEF Reporting
<1> QED
  BY <1>3, <1>4, <1>5

LEMMA TasksTypesStep == TasksTypes /\ TasksStep => TasksTypes'
<1> SUFFICES ASSUME TasksTypes, TasksStep PROVE TasksTypes'
  OBVIOUS
<1>0. /\ Coordinator \in up /\ up \subseteq Node /\ issued \in Nat /\ pending \subseteq 1..issued
      /\ knows \in [Node -> SUBSET up] /\ members \in [Node -> SUBSET up]
      /\ \A n \in Node : n \notin knows[n] /\ members[n] \subseteq knows[n]
      /\ doing \in [Node -> Nat] /\ worked \in [Node -> Seq(Nat \ {0})]
  BY DEF TasksTypes
<1>1. CASE UNCHANGED <<mesh, taskVars>>
  BY <1>1 DEF mesh, taskVars, Queued, TasksTypes
<1>2. ASSUME NEW n \in Node, Enlist(n) PROVE TasksTypes'
  <2>1. Queued' /\ UNCHANGED <<up, knows, members, issued, pending, doing, worked>>
    BY <1>2, EnlistEffect DEF PostDoes
  <2> QED
    BY <1>0, <2>1 DEF TasksTypes
<1>3. CASE Issue
  <2>1. /\ issued' = issued + 1 /\ pending' = pending \cup {issued + 1}
        /\ Queued' /\ UNCHANGED <<up, knows, members, doing, worked>>
    BY <1>3, IssueEffect DEF PostDoes
  <2>2. issued' \in Nat /\ pending' \subseteq 1..issued'
    BY <1>0, <2>1
  <2> QED
    BY <1>0, <2>1, <2>2 DEF TasksTypes
<1>4. CASE TakeResult
  <2>1. /\ Queued' /\ UNCHANGED <<up, knows, members, issued, doing, worked>>
        /\ pending' \subseteq pending
    BY <1>4, TakeResultEffect DEF TakeDoes
  <2> QED
    BY <1>0, <2>1 DEF TasksTypes
<1>5. ASSUME NEW w \in Worker, TakeTask(w) PROVE TasksTypes'
  <2>1. PICK e : /\ TakeDoes(w, e)
                 /\ IF e.cmd = "SHOUT"
                    THEN /\ e.payload \in Nat \ {0}
                         /\ doing' = [doing EXCEPT ![w] = e.payload]
                         /\ worked' = [worked EXCEPT ![w] = Append(@, e.payload)]
                    ELSE UNCHANGED <<doing, worked>>
    BY <1>5, TakeTaskEffect
  <2>2. doing' \in [Node -> Nat]
    BY <1>0, <2>1
  <2>3. worked' \in [Node -> Seq(Nat \ {0})]
    <3>1. e.cmd = "SHOUT" => Append(worked[w], e.payload) \in Seq(Nat \ {0})
      BY <1>0, <2>1, RangeAppend DEF Worker
    <3> QED
      BY <1>0, <2>1, <3>1
  <2>4. Queued' /\ UNCHANGED <<up, knows, members, issued, pending>>
    BY <1>5, <2>1, TakeTaskEffect DEF TakeDoes
  <2> QED
    BY <1>0, <2>2, <2>3, <2>4 DEF TasksTypes
<1>6. ASSUME NEW w \in Worker, Report(w) PROVE TasksTypes'
  <2>1. /\ Queued' /\ UNCHANGED <<up, knows, members, issued, pending, worked>>
        /\ doing' = [doing EXCEPT ![w] = 0]
    BY <1>6, ReportEffect DEF PostDoes
  <2>2. doing' \in [Node -> Nat]
    BY <1>0, <2>1
  <2> QED
    BY <1>0, <2>1, <2>2 DEF TasksTypes
<1>7. ASSUME NEW n \in Node, NEW p \in Node, Discover(n, p), UNCHANGED taskVars PROVE TasksTypes'
  <2>1. /\ Queued' /\ n # p /\ {n, p} \subseteq up
        /\ UNCHANGED <<up, members, issued, pending, doing, worked>>
        /\ knows' = [knows EXCEPT ![n] = @ \cup {p}]
    BY <1>7, FindEffect DEF PostDoes, taskVars
  <2>2. knows' \in [Node -> SUBSET up] /\ \A a \in Node : a \notin knows'[a] /\ members[a] \subseteq knows'[a]
    BY <1>0, <2>1
  <2> QED
    BY <1>0, <2>1, <2>2 DEF TasksTypes
<1>8. ASSUME NEW n \in Node, NEW p \in Node, Receive(n, p), UNCHANGED taskVars PROVE TasksTypes'
  <2>1. PICK x, h : HandsOver(n, p, x, h)
    BY <1>8, ReceiveDoes
  <2>2. /\ Queued' /\ n # p /\ {n, p} \subseteq up /\ up' = up
        /\ knows' = [knows EXCEPT ![n] = @ \cup {p}]
        /\ members' = members \/ members' = [members EXCEPT ![n] = @ \cup {p}]
    BY <2>1 DEF HandsOver
  <2>3. knows' \in [Node -> SUBSET up] /\ members' \in [Node -> SUBSET up]
    <3>1. knows[n] \cup {p} \in SUBSET up /\ members[n] \cup {p} \in SUBSET up
      BY <1>0, <2>2
    <3>2. knows' \in [Node -> SUBSET up]
      BY <1>0, <2>2, <3>1
    <3>3. [members EXCEPT ![n] = @ \cup {p}] \in [Node -> SUBSET up]
      BY <1>0, <3>1
    <3> QED
      BY <1>0, <2>2, <3>2, <3>3
  <2>4. \A a \in Node : a \notin knows'[a] /\ members'[a] \subseteq knows'[a]
    BY <1>0, <2>2
  <2> QED
    BY <1>0, <1>8, <2>2, <2>3, <2>4 DEF TasksTypes, taskVars
<1> QED
  BY <1>1, <1>2, <1>3, <1>4, <1>5, <1>6, <1>7, <1>8 DEF TasksStep, TasksNext, GroupNext

\* One step of a worker's queue, and what is on its way to it.
LEMMA UptoStep ==
    ASSUME TasksTypes, TasksStep, NEW w \in Worker, NEW a \in Nat, NEW b \in Nat, Upto(w, a, b)
    PROVE  \E c, d \in 0..issued' : Upto(w, c, d)'
<1>1. /\ w \in Node /\ w # Coordinator /\ Coordinator \in Node /\ issued \in Nat
      /\ events[w] \in Seq(Letter) /\ net[Coordinator][w] \in Seq(Letter)
      /\ worked[w] \in Seq(Nat \ {0}) /\ Len(worked[w]) \in Nat
  BY LenProperties, CoordinatorAssumption DEF Worker, TasksTypes, Queued
<1>2. /\ Carries(events[w], a, b) /\ Carries(net[Coordinator][w], b, issued)
      /\ a <= b /\ b <= issued /\ Len(worked[w]) <= a
      /\ \A i \in 1..Len(worked[w]) : worked[w][i] = a - Len(worked[w]) + i
      /\ w \notin members[Coordinator] => a = issued /\ worked[w] = <<>>
  BY DEF Upto
<1>3. a \in 0..issued /\ b \in 0..issued
  BY <1>1, <1>2
<1>4. ASSUME issued' = issued, worked'[w] = worked[w],
             members[Coordinator] \subseteq members'[Coordinator],
             Carries(events'[w], a, b), Carries(net'[Coordinator][w], b, issued)
      PROVE  \E c, d \in 0..issued' : Upto(w, c, d)'
  <2>1. Upto(w, a, b)'
    BY <1>2, <1>4 DEF Upto
  <2> QED
    BY <1>3, <1>4, <2>1
<1>5. ASSUME NEW n \in Node, NEW to, NEW m, PostDoes(n, to, m), m.cmd # "SHOUT",
             UNCHANGED <<members, issued, worked>>
      PROVE  \E c, d \in 0..issued' : Upto(w, c, d)'
  <2>1. events'[w] = events[w] /\ m \in Letter
    BY <1>5 DEF PostDoes
  <2>2. net'[Coordinator][w] \in {net[Coordinator][w], Append(net[Coordinator][w], m)}
    BY <1>1, <1>5 DEF PostDoes
  <2>3. Carries(net'[Coordinator][w], b, issued)
    BY <1>1, <1>2, <1>5, <2>1, <2>2, CarriesAppend
  <2> QED
    BY <1>2, <1>4, <1>5, <2>1, <2>3
<1>6. CASE UNCHANGED <<mesh, taskVars>>
  BY <1>2, <1>4, <1>6 DEF mesh, taskVars
<1>7. ASSUME NEW n \in Node, Enlist(n) PROVE \E c, d \in 0..issued' : Upto(w, c, d)'
  <2>1. PICK m : PostDoes(n, knows[n], m) /\ m.cmd = "JOIN"
    BY <1>7, EnlistEffect
  <2>2. UNCHANGED <<members, issued, worked>>
    BY <1>7, EnlistEffect
  <2> QED
    BY <1>5, <2>1, <2>2
<1>8. CASE Issue
  <2>1. PICK m : /\ PostDoes(Coordinator, members[Coordinator], m)
                 /\ m.cmd = "SHOUT" /\ m.payload = issued + 1
    BY <1>8, IssueEffect
  <2>2. issued' = issued + 1 /\ UNCHANGED <<members, worked>>
    BY <1>8, IssueEffect
  <2>3. events'[w] = events[w] /\ m \in Letter
    BY <2>1 DEF PostDoes
  <2>4. CASE w \in members[Coordinator]
    <3>1. net'[Coordinator][w] = Append(net[Coordinator][w], m)
      BY <1>1, <2>1, <2>4 DEF PostDoes
    <3>2. Carries(net'[Coordinator][w], b, issued + 1)
      BY <1>1, <1>2, <2>1, <2>3, <3>1, CarriesAppend
    <3>3. Upto(w, a, b)'
      BY <1>1, <1>2, <2>2, <2>3, <2>4, <3>2 DEF Upto
    <3> QED
      BY <1>1, <1>3, <2>2, <3>3
  <2>5. CASE w \notin members[Coordinator]
    <3>1. net'[Coordinator][w] = net[Coordinator][w]
      BY <1>1, <2>1, <2>5 DEF PostDoes
    <3>2. a = issued /\ b = issued /\ worked[w] = <<>>
      BY <1>1, <1>2, <2>5
    <3>3. Carries(events[w], issued + 1, issued + 1)
          /\ Carries(net[Coordinator][w], issued + 1, issued + 1)
      <4>1. issued + 1 \in Nat
        BY <1>1
      <4>2. Carries(events[w], issued, issued) /\ Carries(net[Coordinator][w], issued, issued)
        BY <1>2, <3>2
      <4> QED
        BY <1>1, <4>1, <4>2, CarriesNone
    <3>4. Len(worked[w]) = 0
      BY <3>2, EmptySeq
    <3>5. PICK e : e = issued + 1
      OBVIOUS
    <3>6. Upto(w, e, e)'
      BY <1>1, <2>2, <2>3, <2>5, <3>1, <3>2, <3>3, <3>4, <3>5 DEF Upto
    <3>7. e \in 0..issued'
      BY <1>1, <2>2, <3>5
    <3> QED
      BY <3>6, <3>7
  <2> QED
    BY <2>4, <2>5
<1>9. CASE TakeResult
  <2>1. PICK e : TakeDoes(Coordinator, e)
    BY <1>9, TakeResultEffect
  <2>2. events'[w] = events[w] /\ net' = net
    BY <1>1, <2>1 DEF TakeDoes
  <2>3. UNCHANGED <<members, issued, worked>>
    BY <1>9, TakeResultEffect
  <2> QED
    BY <1>2, <1>4, <2>2, <2>3
<1>10. ASSUME NEW v \in Worker, TakeTask(v) PROVE \E c, d \in 0..issued' : Upto(w, c, d)'
  <2>1. PICK e : /\ TakeDoes(v, e)
                 /\ IF e.cmd = "SHOUT"
                    THEN /\ e.payload \in Nat \ {0}
                         /\ doing' = [doing EXCEPT ![v] = e.payload]
                         /\ worked' = [worked EXCEPT ![v] = Append(@, e.payload)]
                    ELSE UNCHANGED <<doing, worked>>
    BY <1>10, TakeTaskEffect
  <2>2. UNCHANGED <<members, issued>> /\ net' = net
    BY <1>10, <2>1, TakeTaskEffect DEF TakeDoes
  <2>3. CASE v # w
    <3>1. events'[w] = events[w]
      BY <1>1, <2>1, <2>3 DEF TakeDoes
    <3>2. worked'[w] = worked[w]
      BY <1>1, <2>1, <2>3 DEF TasksTypes
    <3> QED
      BY <1>2, <1>4, <2>2, <3>1, <3>2
  <2>4. CASE v = w
    <3>1. /\ e = Head(events[w]) /\ events[w] # <<>> /\ events'[w] = Tail(events[w])
      BY <2>1, <2>4 DEF TakeDoes, Event
    <3>2. CASE e.cmd # "SHOUT"
      <4>1. Carries(events'[w], a, b)
        BY <1>1, <1>2, <3>1, <3>2, CarriesTail
      <4> QED
        BY <1>2, <1>4, <2>1, <2>2, <3>2, <4>1
    <3>3. CASE e.cmd = "SHOUT"
      <4>1. e.payload = a + 1 /\ a + 1 <= b /\ Carries(events'[w], a + 1, b)
        BY <1>1, <1>2, <3>1, <3>3, CarriesTail
      <4>2. worked'[w] = Append(worked[w], a + 1)
        BY <1>1, <2>1, <2>4, <3>3, <4>1 DEF TasksTypes
      <4>3. /\ Len(worked'[w]) = Len(worked[w]) + 1 /\ worked'[w][Len(worked[w]) + 1] = a + 1
            /\ \A i \in 1..Len(worked[w]) : worked'[w][i] = worked[w][i]
        BY <1>1, <4>2, AppendProperties
      <4>4. \A i \in 1..Len(worked'[w]) : worked'[w][i] = (a + 1) - Len(worked'[w]) + i
        <5>0. PICK y, z, k : y = worked[w] /\ z = worked'[w] /\ k = Len(worked[w])
          OBVIOUS
        <5>1. /\ k \in Nat /\ Len(z) = k + 1 /\ z[k + 1] = a + 1
              /\ \A i \in 1..k : z[i] = y[i] /\ y[i] = a - k + i
          BY <1>1, <1>2, <4>3, <5>0
        <5>2. \A i \in 1..Len(z) : z[i] = (a + 1) - Len(z) + i
          <6> SUFFICES ASSUME NEW i \in 1 .. k + 1 PROVE z[i] = (a + 1) - (k + 1) + i
            BY <5>1
          <6>1. CASE i \in 1..k
            BY <5>1, <6>1
          <6>2. CASE i = k + 1
            BY <5>1, <6>2
          <6> QED
            BY <5>1, <6>1, <6>2
        <5> QED
          BY <5>0, <5>2
      <4>5. w \in members[Coordinator]
        BY <1>1, <1>2, <4>1
      <4>6. PICK c : c = a + 1
        OBVIOUS
      <4>7. /\ Carries(events'[w], c, b) /\ Carries(net'[Coordinator][w], b, issued')
            /\ c <= b /\ b <= issued' /\ Len(worked'[w]) <= c
            /\ w \in members'[Coordinator]
        BY <1>1, <1>2, <2>2, <4>1, <4>3, <4>5, <4>6
      <4>8. \A i \in 1..Len(worked'[w]) : worked'[w][i] = c - Len(worked'[w]) + i
        BY <4>4, <4>6
      <4>9. Upto(w, c, b)'
        BY <4>7, <4>8, Zenon DEF Upto
      <4>10. c \in 0..issued' /\ b \in 0..issued'
        BY <1>1, <1>3, <2>2, <4>1, <4>6
      <4> QED
        BY <4>9, <4>10
    <3> QED
      BY <3>2, <3>3
  <2> QED
    BY <2>3, <2>4
<1>11. ASSUME NEW v \in Worker, Report(v) PROVE \E c, d \in 0..issued' : Upto(w, c, d)'
  <2>1. PICK m : PostDoes(v, {Coordinator} \cap knows[v], m) /\ m.cmd = "WHISPER"
    BY <1>11, ReportEffect
  <2>2. UNCHANGED <<members, issued, worked>> /\ v \in Node
    BY <1>11, ReportEffect DEF Worker, TasksTypes
  <2> QED
    BY <1>5, <2>1, <2>2
<1>12. ASSUME NEW n \in Node, NEW p \in Node, Discover(n, p), UNCHANGED taskVars
       PROVE  \E c, d \in 0..issued' : Upto(w, c, d)'
  <2>1. PICK m : PostDoes(n, {p}, m) /\ m.cmd = "HELLO"
    BY <1>12, FindEffect
  <2>2. UNCHANGED <<members, issued, worked>>
    BY <1>12, FindEffect DEF taskVars
  <2> QED
    BY <1>5, <2>1, <2>2
<1>13. ASSUME NEW n \in Node, NEW p \in Node, Receive(n, p), UNCHANGED taskVars
       PROVE  \E c, d \in 0..issued' : Upto(w, c, d)'
  <2>1. PICK x, h : HandsOver(n, p, x, h)
    BY <1>13, ReceiveDoes
  <2>2. issued' = issued /\ worked' = worked
    BY <1>13 DEF taskVars
  <2>3. members[Coordinator] \subseteq members'[Coordinator]
    <3>1. members' = members \/ members' = [members EXCEPT ![n] = @ \cup {p}]
      BY <2>1 DEF HandsOver
    <3>2. members \in [Node -> SUBSET up]
      BY DEF TasksTypes
    <3> QED
      BY <1>1, <3>1, <3>2
  <2>4. CASE n = w /\ p = Coordinator
    <3>1. /\ x \in Letter /\ x = Head(net[p][n]) /\ net[p][n] # <<>> /\ net'[p][n] = Tail(net[p][n])
          /\ events'[n] = IF x.cmd = "JOIN" THEN events[n] ELSE Append(events[n], x)
      BY <2>1 DEF HandsOver
    <3>2. CASE x.cmd # "SHOUT"
      <4>1. Carries(net'[Coordinator][w], b, issued)
        BY <1>1, <1>2, <2>4, <3>1, <3>2, CarriesTail
      <4>2. Carries(events'[w], a, b)
        BY <1>1, <1>2, <2>4, <3>1, <3>2, CarriesAppend
      <4> QED
        BY <1>4, <2>2, <2>3, <4>1, <4>2
    <3>3. CASE x.cmd = "SHOUT"
      <4>1. x.payload = b + 1 /\ b + 1 <= issued /\ Carries(net'[Coordinator][w], b + 1, issued)
        BY <1>1, <1>2, <2>4, <3>1, <3>3, CarriesTail
      <4>2. Carries(events'[w], a, b + 1)
        BY <1>1, <1>2, <2>4, <3>1, <3>3, <4>1, CarriesAppend
      <4>3. PICK d : d = b + 1
        OBVIOUS
      <4>4. w \in members'[Coordinator]
        BY <1>1, <1>2, <2>3, <4>1
      <4>5. /\ Carries(events'[w], a, d) /\ Carries(net'[Coordinator][w], d, issued')
            /\ a <= d /\ d <= issued' /\ Len(worked'[w]) <= a
        BY <1>1, <1>2, <2>2, <4>1, <4>2, <4>3
      <4>6. \A i \in 1..Len(worked'[w]) : worked'[w][i] = a - Len(worked'[w]) + i
        BY <1>2, <2>2
      <4>7. Upto(w, a, d)'
        BY <4>4, <4>5, <4>6, Zenon DEF Upto
      <4>8. a \in 0..issued' /\ d \in 0..issued'
        BY <1>1, <1>3, <2>2, <4>1, <4>3
      <4> QED
        BY <4>7, <4>8
    <3> QED
      BY <3>2, <3>3
  <2>5. CASE ~(n = w /\ p = Coordinator)
    <3>1. Carries(events'[w], a, b)
      <4>1. CASE n # w
        BY <1>1, <1>2, <2>1, <4>1 DEF HandsOver
      <4>2. CASE n = w
        <5>1. x.cmd # "SHOUT" /\ x \in Letter
          BY <2>1, <2>5, <4>2 DEF HandsOver, Letter
        <5>2. events'[w] \in {events[w], Append(events[w], x)}
          BY <2>1, <4>2 DEF HandsOver
        <5> QED
          BY <1>1, <1>2, <5>1, <5>2, CarriesAppend
      <4> QED
        BY <4>1, <4>2
    <3>2. Carries(net'[Coordinator][w], b, issued)
      <4>1. CASE n = Coordinator /\ p = w
        <5>1. h \in Letter /\ h.cmd # "SHOUT"
          BY <2>1 DEF HandsOver
        <5>2. net'[Coordinator][w] \in {net[Coordinator][w], Append(net[Coordinator][w], h)}
          BY <2>1, <4>1 DEF HandsOver
        <5> QED
          BY <1>1, <1>2, <5>1, <5>2, CarriesAppend
      <4>2. CASE <<Coordinator, w>> \notin {<<p, n>>, <<n, p>>}
        <5>1. net'[Coordinator][w] = net[Coordinator][w]
          BY <1>1, <2>1, <4>2, Zenon DEF HandsOver
        <5> QED
          BY <1>2, <5>1
      <4> QED
        BY <2>5, <4>1, <4>2
    <3> QED
      BY <1>4, <2>2, <2>3, <3>1, <3>2
  <2> QED
    BY <2>4, <2>5
<1> QED
  BY <1>6, <1>7, <1>8, <1>9, <1>10, <1>11, <1>12, <1>13 DEF TasksStep, TasksNext, GroupNext

LEMMA InOrderStep == TasksTypes /\ InOrder /\ TasksStep => InOrder'
<1> SUFFICES ASSUME TasksTypes, InOrder, TasksStep, NEW w \in Worker
             PROVE  \E c, d \in 0..issued' : Upto(w, c, d)'
  <2>1. TasksTypes /\ TasksStep => Worker' = Worker
    <3> SUFFICES ASSUME TasksTypes, TasksStep PROVE up' = up
      BY DEF Worker
    <3> QED
      BY DEF TasksStep, TasksNext, GroupNext, Enlist, Issue, TakeResult, TakeTask, Report,
             Discover, Receive, mesh, peers
  <2> QED
    BY <2>1 DEF InOrder
<1>1. PICK a, b \in 0..issued : Upto(w, a, b)
  BY DEF InOrder
<1>2. a \in Nat /\ b \in Nat
  BY DEF TasksTypes
<1> QED
  BY <1>1, <1>2, UptoStep

LEMMA WorkersStay == TasksStep => up' = up /\ Worker' = Worker
<1> SUFFICES ASSUME TasksStep PROVE up' = up
  BY DEF Worker
<1> QED
  BY DEF TasksStep, TasksNext, GroupNext, Enlist, Issue, TakeResult, TakeTask, Report,
         Discover, Receive, mesh, peers

\* What one worker took, in one step: nothing, or the task at the head of its queue.
LEMMA WorkedGrows ==
    ASSUME TasksTypes, TasksStep, NEW w \in Worker
    PROVE  \/ worked'[w] = worked[w] /\ doing'[w] \in {doing[w], 0}
           \/ \E t \in Nat \ {0} :
                 /\ doing[w] = 0 /\ doing'[w] = t
                 /\ worked'[w] = Append(worked[w], t)
                 /\ Range(worked'[w]) = Range(worked[w]) \cup {t}
                 /\ \E m \in Range(events[w]) : m.cmd = "SHOUT"
                 /\ UNCHANGED <<knows, issued, pending, net>>
                 /\ events'[Coordinator] = events[Coordinator]
<1>0. /\ w \in Node /\ Coordinator \in Node /\ w # Coordinator /\ worked[w] \in Seq(Nat \ {0})
      /\ worked \in [Node -> Seq(Nat \ {0})] /\ doing \in [Node -> Nat]
  BY CoordinatorAssumption DEF TasksTypes, Worker
<1>1. ASSUME NEW v \in Worker, TakeTask(v)
      PROVE  \/ worked'[w] = worked[w] /\ doing'[w] \in {doing[w], 0}
             \/ \E t \in Nat \ {0} :
                   /\ doing[w] = 0 /\ doing'[w] = t
                   /\ worked'[w] = Append(worked[w], t)
                   /\ Range(worked'[w]) = Range(worked[w]) \cup {t}
                   /\ \E m \in Range(events[w]) : m.cmd = "SHOUT"
                   /\ UNCHANGED <<knows, issued, pending, net>>
                   /\ events'[Coordinator] = events[Coordinator]
  <2>1. PICK e : /\ TakeDoes(v, e)
                 /\ IF e.cmd = "SHOUT"
                    THEN /\ e.payload \in Nat \ {0}
                         /\ doing' = [doing EXCEPT ![v] = e.payload]
                         /\ worked' = [worked EXCEPT ![v] = Append(@, e.payload)]
                    ELSE UNCHANGED <<doing, worked>>
    BY <1>1, TakeTaskEffect
  <2>2. doing[v] = 0 /\ UNCHANGED <<knows, issued, pending, net>>
    BY <1>1, <2>1, TakeTaskEffect DEF TakeDoes
  <2>3. /\ e \in Range(events[v]) /\ events'[Coordinator] = events[Coordinator]
    BY <1>0, <2>1 DEF TakeDoes, Worker
  <2>4. CASE e.cmd # "SHOUT" \/ v # w
    BY <1>0, <2>1, <2>4
  <2>5. CASE e.cmd = "SHOUT" /\ v = w
    <3>1. /\ e.payload \in Nat \ {0} /\ doing'[w] = e.payload
          /\ worked'[w] = Append(worked[w], e.payload)
      BY <1>0, <2>1, <2>5
    <3>2. Range(worked'[w]) = Range(worked[w]) \cup {e.payload}
      <4>1. PICK T : T = Nat \ {0}
        OBVIOUS
      <4>2. worked[w] \in Seq(T) /\ e.payload \in T
        BY <1>0, <3>1, <4>1
      <4> QED
        BY <3>1, <4>2, RangeAppend
    <3>3. PICK t \in Nat \ {0} : t = e.payload
      BY <3>1
    <3> QED
      BY <2>2, <2>3, <2>5, <3>1, <3>2, <3>3
  <2> QED
    BY <2>4, <2>5
<1>2. ASSUME NEW v \in Worker, Report(v) PROVE worked'[w] = worked[w] /\ doing'[w] \in {doing[w], 0}
  BY <1>0, <1>2, ReportEffect
<1> QED
  BY <1>1, <1>2 DEF TasksStep, TasksNext, GroupNext, Enlist, Issue, TakeResult, mesh, taskVars

LEMMA TookStays ==
    ASSUME TasksTypes, TasksStep, NEW t, Took(t)
    PROVE  Took(t)'
<1>1. PICK w \in Worker : t \in Range(worked[w])
  BY DEF Took
<1>2. t \in Range(worked'[w])
  BY <1>1, WorkedGrows
<1> QED
  BY <1>1, <1>2, WorkersStay DEF Took

\* Every result on its way, or waiting, was one before, or is a report of a worker.
LEMMA ResultsAre ==
    ASSUME TasksTypes, TasksStep, NEW n \in Node, NEW m, m.cmd = "WHISPER",
           m \in Range(net'[n][Coordinator]) \cup Range(events'[Coordinator])
    PROVE  \/ m \in Range(net[n][Coordinator]) \cup Range(events[Coordinator])
           \/ \E p \in Node : m \in Range(net[p][Coordinator])
           \/ \E w \in Worker : m.payload = doing[w] /\ doing[w] # 0
<1>0. Coordinator \in Node
  BY CoordinatorAssumption
<1>1. ASSUME NEW p \in Node, NEW to, NEW x, PostDoes(p, to, x), x # m
      PROVE  m \in Range(net[n][Coordinator]) \cup Range(events[Coordinator])
  BY <1>0, <1>1 DEF PostDoes
<1>2. ASSUME NEW p \in Node, NEW e, TakeDoes(p, e)
      PROVE  m \in Range(net[n][Coordinator]) \cup Range(events[Coordinator])
  BY <1>0, <1>2 DEF TakeDoes
<1>3. CASE UNCHANGED <<mesh, taskVars>>
  BY <1>3 DEF mesh
<1>4. ASSUME NEW p \in Node, Enlist(p)
      PROVE  m \in Range(net[n][Coordinator]) \cup Range(events[Coordinator])
  <2>1. PICK x : PostDoes(p, knows[p], x) /\ x.cmd = "JOIN"
    BY <1>4, EnlistEffect
  <2> QED
    BY <1>1, <2>1
<1>5. CASE Issue
  <2>1. PICK x : PostDoes(Coordinator, members[Coordinator], x) /\ x.cmd = "SHOUT"
    BY <1>5, IssueEffect
  <2> QED
    BY <1>0, <1>1, <2>1
<1>6. CASE TakeResult
  BY <1>0, <1>2, <1>6, TakeResultEffect
<1>7. ASSUME NEW w \in Worker, TakeTask(w)
      PROVE  m \in Range(net[n][Coordinator]) \cup Range(events[Coordinator])
  BY <1>2, <1>7, TakeTaskEffect DEF Worker, TasksTypes
<1>8. ASSUME NEW w \in Worker, Report(w)
      PROVE  \/ m \in Range(net[n][Coordinator]) \cup Range(events[Coordinator])
             \/ m.payload = doing[w] /\ doing[w] # 0
  <2>1. PICK x : PostDoes(w, {Coordinator} \cap knows[w], x) /\ x.payload = doing[w]
    BY <1>8, ReportEffect
  <2>2. doing[w] # 0 /\ w \in Node
    BY <1>8, ReportEffect DEF Worker, TasksTypes
  <2> QED
    BY <1>1, <2>1, <2>2
<1>9. ASSUME NEW a \in Node, NEW b \in Node, Discover(a, b)
      PROVE  m \in Range(net[n][Coordinator]) \cup Range(events[Coordinator])
  <2>1. PICK x : PostDoes(a, {b}, x) /\ x.cmd = "HELLO"
    BY <1>9, FindEffect
  <2> QED
    BY <1>1, <2>1
<1>10. ASSUME NEW a \in Node, NEW b \in Node, Receive(a, b)
       PROVE  \/ m \in Range(net[n][Coordinator]) \cup Range(events[Coordinator])
              \/ \E p \in Node : m \in Range(net[p][Coordinator])
  <2>1. PICK x, h : HandsOver(a, b, x, h)
    BY <1>10, ReceiveDoes
  <2>2. CASE m \in Range(net'[n][Coordinator])
    <3>1. CASE n = b /\ Coordinator = a
      BY <2>1, <2>2, <3>1 DEF HandsOver
    <3>2. CASE n = a /\ Coordinator = b
      BY <2>1, <2>2, <3>2 DEF HandsOver
    <3>3. CASE <<n, Coordinator>> \notin {<<b, a>>, <<a, b>>}
      <4>1. net'[n][Coordinator] = net[n][Coordinator]
        BY <1>0, <2>1, <3>3, Zenon DEF HandsOver
      <4> QED
        BY <2>2, <4>1
    <3> QED
      BY <3>1, <3>2, <3>3
  <2>3. CASE m \in Range(events'[Coordinator])
    <3>1. CASE a = Coordinator
      <4>1. m \in Range(events[Coordinator]) \/ m = x
        BY <2>1, <2>3, <3>1 DEF HandsOver
      <4>2. x \in Range(net[b][Coordinator])
        BY <2>1, <3>1 DEF HandsOver
      <4> QED
        BY <4>1, <4>2
    <3>2. CASE a # Coordinator
      <4>1. events'[Coordinator] = events[Coordinator]
        BY <1>0, <2>1, <3>2 DEF HandsOver
      <4> QED
        BY <2>3, <4>1
    <3> QED
      BY <3>1, <3>2
  <2> QED
    BY <2>2, <2>3
<1> QED
  BY <1>3, <1>4, <1>5, <1>6, <1>7, <1>8, <1>9, <1>10 DEF TasksStep, TasksNext, GroupNext

\* No result is lost: it is on its way, it waits, or it is the one that the
\* coordinator takes.
LEMMA ResultsStay ==
    ASSUME TasksTypes, TasksStep, NEW n \in Node, NEW t,
           Reported(net[n][Coordinator], t) \/ Reported(events[Coordinator], t), t \in pending'
    PROVE  Reported(net'[n][Coordinator], t) \/ Reported(events'[Coordinator], t)
<1>0. Coordinator \in Node
  BY CoordinatorAssumption
<1>1. PICK m : /\ m \in Range(net[n][Coordinator]) \cup Range(events[Coordinator])
               /\ m.cmd = "WHISPER" /\ m.payload = t
  BY DEF Reported
<1>2. ASSUME m \in Range(net'[n][Coordinator]) \cup Range(events'[Coordinator])
      PROVE  Reported(net'[n][Coordinator], t) \/ Reported(events'[Coordinator], t)
  BY <1>1, <1>2 DEF Reported
<1>3. ASSUME NEW p \in Node, NEW to, NEW x, PostDoes(p, to, x)
      PROVE  m \in Range(net'[n][Coordinator]) \cup Range(events'[Coordinator])
  BY <1>0, <1>1, <1>3 DEF PostDoes
<1>4. CASE UNCHANGED <<mesh, taskVars>>
  BY <1>1, <1>2, <1>4 DEF mesh
<1>5. ASSUME NEW p \in Node, Enlist(p)
      PROVE  m \in Range(net'[n][Coordinator]) \cup Range(events'[Coordinator])
  BY <1>3, <1>5, EnlistEffect
<1>6. CASE Issue
  BY <1>0, <1>2, <1>3, <1>6, IssueEffect
<1>7. CASE TakeResult
  <2>1. PICK e : /\ TakeDoes(Coordinator, e)
                 /\ pending' = IF e.cmd = "WHISPER" THEN pending \ {e.payload} ELSE pending
    BY <1>7, TakeResultEffect
  <2>2. m # e
    BY <1>1, <2>1
  <2>3. m \in Range(net'[n][Coordinator]) \cup Range(events'[Coordinator])
    BY <1>1, <2>1, <2>2 DEF TakeDoes
  <2> QED
    BY <1>2, <2>3
<1>8. ASSUME NEW w \in Worker, TakeTask(w)
      PROVE  m \in Range(net'[n][Coordinator]) \cup Range(events'[Coordinator])
  <2>1. PICK e : TakeDoes(w, e)
    BY <1>8, TakeTaskEffect
  <2> QED
    BY <1>0, <1>1, <2>1 DEF TakeDoes, Worker
<1>9. ASSUME NEW w \in Worker, Report(w)
      PROVE  m \in Range(net'[n][Coordinator]) \cup Range(events'[Coordinator])
  <2>1. w \in Node
    BY DEF Worker, TasksTypes
  <2> QED
    BY <1>3, <1>9, <2>1, ReportEffect
<1>10. ASSUME NEW a \in Node, NEW b \in Node, Discover(a, b)
       PROVE  m \in Range(net'[n][Coordinator]) \cup Range(events'[Coordinator])
  BY <1>3, <1>10, FindEffect
<1>11. ASSUME NEW a \in Node, NEW b \in Node, Receive(a, b)
       PROVE  m \in Range(net'[n][Coordinator]) \cup Range(events'[Coordinator])
  <2>1. PICK x, h : HandsOver(a, b, x, h)
    BY <1>11, ReceiveDoes
  <2>2. Range(events[Coordinator]) \subseteq Range(events'[Coordinator])
    BY <1>0, <2>1 DEF HandsOver
  <2>3. CASE m \in Range(net[n][Coordinator])
    <3>1. CASE n = b /\ Coordinator = a
      <4>1. m = x \/ m \in Range(net'[n][Coordinator])
        BY <2>1, <2>3, <3>1 DEF HandsOver
      <4>2. m = x => m \in Range(events'[Coordinator])
        BY <1>1, <2>1, <3>1 DEF HandsOver
      <4> QED
        BY <4>1, <4>2
    <3>2. CASE n = a /\ Coordinator = b
      BY <2>1, <2>3, <3>2 DEF HandsOver
    <3>3. CASE <<n, Coordinator>> \notin {<<b, a>>, <<a, b>>}
      <4>1. net'[n][Coordinator] = net[n][Coordinator]
        BY <1>0, <2>1, <3>3, Zenon DEF HandsOver
      <4> QED
        BY <2>3, <4>1
    <3> QED
      BY <3>1, <3>2, <3>3
  <2> QED
    BY <1>1, <2>2, <2>3
<1> QED
  BY <1>2, <1>4, <1>5, <1>6, <1>7, <1>8, <1>9, <1>10, <1>11 DEF TasksStep, TasksNext, GroupNext

LEMMA ReportingStep == TasksTypes /\ InOrder /\ Reporting /\ TasksStep => Reporting'
<1> SUFFICES ASSUME TasksTypes, InOrder, Reporting, TasksStep PROVE Reporting'
  OBVIOUS
<1>0. /\ up' = up /\ Worker' = Worker /\ Coordinator \in Node /\ Worker \subseteq Node
      /\ Coordinator \notin Worker
      /\ issued \in Nat /\ pending \subseteq 1..issued
      /\ \A w \in Worker : worked[w] \in Seq(Nat \ {0}) /\ doing[w] \in Nat
      /\ doing \in [Node -> Nat] /\ knows \in [Node -> SUBSET up]
  BY WorkersStay, CoordinatorAssumption DEF TasksTypes, Worker
<1>1. /\ \A t \in 1..issued : t \notin pending => Took(t)
      /\ \A w \in Worker : doing[w] # 0 => doing[w] \in Range(worked[w])
      /\ \A n \in Node : \A m \in Range(net[n][Coordinator]) \cup Range(events[Coordinator]) :
            m.cmd = "WHISPER" => Took(m.payload)
      /\ \A w \in Worker : \A t \in Range(worked[w]) \cap pending :
            doing[w] = t \/ Reported(net[w][Coordinator], t) \/ Reported(events[Coordinator], t)
      /\ \A w \in Worker :
            doing[w] # 0 \/ (\E m \in Range(events[w]) : m.cmd = "SHOUT") => Coordinator \in knows[w]
  BY DEF Reporting
\* A task has a result once somebody took it.
<1>2. ASSUME NEW t \in 1..issued', t \notin pending' PROVE Took(t)'
  <2>1. CASE t \in 1..issued /\ t \notin pending
    BY <1>1, <2>1, TookStays
  <2>2. CASE Issue
    <3>1. issued' = issued + 1 /\ pending' = pending \cup {issued + 1}
      BY <2>2, IssueEffect
    <3> QED
      BY <1>0, <1>2, <2>1, <3>1
  <2>3. CASE TakeResult
    <3>1. PICK e : /\ TakeDoes(Coordinator, e)
                   /\ pending' = IF e.cmd = "WHISPER" THEN pending \ {e.payload} ELSE pending
      BY <2>3, TakeResultEffect
    <3>2. issued' = issued
      BY <2>3, TakeResultEffect
    <3>3. CASE t \in pending
      <4>1. e.cmd = "WHISPER" /\ e.payload = t /\ e \in Range(events[Coordinator])
        BY <1>2, <3>1, <3>3 DEF TakeDoes
      <4>2. Took(t)
        BY <1>0, <1>1, <4>1
      <4> QED
        BY <4>2, TookStays
    <3> QED
      BY <1>2, <2>1, <3>2, <3>3
  <2>4. CASE UNCHANGED <<issued, pending>>
    BY <1>2, <2>1, <2>4
  <2> QED
    BY <2>2, <2>3, <2>4
       DEF TasksStep, TasksNext, Enlist, TakeTask, Report, taskVars
<1>3. ASSUME NEW w \in Worker, doing'[w] # 0 PROVE doing'[w] \in Range(worked'[w])
  BY <1>1, <1>3, WorkedGrows
<1>4. ASSUME NEW n \in Node, NEW m \in Range(net'[n][Coordinator]) \cup Range(events'[Coordinator]),
             m.cmd = "WHISPER"
      PROVE  Took(m.payload)'
  <2>1. PICK t : t = m.payload
    OBVIOUS
  <2>2. Took(t)
    <3>1. CASE \/ m \in Range(net[n][Coordinator]) \cup Range(events[Coordinator])
               \/ \E p \in Node : m \in Range(net[p][Coordinator])
      BY <1>1, <1>4, <2>1, <3>1
    <3>2. CASE \E w \in Worker : m.payload = doing[w] /\ doing[w] # 0
      BY <1>1, <2>1, <3>2 DEF Took
    <3> QED
      BY <1>4, <3>1, <3>2, ResultsAre
  <2>3. Took(t)'
    BY <2>2, TookStays
  <2> QED
    BY <2>1, <2>3
\* A task that waits for its result has a worker at it, or the result is there.
<1>5. ASSUME NEW w \in Worker, NEW t \in Range(worked'[w]) \cap pending'
      PROVE  \/ doing'[w] = t \/ Reported(net'[w][Coordinator], t)
             \/ Reported(events'[Coordinator], t)
  <2>0. w \in Node /\ Range(worked[w]) \subseteq 1..issued
    <3>1. w \in Node /\ worked[w] \in Seq(Nat \ {0}) /\ Len(worked[w]) \in Nat
      BY <1>0, LenProperties
    <3>2. PICK a, b \in 0..issued : Upto(w, a, b)
      BY DEF InOrder
    <3>3. /\ Len(worked[w]) <= a
          /\ \A i \in 1..Len(worked[w]) : worked[w][i] = a - Len(worked[w]) + i
      BY <3>2, Zenon DEF Upto
    <3>4. PICK q, k, c : q = worked[w] /\ k = Len(worked[w]) /\ c = issued
      OBVIOUS
    <3>5. /\ k \in Nat /\ c \in Nat /\ a \in 0..c /\ k <= a
          /\ \A i \in 1..k : q[i] = a - k + i
      BY <1>0, <3>1, <3>3, <3>4
    <3>6. \A i \in 1..k : q[i] \in 1..c
      BY <3>5
    <3> QED
      BY <3>1, <3>4, <3>6, RangeType
  <2>1. CASE t \in Range(worked[w]) /\ t \notin pending
    <3>1. t \in 1..issued
      BY <2>0, <2>1
    <3>2. pending' \subseteq pending \cup {issued + 1}
      BY IssueEffect, TakeResultEffect
         DEF TasksStep, TasksNext, Enlist, TakeTask, Report, taskVars
    <3> QED
      BY <1>0, <1>5, <2>1, <3>1, <3>2
  <2>2. CASE t \in Range(worked[w]) /\ t \in pending
    <3>1. CASE Reported(net[w][Coordinator], t) \/ Reported(events[Coordinator], t)
      BY <1>5, <2>0, <3>1, ResultsStay
    <3>2. CASE doing[w] = t
      <4>1. t # 0
        BY <1>0, <2>2
      <4>2. CASE doing'[w] = doing[w]
        BY <3>2, <4>2
      <4>3. CASE doing'[w] # doing[w]
        <5>1. Report(w)
          <6>1. \A v \in Worker : TakeTask(v) => doing'[w] = doing[w]
            <7> SUFFICES ASSUME NEW v \in Worker, TakeTask(v) PROVE doing'[w] = doing[w]
              OBVIOUS
            <7>1. doing[v] = 0 /\ v # w
              BY <3>2, <4>1, TakeTaskEffect
            <7> QED
              BY <1>0, <2>0, <7>1, TakeTaskEffect
          <6>2. \A v \in Worker : Report(v) => v = w \/ doing'[w] = doing[w]
            BY <1>0, <2>0, ReportEffect
          <6> QED
            BY <4>3, <6>1, <6>2
               DEF TasksStep, TasksNext, Enlist, Issue, TakeResult, taskVars
        <5>2. PICK m : /\ PostDoes(w, {Coordinator} \cap knows[w], m)
                       /\ m.cmd = "WHISPER" /\ m.payload = doing[w]
          BY <5>1, ReportEffect
        <5>3. Coordinator \in knows[w]
          BY <1>1, <3>2, <4>1
        <5>4. m \in Range(net'[w][Coordinator])
          BY <1>0, <2>0, <5>2, <5>3 DEF PostDoes
        <5> QED
          BY <3>2, <5>2, <5>4 DEF Reported
      <4> QED
        BY <4>2, <4>3
    <3> QED
      BY <1>1, <2>2, <3>1, <3>2
  <2>3. CASE t \notin Range(worked[w])
    BY <1>5, <2>3, WorkedGrows
  <2> QED
    BY <2>1, <2>2, <2>3
\* Whoever has a task, or will take one, knows the coordinator.
<1>6. ASSUME NEW w \in Worker, doing'[w] # 0 \/ \E m \in Range(events'[w]) : m.cmd = "SHOUT"
      PROVE  Coordinator \in knows'[w]
  <2>0. w \in Node
    BY <1>0
  <2>1. knows[w] \subseteq knows'[w]
    <3>1. ASSUME NEW n \in Node, NEW p \in Node, Discover(n, p) \/ Receive(n, p)
          PROVE  knows[w] \subseteq knows'[w]
      <4>1. knows' = [knows EXCEPT ![n] = @ \cup {p}]
        BY <3>1 DEF Discover, Receive
      <4> QED
        BY <1>0, <2>0, <4>1
    <3> QED
      BY <3>1 DEF TasksStep, TasksNext, GroupNext, Enlist, Issue, TakeResult, TakeTask, Report,
                  mesh, peers
  <2>2. CASE doing'[w] # 0
    <3>1. doing[w] # 0 \/ \E m \in Range(events[w]) : m.cmd = "SHOUT"
      BY <2>2, WorkedGrows
    <3> QED
      BY <1>1, <2>1, <3>1
  <2>3. ASSUME NEW m \in Range(events'[w]), m.cmd = "SHOUT" PROVE Coordinator \in knows'[w]
    <3>1. CASE m \in Range(events[w])
      BY <1>1, <2>1, <2>3, <3>1
    <3>2. CASE m \notin Range(events[w])
      <4>1. ASSUME NEW n \in Node, NEW to, NEW x, PostDoes(n, to, x) PROVE FALSE
        BY <2>3, <3>2, <4>1 DEF PostDoes
      <4>2. ASSUME NEW n \in Node, NEW e, TakeDoes(n, e) PROVE FALSE
        BY <2>0, <2>3, <3>2, <4>2 DEF TakeDoes
      <4>3. ASSUME NEW n \in Node, NEW p \in Node, Receive(n, p) PROVE Coordinator \in knows'[w]
        <5>1. PICK x, h : HandsOver(n, p, x, h)
          BY <4>3, ReceiveDoes
        <5>2. n = w /\ m = x
          BY <2>0, <2>3, <3>2, <5>1 DEF HandsOver
        <5>3. p = Coordinator
          BY <2>3, <5>1, <5>2 DEF HandsOver, Letter
        <5>4. knows' = [knows EXCEPT ![n] = @ \cup {p}]
          BY <5>1 DEF HandsOver
        <5> QED
          BY <1>0, <2>0, <5>2, <5>3, <5>4
      <4>4. ASSUME NEW n \in Node, NEW p \in Node, Discover(n, p) PROVE FALSE
        BY <4>1, <4>4, FindEffect
      <4>5. ASSUME NEW n \in Node, Enlist(n) PROVE FALSE
        BY <4>1, <4>5, EnlistEffect
      <4>6. ~Issue
        BY <1>0, <4>1, IssueEffect
      <4>7. ~TakeResult
        BY <1>0, <4>2, TakeResultEffect
      <4>8. ASSUME NEW v \in Worker, TakeTask(v) \/ Report(v) PROVE FALSE
        BY <1>0, <4>1, <4>2, <4>8, TakeTaskEffect, ReportEffect
      <4>9. ~UNCHANGED <<mesh, taskVars>>
        BY <2>3, <3>2 DEF mesh
      <4> QED
        BY <4>3, <4>4, <4>5, <4>6, <4>7, <4>8, <4>9 DEF TasksStep, TasksNext, GroupNext
    <3> QED
      BY <3>1, <3>2
  <2> QED
    BY <1>6, <2>2, <2>3
<1> QED
  BY <1>0, <1>2, <1>3, <1>4, <1>5, <1>6 DEF Reporting, Reported

\* At rest no task and no result is on its way.
LEMMA RestServed == TasksTypes /\ InOrder /\ Reporting => Served
<1> SUFFICES ASSUME TasksTypes, InOrder, Reporting, Rest, doing = [w \in Node |-> 0]
             PROVE  /\ pending = (1..issued) \ UNION {Range(worked[w]) : w \in Worker}
                    /\ \A w \in Worker :
                          worked[w] = [i \in 1..Len(worked[w]) |-> issued - Len(worked[w]) + i]
  BY DEF Served
<1>0. /\ Coordinator \in up /\ Coordinator \in Node /\ Worker \subseteq up /\ up \subseteq Node
      /\ issued \in Nat /\ pending \subseteq 1..issued
      /\ \A w \in Worker : worked[w] \in Seq(Nat \ {0})
  BY DEF TasksTypes, Worker
<1>1. ASSUME NEW w \in Worker
      PROVE  worked[w] = [i \in 1..Len(worked[w]) |-> issued - Len(worked[w]) + i]
  <2>1. PICK a, b \in 0..issued : Upto(w, a, b)
    BY DEF InOrder
  <2>2. events[w] = <<>> /\ net[Coordinator][w] = <<>>
    BY <1>0 DEF Rest
  <2>3. a = b /\ b = issued
    <3>1. /\ a \in Nat /\ b \in Nat /\ Carries(<<>>, a, b) /\ Carries(<<>>, b, issued)
          /\ a <= b /\ b <= issued
      BY <1>0, <2>1, <2>2 DEF Upto
    <3> QED
      BY <1>0, <3>1, CarriesNothing
  <2>4. \A i \in 1..Len(worked[w]) : worked[w][i] = issued - Len(worked[w]) + i
    BY <2>1, <2>3 DEF Upto
  <2>5. worked[w] \in [1..Len(worked[w]) -> Nat \ {0}]
    BY <1>0
  <2> QED
    BY <2>4, <2>5
<1>2. ASSUME NEW t \in pending, NEW w \in Worker, t \in Range(worked[w]) PROVE FALSE
  <2>1. net[w][Coordinator] = <<>> /\ events[Coordinator] = <<>> /\ doing[w] = 0
    BY <1>0 DEF Rest
  <2>2. ~Reported(net[w][Coordinator], t) /\ ~Reported(events[Coordinator], t)
    BY <2>1, RangeEmpty DEF Reported
  <2>3. t # 0
    BY <1>0
  <2> QED
    BY <1>2, <2>1, <2>2, <2>3 DEF Reporting
<1>3. \A t \in 1..issued : t \notin pending => \E w \in Worker : t \in Range(worked[w])
  BY DEF Reporting, Took
<1>4. pending = (1..issued) \ UNION {Range(worked[w]) : w \in Worker}
  BY <1>0, <1>2, <1>3
<1> QED
  BY <1>1, <1>4

\* Whoever is found, joins or is late when: once nothing is on its way, a task has
\* its result exactly if a worker got it, and whoever got one got all later ones.
THEOREM ServedHolds == TasksSpec => []Served
<1>1. TasksTypes /\ InOrder /\ Reporting /\ TasksStep => (TasksTypes /\ InOrder /\ Reporting)'
  BY TasksTypesStep, InOrderStep, ReportingStep
<1>2. Coordinator \in up /\ up \subseteq Node /\ joined = {} /\ GroupInit /\ TasksInit
         => TasksTypes /\ InOrder /\ Reporting
  BY TasksInitial
<1> QED
  BY <1>1, <1>2, RestServed, PTL DEF TasksSpec, TasksStep
=============================================================================
