------------------------------ MODULE ZreLock ------------------------------
(***************************************************************************)
(* examples/distributed_lock.py with one lock name: a node asks all others *)
(* and counts votes, its own, those of nodes that ask for the same lock,   *)
(* and grants.                                                             *)
(***************************************************************************)
EXTENDS ZreGroup

VARIABLES
    locks,     \* locks[n]: LockState of the name, "none" if it has no entry
    held,      \* nodes that hold it
    votes,     \* votes[n]: names of the nodes whose vote n has
    awaiting,  \* nodes in acquire()
    tried      \* nodes whose program called acquire()

lockVars == <<locks, held, votes, awaiting, tried>>

\* The name that a program gives its node is not the node's uuid.
Name(n) == <<"lock", n>>

Request(n) == [type |-> "LOCK_REQUEST", requester |-> Name(n), id |-> n]
Grant(n, request) == [type |-> "LOCK_GRANT", holder |-> Name(n), id |-> request.id]
Free(n) == [type |-> "LOCK_RELEASE", holder |-> Name(n)]

Init ==
    /\ GroupInit
    /\ up = Node /\ joined = Node  \* by the first command
    /\ locks = [n \in Node |-> "none"]
    /\ held = {}
    /\ votes = [n \in Node |-> {}]
    /\ awaiting = {}
    /\ tried = {}

\* acquire, up to its loop.  The program calls it when it has peers; that after
\* five seconds without it calls it too is left out.
Acquire(n) ==
    /\ n \notin tried
    /\ knows[n] # {}
    /\ tried' = tried \cup {n}
    /\ awaiting' = awaiting \cup {n}
    /\ votes' = [votes EXCEPT ![n] = @ \cup {Name(n)}]
    /\ Shout(n, Request(n))
    /\ UNCHANGED <<joined, peers, events, locks, held>>

\* A majority of the peers of this moment and the node itself.
Needed(n) ==
    LET half == (Cardinality(knows[n]) + 1) \div 2 + 1
    IN  IF half > 1 THEN half ELSE 1

\* The loop of acquire finds enough votes.
Obtain(n) ==
    /\ n \in awaiting
    /\ Cardinality(votes[n]) >= Needed(n)
    /\ held' = held \cup {n}
    /\ locks' = [locks EXCEPT ![n] = "locked"]
    /\ awaiting' = awaiting \ {n}
    /\ UNCHANGED <<mesh, votes, tried>>

\* The loop of acquire ends after ten seconds.
GiveUp(n) ==
    /\ n \in awaiting
    /\ awaiting' = awaiting \ {n}
    /\ UNCHANGED <<mesh, locks, held, votes, tried>>

\* release.
Release(n) ==
    /\ n \in held
    /\ held' = held \ {n}
    /\ locks' = [locks EXCEPT ![n] = "free"]
    /\ Shout(n, Free(n))
    /\ UNCHANGED <<joined, peers, events, votes, awaiting, tried>>

\* LOCK_REQUEST: unless this node holds the lock, the requester's name is added to
\* this node's own votes, and a grant is whispered to that name.
HandleRequest(n, request) ==
    /\ IF locks[n] # "locked"
       THEN /\ votes' = [votes EXCEPT ![n] = @ \cup {request.requester}]
            /\ Whisper(n, request.requester, Grant(n, request))
       ELSE UNCHANGED <<votes, net>>
    /\ UNCHANGED locks

\* LOCK_RELEASE.
HandleRelease(n) ==
    /\ locks' = [locks EXCEPT ![n] = IF @ = "none" THEN @ ELSE "free"]
    /\ UNCHANGED <<votes, net>>

\* LOCK_GRANT.
HandleGrant(n, grant) ==
    /\ votes' = IF n \in awaiting /\ grant.id = n
                THEN [votes EXCEPT ![n] = @ \cup {grant.holder}] ELSE votes
    /\ UNCHANGED <<locks, net>>

\* handle_message.
HandleLock(n) ==
    /\ Consume(n)
    /\ LET e == Event(n)
       IN  CASE e.cmd = "HELLO" -> UNCHANGED <<locks, votes, net>>
             [] e.cmd = "WHISPER" -> HandleGrant(n, e.payload)
             [] e.payload.type = "LOCK_REQUEST" -> HandleRequest(n, e.payload)
             [] e.payload.type = "LOCK_RELEASE" -> HandleRelease(n)
    /\ UNCHANGED <<joined, peers, held, awaiting, tried>>

Next ==
    \/ GroupNext /\ UNCHANGED lockVars
    \/ \E n \in Node : Acquire(n) \/ Obtain(n) \/ GiveUp(n) \/ Release(n) \/ HandleLock(n)

vars == <<mesh, lockVars>>

Spec == Init /\ [][Next]_vars

-----------------------------------------------------------------------------
(* Properties *)

\* The lock has at most one holder (distributed_lock.py:3: "Mutual exclusion
\* across peers").
Exclusive == Cardinality(held) <= 1
=============================================================================
