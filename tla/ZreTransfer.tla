---------------------------- MODULE ZreTransfer ----------------------------
(***************************************************************************)
(* The queues between two applications: the commands of zre/node.py, the   *)
(* DEALER of the sender, the ROUTER of the receiver, the event queue.  The *)
(* application is examples/file_transfer.py: senders whisper a file to one *)
(* receiver, chunk by chunk.  Any of the nodes may meet another node with  *)
(* its own uuid, which ends its run loop but not its program.              *)
(*                                                                         *)
(* A node is one thread: what the application does between two awaits that *)
(* really wait is one step, and so is a handler.  libzmq moves frames      *)
(* between the queues in its own threads.                                  *)
(***************************************************************************)
EXTENDS Naturals, Sequences, SequencesExt

CONSTANTS
    Sender,    \* uuids
    Receiver,  \* the uuid that everybody sends to
    Chunks,    \* chunks in a file
    HWM,       \* frames that a DEALER or the ROUTER holds per connection
    None,
    Room,      \* events that wait for an application (1000)
    Bound,     \* how often each kind of environment step may happen
    Total      \* how many of those steps may happen in all

Node == Sender \cup {Receiver}
Kinds == {"collide", "quit"}

ASSUME NoneAssumption == None \notin {"0", "3", "open", "cut"}
ASSUME NodeAssumption == Receiver \notin Sender
ASSUME SizeAssumption == {Chunks, HWM, Room} \subseteq Nat \ {0}
ASSUME BoundAssumption == Bound \in [Kinds -> Nat] /\ Total \in Nat

VARIABLES
    loop,     \* loop[n]: n's run loop runs, was cancelled, or raised UUIDCollisionError
    flag,     \* nodes whose _running is TRUE
    gone,     \* nodes that broadcast a port-0 beacon
    exit,     \* exit[n]: exit code of n's program, 0 or 3, or None
    api,      \* api[s]: _api_queue of a sender
    dealer,   \* dealer[s]: its connection to Receiver: none, open, cut off
    pipe,     \* pipe[s]: frames in that DEALER
    inbox,    \* inbox[s]: frames of s in Receiver's ROUTER
    ready,    \* senders that are ready peers of Receiver
    events,   \* _event_queue of Receiver; a HELLO stands for ENTER
    file,     \* chunks in the file that Receiver's program has open, or None
    results,  \* files that it reported complete: <<sender, chunks>>
    asked,    \* senders that executed send_file
    dropped,  \* history: Receiver's event queue was full once
    spent     \* spent[k]: environment steps of kind k so far

net == <<dealer, pipe, inbox, ready>>
queue == <<events, dropped>>
disk == <<file, results>>
vars == <<loop, flag, gone, exit, api, dealer, pipe, inbox, ready, events, file, results,
          asked, dropped, spent>>

Start(s) == [type |-> "FILE_START", from |-> s, chunk |-> 0]
Chunk(s, i) == [type |-> "CHUNK", from |-> s, chunk |-> i]
End(s) == [type |-> "FILE_END", from |-> s, chunk |-> 0]
Hello(s) == [type |-> "HELLO", from |-> s, chunk |-> 0]
Collision == [type |-> "COLLISION", from |-> Receiver, chunk |-> 0]
Gone(s) == [type |-> "EXIT", from |-> s, chunk |-> 0]

\* What send_file whispers.
File(s) == [i \in 1..Chunks |-> Chunk(s, i)]
Whispers(s) == <<Start(s)>> \o File(s) \o <<End(s)>>

\* What a receiver that heard i chunks has in the file it opened.
Part(s, i) == [j \in 1..i |-> Chunk(s, j)]

ASSUME PartAssumption == \A s \in Sender : \A i \in 0..Chunks : None # Part(s, i)

Init ==
    /\ loop = [n \in Node |-> "running"]
    /\ flag = Node
    /\ gone = {}
    /\ exit = [n \in Node |-> None]
    /\ api = [s \in Sender |-> <<>>]
    /\ dealer = [s \in Sender |-> None]
    /\ pipe = [s \in Sender |-> <<>>]
    /\ inbox = [s \in Sender |-> <<>>]
    /\ ready = {}
    /\ events = <<>>
    /\ file = None
    /\ results = {}
    /\ asked = {}
    /\ dropped = FALSE
    /\ spent = [k \in Kinds |-> 0]

-----------------------------------------------------------------------------
(* Helpers *)

Charge(k) ==
    /\ spent[k] < Bound[k]
    /\ MapThenSumSet(LAMBDA x : spent[x], Kinds) < Total
    /\ spent' = [spent EXCEPT ![k] = @ + 1]

\* _emit: an event that finds the queue full is lost.
Emit(e) ==
    IF Len(events) < Room
    THEN events' = Append(events, e) /\ UNCHANGED dropped
    ELSE dropped' = TRUE /\ UNCHANGED events

\* The run loop of n handles something of a socket: it did all commands first.
Polls(n) ==
    /\ loop[n] = "running"
    /\ n \in Sender => api[n] = <<>>

\* disconnect: LINGER is 0, what is in the DEALER is lost.
Close(s, how) ==
    /\ dealer' = [dealer EXCEPT ![s] = how]
    /\ pipe' = [pipe EXCEPT ![s] = <<>>]

\* exit_on_uuid_collision.
CollisionCode == "3"

\* What the three modes of the program end with: the run task is cancelled and
\* awaited; if it raised, so does the program, else stop() broadcasts the
\* departure.
Teardown(n) ==
    IF loop[n] = "raised"
    THEN exit' = [exit EXCEPT ![n] = CollisionCode] /\ UNCHANGED <<loop, flag, gone>>
    ELSE /\ exit' = [exit EXCEPT ![n] = "0"]
         /\ loop' = [loop EXCEPT ![n] = "cancelled"]
         /\ flag' = flag \ {n}
         /\ gone' = gone \cup {n}

\* check_collision_event raises CollisionExit.
Collides(e) == e.type = "COLLISION"

-----------------------------------------------------------------------------
(* The sender *)

\* Mutant of Meet: HELLO is forgotten.
MeetUngreeted(s) ==
    /\ Polls(s)
    /\ Receiver \in flag
    /\ dealer[s] = None
    /\ dealer' = [dealer EXCEPT ![s] = "open"]
    /\ UNCHANGED <<loop, flag, gone, exit, api, pipe, inbox, ready, queue, disk, asked, spent>>

\* A beacon of Receiver: it is dialled and greeted.
Meet(s) ==
    /\ Polls(s)
    /\ Receiver \in flag
    /\ dealer[s] = None
    /\ dealer' = [dealer EXCEPT ![s] = "open"]
    /\ pipe' = [pipe EXCEPT ![s] = <<Hello(s)>>]
    /\ UNCHANGED <<loop, flag, gone, exit, api, inbox, ready, queue, disk, asked, spent>>

\* send_file, once Receiver is in the table.  Its whispers wait for nothing:
\* the command queue has no limit.
SendFile(s) ==
    /\ exit[s] = None
    /\ s \notin asked
    /\ dealer[s] # None
    /\ asked' = asked \cup {s}
    /\ api' = [api EXCEPT ![s] = Whispers(s)]
    /\ UNCHANGED <<loop, flag, gone, exit, net, queue, disk, spent>>

\* Mutant of Execute: a full queue costs one message, not the connection.
ExecuteSkipping(s) ==
    /\ loop[s] = "running"
    /\ api[s] # <<>>
    /\ api' = [api EXCEPT ![s] = Tail(@)]
    /\ IF dealer[s] = "open" /\ Len(pipe[s]) < HWM
       THEN pipe' = [pipe EXCEPT ![s] = Append(@, Head(api[s]))]
       ELSE UNCHANGED pipe
    /\ UNCHANGED <<loop, flag, gone, exit, dealer, inbox, ready, queue, disk, asked, spent>>

\* The run loop takes a command.  A full queue ends the connection for good:
\* the entry stays in the table, and no beacon dials it again.
Execute(s) ==
    /\ loop[s] = "running"
    /\ api[s] # <<>>
    /\ api' = [api EXCEPT ![s] = Tail(@)]
    /\ \/ /\ dealer[s] = "open" /\ Len(pipe[s]) < HWM
          /\ pipe' = [pipe EXCEPT ![s] = Append(@, Head(api[s]))]
          /\ UNCHANGED dealer
       \/ /\ dealer[s] = "open" /\ Len(pipe[s]) = HWM
          /\ Close(s, "cut")
       \/ /\ dealer[s] # "open"
          /\ UNCHANGED <<dealer, pipe>>
    /\ UNCHANGED <<loop, flag, gone, exit, inbox, ready, queue, disk, asked, spent>>

\* libzmq moves a frame to the receiver's side.
Ship(s) ==
    /\ pipe[s] # <<>>
    /\ loop[Receiver] = "running"
    /\ Len(inbox[s]) < HWM
    /\ pipe' = [pipe EXCEPT ![s] = Tail(@)]
    /\ inbox' = [inbox EXCEPT ![s] = Append(@, Head(pipe[s]))]
    /\ UNCHANGED <<loop, flag, gone, exit, api, dealer, ready, queue, disk, asked, spent>>

\* The port-0 beacon of Receiver.
Forget(s) ==
    /\ Polls(s)
    /\ Receiver \in gone
    /\ dealer[s] # None
    /\ Close(s, None)
    /\ UNCHANGED <<loop, flag, gone, exit, api, inbox, ready, queue, disk, asked, spent>>

\* main_send ends: the file was sent, a second ago, or Receiver was never found.
FinishSend(s) ==
    /\ exit[s] = None
    /\ s \in asked \/ dealer[s] = None
    /\ loop[s] = "running" => api[s] = <<>>
    /\ Close(s, None)
    /\ Teardown(s)
    /\ UNCHANGED <<api, inbox, ready, queue, disk, asked, spent>>

-----------------------------------------------------------------------------
(* The receiver *)

\* HELLO makes the sender ready; what comes of one that is not ready is lost.
TakeFrame(s) ==
    /\ loop[Receiver] = "running"
    /\ inbox[s] # <<>>
    /\ inbox' = [inbox EXCEPT ![s] = Tail(@)]
    /\ LET m == Head(inbox[s])
       IN  /\ IF m.type = "HELLO" /\ s \notin ready
              THEN ready' = ready \cup {s} ELSE UNCHANGED ready
           /\ IF (m.type = "HELLO") # (s \in ready)
              THEN Emit(m) ELSE UNCHANGED queue
    /\ UNCHANGED <<loop, flag, gone, exit, api, dealer, pipe, disk, asked, spent>>

\* The port-0 beacon of a sender, or its expiry.  What it sent before may still
\* be waiting.
Exit(s) ==
    /\ loop[Receiver] = "running"
    /\ s \in gone \cap ready
    /\ ready' = ready \ {s}
    /\ Emit(Gone(s))
    /\ UNCHANGED <<loop, flag, gone, exit, api, dealer, pipe, inbox, disk, asked, spent>>

\* receive_loop takes an event.  There is one open file, whoever sends.
Read ==
    /\ exit[Receiver] = None
    /\ events # <<>>
    /\ events' = Tail(events)
    /\ LET e == Head(events)
       IN  /\ CASE e.type = "FILE_START" -> file' = <<>> /\ UNCHANGED results
                [] e.type = "CHUNK" /\ file # None ->
                     file' = Append(file, e) /\ UNCHANGED results
                [] e.type = "FILE_END" /\ file # None ->
                     /\ file' = None
                     /\ results' = results \cup {<<e.from, file>>}
                [] OTHER -> UNCHANGED disk
           /\ exit' = IF Collides(e) THEN [exit EXCEPT ![Receiver] = CollisionCode] ELSE exit
    /\ UNCHANGED <<loop, flag, gone, api, net, asked, dropped, spent>>

\* events() ends when the node does not run and the queue is empty; the run task
\* is awaited and raises.
EndOfEvents ==
    /\ exit[Receiver] = None
    /\ Receiver \notin flag
    /\ events = <<>>
    /\ exit' = [exit EXCEPT ![Receiver] = CollisionCode]
    /\ UNCHANGED <<loop, flag, gone, api, net, queue, disk, asked, spent>>

\* Ctrl-C.
Quit ==
    /\ exit[Receiver] = None
    /\ Charge("quit")
    /\ inbox' = [s \in Sender |-> <<>>]
    /\ ready' = {}
    /\ Teardown(Receiver)
    /\ UNCHANGED <<api, dealer, pipe, queue, disk, asked>>

-----------------------------------------------------------------------------
(* Both *)

\* Mutant of Collide: _running is not reset.
CollideStill(n) ==
    /\ Polls(n)
    /\ Charge("collide")
    /\ loop' = [loop EXCEPT ![n] = "raised"]
    /\ IF n = Receiver
       THEN /\ inbox' = [s \in Sender |-> <<>>]
            /\ ready' = {}
            /\ Emit(Collision)
            /\ UNCHANGED <<dealer, pipe>>
       ELSE Close(n, None) /\ UNCHANGED <<inbox, ready, queue>>
    /\ UNCHANGED <<flag, gone, exit, api, disk, asked>>

\* n meets another node with its uuid: its run loop raises, COLLISION is emitted,
\* peers and sockets are closed, no departure is broadcast.
Collide(n) ==
    /\ Polls(n)
    /\ Charge("collide")
    /\ loop' = [loop EXCEPT ![n] = "raised"]
    /\ flag' = flag \ {n}
    /\ IF n = Receiver
       THEN /\ inbox' = [s \in Sender |-> <<>>]
            /\ ready' = {}
            /\ Emit(Collision)
            /\ UNCHANGED <<dealer, pipe>>
       ELSE Close(n, None) /\ UNCHANGED <<inbox, ready, queue>>
    /\ UNCHANGED <<gone, exit, api, disk, asked>>

-----------------------------------------------------------------------------

Next ==
    \/ \E s \in Sender : \/ Meet(s) \/ SendFile(s) \/ Execute(s) \/ Ship(s) \/ Forget(s)
                         \/ FinishSend(s) \/ TakeFrame(s) \/ Exit(s)
    \/ Read \/ EndOfEvents \/ Quit
    \/ \E n \in Node : Collide(n)

Spec == Init /\ [][Next]_vars

Fairness ==
    /\ \A s \in Sender : WF_vars(Execute(s)) /\ WF_vars(Ship(s)) /\ WF_vars(TakeFrame(s))
                           /\ WF_vars(loop[s] = "raised" /\ FinishSend(s))
    /\ WF_vars(Read) /\ WF_vars(EndOfEvents)

LiveSpec == Spec /\ Fairness

-----------------------------------------------------------------------------
(* Properties *)

\* A file reported complete is the file that was sent, and one that is being
\* written is the beginning of it, if one sender sends and the event queue never
\* was full: whatever is lost, by a full DEALER (send_encoded), a departure that
\* overtakes frames or a collision, is lost at the end.
Whole ==
    \A s \in Sender : asked = {s} /\ ~dropped =>
        /\ \A r \in results : r = <<s, File(s)>>
        /\ file # None => IsPrefix(file, File(s))

\* The file arrives, unless the connection was closed before (a full DEALER, the
\* end of the sender, a collision), an event was lost, the receiver ended or
\* another sender wrote to the same file: the HELLO of _handle_beacon is ahead of
\* the whispers, which send_file did not hold back until the peer was ready.
Delivered ==
    \A s \in Sender : s \in asked ~>
        \/ \E r \in results : r[1] = s
        \/ dealer[s] # "open" \/ dropped
        \/ loop[Receiver] # "running" \/ asked # {s}

\* A program whose node met its own uuid ends, with exit code 3, also when there
\* was no room for COLLISION in the event queue (run, events).
Reported == \A n \in Node : loop[n] = "raised" ~> exit[n] = "3"
-----------------------------------------------------------------------------
(* Why Whole holds *)

\* What a sender has on its way is numbered from its HELLO to the end of its file.
Number(m) ==
    CASE m.type = "HELLO" -> 0
      [] m.type = "FILE_START" -> 1
      [] m.type = "CHUNK" -> m.chunk + 1
      [] OTHER -> Chunks + 2

Whispered(m) == m.type \in {"FILE_START", "CHUNK", "FILE_END"}
Words(s) == {Start(s), End(s)} \cup {Chunk(s, i) : i \in 1..Chunks}

Message ==
    [type : {"HELLO", "FILE_START", "CHUNK", "FILE_END", "EXIT", "COLLISION"},
     from : Node, chunk : 0..Chunks]

QueueTypes ==
    /\ loop \in [Node -> {"running", "cancelled", "raised"}]
    /\ \A n \in Node : loop[n] = "running" <=> n \in flag
    /\ gone \cap flag = {}
    /\ dealer \in [Sender -> {None, "open", "cut"}]
    /\ api \in [Sender -> Seq(Message)]
    /\ pipe \in [Sender -> Seq(Message)] /\ inbox \in [Sender -> Seq(Message)]
    /\ events \in Seq(Message)
    /\ ready \subseteq Sender /\ asked \subseteq Sender
    /\ loop[Receiver] = "running" \/ ready = {}

\* What s may still have to say to Receiver.  A closed connection is not opened
\* again, so its commands say nothing.
Line(s) == inbox[s] \o pipe[s] \o IF dealer[s] = "open" THEN api[s] ELSE <<>>

\* q is a part of the HELLO of s and its whispers, without a hole.
Seamless(q, s) ==
    /\ \A i \in 1..Len(q) : q[i] \in Words(s) \cup {Hello(s)}
    /\ \A i \in 1..Len(q) - 1 : Number(q[i + 1]) = Number(q[i]) + 1

\* HELLO is ahead of all else and makes s ready; a sender that could still greet has
\* said nothing.
Greeting(s) ==
    /\ s \notin asked => api[s] = <<>> /\ \A i \in 1..Len(Line(s)) : Line(s)[i] = Hello(s)
    /\ s \in ready /\ Line(s) # <<>> => Line(s)[1] # Hello(s)
    /\ dealer[s] = None /\ loop[s] = "running" /\ loop[Receiver] = "running" =>
          Line(s) = <<>> /\ s \notin asked \cup ready

\* The program has read the whispers of s before number r.
Progress(s, r) ==
    \/ r = 1 /\ file = None /\ results = {}
    \/ r \in 2..Chunks + 2 /\ file = Part(s, r - 2) /\ results = {}
    \/ r = Chunks + 3 /\ file = None /\ results = {<<s, File(s)>>}

\* Its queue q has those from r to t - 1, in order, among the events of others.
Waiting(q, s, r, t) ==
    /\ \A i \in 1..Len(q) : Whispered(q[i]) =>
          q[i] \in Words(s) /\ Number(q[i]) \in r..t - 1
    /\ \A i, j \in 1..Len(q) :
          Whispered(q[i]) /\ Whispered(q[j]) /\ i < j => Number(q[i]) < Number(q[j])
    /\ \A k \in r..t - 1 : \E i \in 1..Len(q) : Whispered(q[i]) /\ Number(q[i]) = k

\* And what Receiver hears next from s goes on at t.
Resumes(s, t) ==
    /\ Line(s) # <<>> /\ s \in ready => Number(Line(s)[1]) = t
    /\ Line(s) # <<>> /\ Line(s)[1] = Hello(s) => t = 1
    /\ asked = {} => t = 1

Sequel ==
    \A s \in Sender : asked \subseteq {s} /\ ~dropped =>
        \E r, t \in 1..Chunks + 3 :
            r <= t /\ Progress(s, r) /\ Waiting(events, s, r, t) /\ Resumes(s, t)

Carried == \A s \in Sender : Seamless(Line(s), s) /\ Greeting(s)
=============================================================================
