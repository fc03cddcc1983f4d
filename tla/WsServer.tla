------------------------------ MODULE WsServer ------------------------------
(***************************************************************************)
(* The WebSocket server of gpservice: WsServerContext with its list of     *)
(* connections, the handle_socket task of every client with the send and   *)
(* the receive task it spawns, and the three tasks that broadcast: the     *)
(* watcher of the VPN state, the SIGUSR2 handler and POST /active-gui.     *)
(*                                                                         *)
(* A broadcast holds the read lock over the list while it awaits the       *)
(* bounded channel of one client after the other.  Joining and leaving     *)
(* need the write lock, and the lock is fair.  The VPN task, which writes  *)
(* the state and takes the requests, is module GpService.                  *)
(***************************************************************************)
EXTENDS Integers, Sequences, SequencesExt, FairRwLock

CONSTANTS
  MaxClients,  \* bound: WebSocket connections, numbered as they are accepted
  Capacity,    \* of a client's channel (32), and the message being written
  MaxChanges,  \* bound: writes to the watch channel
  Watcher,     \* watch_vpn_state
  Notifier,    \* the other tasks that broadcast: on SIGUSR2, on POST /active-gui
  MaxEvents,   \* bound: broadcasts of each of them
  Other        \* a message that is no state: ActiveGui, ResumeConnection, Close

ASSUME WsAssumption ==
  /\ Capacity \in Nat \ {0} /\ {MaxClients, MaxChanges, MaxEvents} \subseteq Nat
  /\ Other \notin Int /\ Watcher \notin Int /\ Notifier \cap (Int \cup {Watcher}) = {}

Client == 1 .. MaxClients
Caster == Notifier \cup {Watcher}
Version == 0 .. MaxChanges
Nothing == -1

VARIABLES
  version,   \* how often the VPN state was written
  seen,      \* the version the watcher's changed() returned for last
  conns,     \* connections, in the order they joined
  lock,      \* the queue of its lock
  cast,      \* [Caster -> where its send_event is, the message, its next index]
  events,    \* [Notifier -> broadcasts begun]
  conn,      \* [Client -> where its handle_socket is]
  sender,    \* [Client -> its send task]
  receiver,  \* [Client -> its receive task]
  queue,     \* [Client -> its channel, and the message in the send task's hand]
  open,      \* the clients that still have their socket
  got        \* [Client -> the last state it was sent, or Nothing]

watchVars == <<version, seen>>
listVars == <<conns, lock>>
castVars == <<cast, events>>
taskVars == <<sender, receiver>>
vars == <<watchVars, listVars, castVars, conn, taskVars, queue, open, got>>

Resting == [pc |-> "rest", msg |-> Other, next |-> 1]

Init ==
  /\ version = 0 /\ seen = 0
  /\ conns = <<>> /\ lock = <<>>
  /\ cast = [k \in Caster |-> Resting]
  /\ events = [k \in Notifier |-> 0]
  /\ conn = [c \in Client |-> "off"]
  /\ sender = [c \in Client |-> "none"]
  /\ receiver = [c \in Client |-> "none"]
  /\ queue = [c \in Client |-> <<>>]
  /\ open = {}
  /\ got = [c \in Client |-> Nothing]

-----------------------------------------------------------------------------
(* The channel of a client                                                 *)

\* Its Receiver lives in the send task.
ReceiverDropped(c) == sender[c] = "done"

\* Its Sender is held by handle_socket, the receive task and the list.
SenderDropped(c) ==
  conn[c] = "gone" /\ receiver[c] = "done" /\ ~Contains(conns, c)

\* tx.send(msg).await can return; with the Receiver gone it fails.
CanSend(c) == ReceiverDropped(c) \/ Len(queue[c]) < Capacity

\* Faulty variant: the message overtakes those that wait.
SentFirst(c, msg) ==
  IF ReceiverDropped(c) THEN queue ELSE [queue EXCEPT ![c] = <<msg>> \o @]

Sent(c, msg) ==
  IF ReceiverDropped(c) THEN queue ELSE [queue EXCEPT ![c] = Append(@, msg)]

-----------------------------------------------------------------------------
(* The VPN task                                                            *)

Change ==
  /\ version < MaxChanges
  /\ version' = version + 1
  /\ UNCHANGED <<seen, listVars, castVars, conn, taskVars, queue, open, got>>

-----------------------------------------------------------------------------
(* Broadcasts                                                              *)

\* changed() returns at once when the version is not the one seen; the value
\* is borrowed (if it is newer by then, it is sent once more after this) and
\* send_event asks for the lock.
Changed ==
  /\ seen # version /\ cast[Watcher].pc = "rest"
  /\ seen' = version
  /\ cast' = [cast EXCEPT ![Watcher] = [pc |-> "send", msg |-> version, next |-> 1]]
  /\ lock' = Asked(lock, Reader(Watcher))
  /\ UNCHANGED <<version, conns, events, conn, taskVars, queue, open, got>>

\* The SIGUSR2 handler and every POST /active-gui call send_event.
Notify(k) ==
  /\ cast[k].pc = "rest" /\ events[k] < MaxEvents
  /\ events' = [events EXCEPT ![k] = @ + 1]
  /\ cast' = [cast EXCEPT ![k].pc = "send"]
  /\ lock' = Asked(lock, Reader(k))
  /\ UNCHANGED <<watchVars, conns, conn, taskVars, queue, open, got>>

Holds(k) == cast[k].pc = "send" /\ Granted(lock, k)

\* Faulty variant: try_send, which gives up when the channel is full.
TryNext(k) ==
  /\ Holds(k) /\ cast[k].next <= Len(conns)
  /\ LET c == conns[cast[k].next] IN
       queue' = IF CanSend(c) THEN Sent(c, cast[k].msg) ELSE queue
  /\ cast' = [cast EXCEPT ![k].next = @ + 1]
  /\ UNCHANGED <<watchVars, listVars, events, conn, taskVars, open, got>>

\* The next connection of the list; its error is ignored.
SendNext(k) ==
  /\ Holds(k) /\ cast[k].next <= Len(conns)
  /\ LET c == conns[cast[k].next] IN
       /\ CanSend(c)
       /\ queue' = Sent(c, cast[k].msg)
  /\ cast' = [cast EXCEPT ![k].next = @ + 1]
  /\ UNCHANGED <<watchVars, listVars, events, conn, taskVars, open, got>>

Finish(k) ==
  /\ Holds(k) /\ cast[k].next > Len(conns)
  /\ cast' = [cast EXCEPT ![k] = Resting]
  /\ lock' = Left(lock, k)
  /\ UNCHANGED <<watchVars, conns, events, conn, taskVars, queue, open, got>>

-----------------------------------------------------------------------------
(* handle_socket                                                           *)

\* The snapshot of the state goes into the connection's own, empty channel.
Greeting(c) == [queue EXCEPT ![c] = Append(@, version)]

\* The upgrade, our ping and the client's first message went well:
\* add_connection greets the client; then it asks for the write lock.
Accept(c) ==
  /\ conn[c] = "off" /\ \A d \in 1 .. c - 1 : conn[d] # "off"
  /\ conn' = [conn EXCEPT ![c] = "greeted"]
  /\ open' = open \cup {c}
  /\ queue' = Greeting(c)
  /\ UNCHANGED <<watchVars, listVars, castVars, taskVars, got>>

AskToJoin(c) ==
  /\ conn[c] = "greeted"
  /\ conn' = [conn EXCEPT ![c] = "push"]
  /\ lock' = Asked(lock, Writer(c))
  /\ UNCHANGED <<watchVars, conns, castVars, taskVars, queue, open, got>>

Push(c) ==
  /\ conn[c] = "push" /\ Granted(lock, c)
  /\ conns' = Append(conns, c)
  /\ lock' = Left(lock, c)
  /\ conn' = [conn EXCEPT ![c] = "up"]
  /\ sender' = [sender EXCEPT ![c] = "recv"]
  /\ receiver' = [receiver EXCEPT ![c] = "recv"]
  /\ UNCHANGED <<watchVars, castVars, queue, open, got>>

\* The select over the two tasks ends; the other task is detached.
Disconnected(c) ==
  /\ conn[c] = "up" /\ "done" \in {sender[c], receiver[c]}
  /\ conn' = [conn EXCEPT ![c] = "remove"]
  /\ lock' = Asked(lock, Writer(c))
  /\ UNCHANGED <<watchVars, conns, castVars, taskVars, queue, open, got>>

RemoveConnection(c) ==
  /\ conn[c] = "remove" /\ Granted(lock, c)
  /\ conns' = RemoveAt(conns, CHOOSE i \in DOMAIN conns : conns[i] = c)
  /\ lock' = Left(lock, c)
  /\ conn' = [conn EXCEPT ![c] = "gone"]
  /\ UNCHANGED <<watchVars, castVars, taskVars, queue, open, got>>

-----------------------------------------------------------------------------
(* The send task                                                           *)

\* The client reads, which ends sender.send() of the oldest message.
Read(c) ==
  /\ c \in open /\ sender[c] = "recv" /\ queue[c] # <<>>
  /\ queue' = [queue EXCEPT ![c] = Tail(@)]
  /\ got' = [got EXCEPT ![c] = IF Head(queue[c]) = Other THEN @ ELSE Head(queue[c])]
  /\ UNCHANGED <<watchVars, listVars, castVars, conn, taskVars, open>>

\* Faulty variant: the error is logged and the send task goes on.
SendIgnored(c) ==
  /\ c \notin open /\ sender[c] = "recv" /\ queue[c] # <<>>
  /\ UNCHANGED vars

\* sender.send() fails, and so does the Close frame.
SendFails(c) ==
  /\ c \notin open /\ sender[c] = "recv" /\ queue[c] # <<>>
  /\ sender' = [sender EXCEPT ![c] = "done"]
  /\ queue' = [queue EXCEPT ![c] = <<>>]
  /\ UNCHANGED <<watchVars, listVars, castVars, conn, receiver, open, got>>

\* recv() of the closed and empty channel returns, and the Close frame is
\* written, if the client reads it.
SayGoodbye(c) ==
  /\ sender[c] = "recv" /\ queue[c] = <<>> /\ SenderDropped(c)
  /\ sender' = [sender EXCEPT ![c] = "done"]
  /\ UNCHANGED <<watchVars, listVars, castVars, conn, receiver, queue, open, got>>

-----------------------------------------------------------------------------
(* The receive task                                                        *)

\* receiver.next() yields nothing, an error, a Close frame or a message that
\* does not decrypt.
Breaks(c) == c \notin open

\* All of which end the loop.  A request has no effect here: forward_req
\* passes it to the VPN task, whose recv() spawns a task for it.
RecvEnds(c) ==
  /\ Breaks(c) /\ receiver[c] = "recv"
  /\ receiver' = [receiver EXCEPT ![c] = "done"]
  /\ UNCHANGED <<watchVars, listVars, castVars, conn, sender, queue, open, got>>

\* The client closes its socket, or says something that makes the server end
\* the connection, and reads no more.
Leave(c) ==
  /\ c \in open /\ open' = open \ {c}
  /\ got' = [got EXCEPT ![c] = Nothing]
  /\ UNCHANGED <<watchVars, listVars, castVars, conn, taskVars, queue>>

-----------------------------------------------------------------------------
Broadcast(k) == SendNext(k) \/ Finish(k)
Handler(c) == AskToJoin(c) \/ Push(c) \/ Disconnected(c) \/ RemoveConnection(c)
SendTask(c) == SayGoodbye(c) \/ SendFails(c)

Next ==
  \/ Change \/ Changed
  \/ \E k \in Notifier : Notify(k)
  \/ \E k \in Caster : Broadcast(k)
  \/ \E c \in Client :
       \/ Accept(c) \/ Handler(c) \/ SendTask(c) \/ RecvEnds(c)
       \/ Read(c) \/ Leave(c)

Spec == Init /\ [][Next]_vars

\* The runtime polls every task that can go on.  Of a client it is assumed that
\* it does not leave a message unread for ever with its socket open; it need
\* never leave, and the VPN need never change.
Attends(c) == Read(c) \/ (queue[c] # <<>> /\ Leave(c))

FairSpec ==
  /\ Spec
  /\ WF_vars(Changed)
  /\ \A k \in Caster : WF_vars(Broadcast(k))
  /\ \A c \in Client :
       /\ WF_vars(Handler(c)) /\ WF_vars(SendTask(c)) /\ WF_vars(RecvEnds(c))
       /\ WF_vars(Attends(c))

-----------------------------------------------------------------------------
Message == Version \cup {Other}
Casting == [pc : {"rest", "send"}, msg : Message, next : Nat \ {0}]
Entry == [who : Caster \cup Client, mode : {"read", "write"}]
TaskState == {"none", "recv", "done"}

\* The types of the variables; no channel exceeds its capacity.
TypeOK ==
  /\ version \in Version /\ seen \in Version
  /\ conns \in Seq(Client) /\ lock \in Seq(Entry)
  /\ cast \in [Caster -> Casting]
  /\ events \in [Notifier -> 0 .. MaxEvents]
  /\ conn \in [Client -> {"off", "greeted", "push", "up", "remove", "gone"}]
  /\ sender \in [Client -> TaskState] /\ receiver \in [Client -> TaskState]
  /\ queue \in [Client -> Seq(Message)]
  /\ \A c \in Client : Len(queue[c]) <= Capacity
  /\ open \subseteq Client
  /\ got \in [Client -> Version \cup {Nothing}]

\* No client is shown the VPN state go backwards: the snapshot of
\* add_connection comes before every broadcast of a later state, and the
\* broadcasts of the watcher come in order.
NeverBackwards ==
  [][\A c \in open' : got'[c] >= got[c]]_vars

\* A client that is in the list when the state changes is shown the state in
\* the end, unless its connection ends: a change may be merged
\* with a later one (watch_vpn_state), never lost, whatever other clients do.
ListedCatchesUp ==
  \A c \in Client :
    (Contains(conns, c) /\ seen # version)
      ~> (got[c] = version \/ conn[c] # "up")

\* A client whose socket is gone does not stay in the list, however full its
\* channel is and whoever waits for it there with the lock in hand.
LeaversAreRemoved ==
  \A c \in Client : (conn[c] = "up" /\ c \notin open) ~> (conn[c] = "gone")

\* What add_connection is there for (its comment, "Send current VPN state to
\* new client"): a client that stays is shown the current state in the end.
NewClientIsCurrent ==
  \A c \in Client :
    (conn[c] = "up") ~> (got[c] = version \/ conn[c] # "up")
=============================================================================
