-------------------------- MODULE WsServer_proofs --------------------------
(***************************************************************************)
(* Proofs about the WebSocket server: WsServer for any number of clients,  *)
(* broadcasting tasks and changes of the state, and any capacity of the    *)
(* channels; and ServiceLifecycle, the services that such a server is a    *)
(* part of, for any number of them.                                        *)
(***************************************************************************)
EXTENDS WsServer, ServiceLifecycle, SequenceTheorems, TLAPS

LEMMA Constants ==
  /\ Capacity \in Nat \ {0} /\ MaxClients \in Nat /\ MaxChanges \in Nat
  /\ MaxEvents \in Nat
  /\ Other \notin Int /\ Watcher \notin Int /\ Notifier \cap (Int \cup {Watcher}) = {}
  BY WsAssumption DEF WsAssumption

-----------------------------------------------------------------------------
(* The invariant                                                           *)

\* Nothing a client was sent, or has waiting, is a later state than v.
Below(g, q, v) ==
  /\ g <= v
  /\ \A i \in DOMAIN q : q[i] # Other => q[i] <= v

\* What waits for a client is in order, and comes after what it was sent.
Ordered(g, q) ==
  \A i \in DOMAIN q :
    q[i] # Other =>
      /\ g <= q[i]
      /\ \A j \in DOMAIN q : i < j /\ q[j] # Other => q[i] <= q[j]

OrderInv ==
  \A c \in Client : Below(got[c], queue[c], version) /\ Ordered(got[c], queue[c])

InLock(p) == \E i \in DOMAIN lock : lock[i].who = p

\* Clients only write to the list, and ask for that after they were greeted.
LockInv ==
  /\ cast[Watcher].pc = "send" => InLock(Watcher)
  /\ \A i \in DOMAIN lock :
       lock[i].who \in Client =>
         lock[i].mode = "write" /\ conn[lock[i].who] \notin {"off", "greeted"}

Listed(c) == \E i \in DOMAIN conns : conns[i] = c

\* Who is listed has joined, who has joined and not left is listed, and nobody
\* is sent anything before the snapshot.
ListInv ==
  /\ \A c \in Client : Listed(c) => conn[c] \notin {"off", "greeted", "push"}
  /\ \A c \in Client : conn[c] \in {"up", "remove"} => Listed(c)
  /\ \A c \in Client : conn[c] = "off" => queue[c] = <<>>

\* c asked for the lock before the watcher did.
Ahead(c) ==
  \E i, j \in DOMAIN lock : i < j /\ lock[i].who = c /\ lock[j].who = Watcher

\* Whoever the watcher's broadcast may reach was sent nothing later than it:
\* clients that are greeted with a later state join after it.
CastInv ==
  /\ \A k \in Notifier : cast[k].msg = Other
  /\ cast[Watcher].pc = "send" =>
       /\ cast[Watcher].msg \in 0 .. version
       /\ \A c \in Client :
            Listed(c) \/ Ahead(c) => Below(got[c], queue[c], cast[Watcher].msg)

Inv == TypeOK /\ LockInv /\ ListInv /\ OrderInv /\ CastInv

-----------------------------------------------------------------------------
(* Sequences                                                               *)

LEMMA RemoveAtFacts ==
  ASSUME NEW S, NEW s \in Seq(S), NEW n \in DOMAIN s
  PROVE  /\ RemoveAt(s, n) \in Seq(S) /\ Len(RemoveAt(s, n)) = Len(s) - 1
         /\ \A i \in 1 .. Len(s) - 1 :
              RemoveAt(s, n)[i] = IF i < n THEN s[i] ELSE s[i + 1]
<1> DEFINE a == SubSeq(s, 1, n - 1)  b == SubSeq(s, n + 1, Len(s))
<1>1. n \in 1 .. Len(s) /\ Len(s) \in Nat
  OBVIOUS
<1>2. a \in Seq(S) /\ Len(a) = n - 1 /\ \A i \in 1 .. n - 1 : a[i] = s[i]
  BY <1>1, SubSeqProperties
<1>3. b \in Seq(S) /\ Len(b) = Len(s) - n /\ \A i \in 1 .. Len(s) - n : b[i] = s[n + i]
  BY <1>1, SubSeqProperties
<1>4. /\ a \o b \in Seq(S) /\ Len(a \o b) = Len(s) - 1
      /\ \A i \in 1 .. Len(s) - 1 : (a \o b)[i] = IF i < n THEN s[i] ELSE s[i + 1]
  <2> HIDE DEF a, b
  <2>1. a \o b \in Seq(S) /\ Len(a \o b) = Len(a) + Len(b)
    BY <1>2, <1>3, ConcatProperties
  <2>2. \A i \in 1 .. Len(a) + Len(b) :
          (a \o b)[i] = IF i <= Len(a) THEN a[i] ELSE b[i - Len(a)]
    BY <1>2, <1>3, ConcatProperties
  <2>3. Len(a) + Len(b) = Len(s) - 1
    BY <1>1, <1>2, <1>3
  <2>4. ASSUME NEW i \in 1 .. Len(s) - 1
        PROVE  (a \o b)[i] = IF i < n THEN s[i] ELSE s[i + 1]
    <3>1. (a \o b)[i] = IF i <= Len(a) THEN a[i] ELSE b[i - Len(a)]
      BY <2>2, <2>3
    <3>2. CASE i < n
      <4>1. i <= Len(a) /\ i \in 1 .. n - 1
        BY <1>1, <1>2, <3>2
      <4>2. QED BY <1>2, <3>1, <3>2, <4>1
    <3>3. CASE ~(i < n)
      <4>1. ~(i <= Len(a)) /\ i - Len(a) \in 1 .. Len(s) - n /\ n + (i - Len(a)) = i + 1
        BY <1>1, <1>2, <3>3
      <4>2. b[i - Len(a)] = s[n + (i - Len(a))]
        BY <1>3, <4>1
      <4>3. QED BY <3>1, <3>3, <4>1, <4>2
    <3>4. QED BY <3>2, <3>3
  <2>5. QED BY <2>1, <2>3, <2>4
<1>5. QED BY <1>4 DEF RemoveAt

\* Every place that is left was a place before, in the same order.
LEMMA PlacesBefore ==
  ASSUME NEW S, NEW s \in Seq(S), NEW n \in DOMAIN s,
         NEW i \in DOMAIN RemoveAt(s, n)
  PROVE  \E k \in DOMAIN s :
           /\ RemoveAt(s, n)[i] = s[k]
           /\ \A j \in DOMAIN RemoveAt(s, n) :
                i < j => \E l \in DOMAIN s : k < l /\ RemoveAt(s, n)[j] = s[l]
<1>1. /\ DOMAIN s = 1 .. Len(s) /\ Len(s) \in Nat /\ n \in 1 .. Len(s)
      /\ DOMAIN RemoveAt(s, n) = 1 .. Len(s) - 1
  BY RemoveAtFacts
<1> DEFINE before(j) == IF j < n THEN j ELSE j + 1
<1>2. \A j \in 1 .. Len(s) - 1 :
        before(j) \in 1 .. Len(s) /\ RemoveAt(s, n)[j] = s[before(j)]
  <2> TAKE j \in 1 .. Len(s) - 1
  <2>1. RemoveAt(s, n)[j] = IF j < n THEN s[j] ELSE s[j + 1]
    BY RemoveAtFacts
  <2>2. CASE j < n
    BY <1>1, <2>1, <2>2
  <2>3. CASE ~(j < n)
    BY <1>1, <2>1, <2>3
  <2>4. QED BY <2>2, <2>3
<1>3. \A j \in 1 .. Len(s) - 1 : i < j => before(i) < before(j)
  BY <1>1
<1> HIDE DEF before
<1>4. QED BY <1>1, <1>2, <1>3

\* Every other place is still there.
LEMMA PlacesAfter ==
  ASSUME NEW S, NEW s \in Seq(S), NEW n \in DOMAIN s, NEW j \in DOMAIN s, j # n
  PROVE  \E i \in DOMAIN RemoveAt(s, n) : RemoveAt(s, n)[i] = s[j]
<1>1. /\ DOMAIN s = 1 .. Len(s) /\ Len(s) \in Nat /\ n \in 1 .. Len(s)
      /\ DOMAIN RemoveAt(s, n) = 1 .. Len(s) - 1 /\ j \in 1 .. Len(s)
  BY RemoveAtFacts
<1>2. CASE j < n
  <2>1. j \in 1 .. Len(s) - 1
    BY <1>1, <1>2
  <2>2. QED BY <1>1, <1>2, <2>1, RemoveAtFacts
<1>3. CASE j > n
  <2>1. j - 1 \in 1 .. Len(s) - 1 /\ ~(j - 1 < n) /\ (j - 1) + 1 = j
    BY <1>1, <1>3
  <2>2. RemoveAt(s, n)[j - 1] = s[(j - 1) + 1]
    BY <2>1, RemoveAtFacts
  <2>3. QED BY <1>1, <2>1, <2>2
<1>4. QED BY <1>1, <1>2, <1>3

LEMMA AppendFacts ==
  ASSUME NEW S, NEW s \in Seq(S), NEW e \in S
  PROVE  /\ Append(s, e) \in Seq(S) /\ Len(Append(s, e)) = Len(s) + 1
         /\ DOMAIN s = 1 .. Len(s) /\ DOMAIN Append(s, e) = 1 .. Len(s) + 1
         /\ Len(s) \in Nat /\ Append(s, e)[Len(s) + 1] = e
         /\ \A i \in 1 .. Len(s) : Append(s, e)[i] = s[i]
  OBVIOUS

-----------------------------------------------------------------------------
(* The lock                                                                *)

\* Who leaves is one place of the queue less; the others stay, in their order.
LEMMA LeftFacts ==
  ASSUME lock \in Seq(Entry), NEW p, InLock(p), lock' = Left(lock, p)
  PROVE  /\ lock' \in Seq(Entry)
         /\ \A i \in DOMAIN lock' : \E k \in DOMAIN lock :
              /\ lock'[i] = lock[k]
              /\ \A j \in DOMAIN lock' :
                   i < j => \E l \in DOMAIN lock : k < l /\ lock'[j] = lock[l]
         /\ \A q : q # p /\ InLock(q) => InLock(q)'
<1>0. lock' = RemoveAt(lock, Place(lock, p))
  BY DEF Left, Queued, InLock
<1>1. Place(lock, p) \in DOMAIN lock /\ lock[Place(lock, p)].who = p
  BY DEF Place, InLock
<1>2. lock' \in Seq(Entry)
  BY <1>0, <1>1, RemoveAtFacts
<1>3. ASSUME NEW q, q # p, InLock(q) PROVE InLock(q)'
  <2>1. PICK j \in DOMAIN lock : lock[j].who = q
    BY <1>3 DEF InLock
  <2>2. j # Place(lock, p)
    BY <1>1, <1>3, <2>1
  <2>3. QED BY <1>0, <1>1, <2>1, <2>2, PlacesAfter DEF InLock
<1>4. QED BY <1>0, <1>1, <1>2, <1>3, PlacesBefore

LEMMA AskedFacts ==
  ASSUME lock \in Seq(Entry), NEW e \in Entry, lock' = Asked(lock, e)
  PROVE  /\ lock' \in Seq(Entry) /\ InLock(e.who)'
         /\ DOMAIN lock = 1 .. Len(lock) /\ DOMAIN lock' = 1 .. Len(lock) + 1
         /\ Len(lock) \in Nat
         /\ lock'[Len(lock) + 1] = e /\ \A i \in 1 .. Len(lock) : lock'[i] = lock[i]
<1>1. lock' = Append(lock, e)
  BY DEF Asked
<1>2. Append(lock, e)[Len(lock) + 1].who = e.who /\ Len(lock) + 1 \in 1 .. Len(lock) + 1
  BY AppendFacts
<1>3. QED BY <1>1, <1>2, AppendFacts DEF InLock

LEMMA EntryType ==
  /\ \A k \in Caster : Reader(k) \in Entry /\ Reader(k).who = k
  /\ \A c \in Client : Writer(c) \in Entry /\ Writer(c).who = c /\ Writer(c).mode = "write"
  BY DEF Reader, Writer, Entry

LEMMA GrantedInLock == ASSUME NEW p, Granted(lock, p) PROVE InLock(p)
  BY DEF Granted, InLock

-----------------------------------------------------------------------------
(* Types                                                                   *)

LEMMA CastNext ==
  ASSUME TypeOK, NEW k \in Caster, cast' = [cast EXCEPT ![k].next = @ + 1]
  PROVE  /\ cast' \in [Caster -> Casting]
         /\ \A l \in Caster : cast'[l].pc = cast[l].pc /\ cast'[l].msg = cast[l].msg
<1> DEFINE w == [cast[k] EXCEPT !.next = cast[k].next + 1]
<1>1. w \in Casting /\ w.pc = cast[k].pc /\ w.msg = cast[k].msg
  <2>1. cast[k] \in Casting /\ cast[k].next + 1 \in Nat \ {0}
    BY DEF TypeOK, Casting
  <2>2. QED BY <2>1 DEF Casting
<1>2. cast' = [cast EXCEPT ![k] = w]
  OBVIOUS
<1> HIDE DEF w
<1>3. QED BY <1>1, <1>2 DEF TypeOK

LEMMA CastPc ==
  ASSUME TypeOK, NEW k \in Caster, cast' = [cast EXCEPT ![k].pc = "send"]
  PROVE  /\ cast' \in [Caster -> Casting]
         /\ \A l \in Caster : cast'[l].msg = cast[l].msg
         /\ \A l \in Caster \ {k} : cast'[l] = cast[l]
<1> DEFINE w == [cast[k] EXCEPT !.pc = "send"]
<1>1. w \in Casting /\ w.msg = cast[k].msg
  BY DEF TypeOK, Casting
<1>2. cast' = [cast EXCEPT ![k] = w]
  OBVIOUS
<1> HIDE DEF w
<1>3. QED BY <1>1, <1>2 DEF TypeOK

\* One message more in one channel.
LEMMA MessageSent ==
  ASSUME TypeOK, NEW c \in Client, NEW m \in Message, CanSend(c), queue' = Sent(c, m)
  PROVE  /\ queue' \in [Client -> Seq(Message)]
         /\ \A d \in Client : Len(queue'[d]) <= Capacity
         /\ \A d \in Client \ {c} : queue'[d] = queue[d]
         /\ queue'[c] \in {queue[c], Append(queue[c], m)}
<1>1. CASE ReceiverDropped(c)
  BY <1>1 DEF Sent, TypeOK
<1>2. CASE ~ReceiverDropped(c)
  <2>1. queue' = [queue EXCEPT ![c] = Append(queue[c], m)] /\ Len(queue[c]) < Capacity
    BY <1>2 DEF Sent, CanSend
  <2>2. Append(queue[c], m) \in Seq(Message) /\ Len(Append(queue[c], m)) <= Capacity
    BY <2>1, Constants, AppendFacts DEF TypeOK
  <2>3. QED BY <2>1, <2>2 DEF TypeOK
<1>3. QED BY <1>1, <1>2

LEMMA InitType == Init => TypeOK
<1> SUFFICES ASSUME Init PROVE TypeOK
  OBVIOUS
<1>1. version \in Version /\ seen \in Version /\ events \in [Notifier -> 0 .. MaxEvents]
  BY Constants DEF Init, Version
<1>2. conns \in Seq(Client) /\ lock \in Seq(Entry) /\ open \subseteq Client
  BY DEF Init
<1>3. cast \in [Caster -> Casting]
  BY DEF Init, Casting, Resting, Message
<1>4. queue \in [Client -> Seq(Message)] /\ \A c \in Client : Len(queue[c]) <= Capacity
  BY Constants DEF Init
<1>5. QED BY <1>1, <1>2, <1>3, <1>4 DEF Init, TypeOK, TaskState

\* The lock's queue, whoever asks or leaves.
LEMMA LockType ==
  ASSUME TypeOK,
         \/ UNCHANGED lock
         \/ \E e \in Entry : lock' = Asked(lock, e)
         \/ \E p : InLock(p) /\ lock' = Left(lock, p)
  PROVE  lock' \in Seq(Entry)
  BY AskedFacts, LeftFacts DEF TypeOK

LEMMA BroadcastType ==
  ASSUME TypeOK, Change \/ Changed \/ (\E k \in Notifier : Notify(k))
                 \/ (\E k \in Caster : Broadcast(k))
  PROVE  TypeOK'
<1> USE DEF watchVars, listVars, castVars, taskVars
<1>1. CASE Change
  <2>1. version' \in Version
    BY <1>1, Constants DEF Change, TypeOK, Version
  <2>2. QED BY <1>1, <2>1 DEF Change, TypeOK
<1>2. CASE Changed
  <2>1. Watcher \in Caster /\ Reader(Watcher) \in Entry
    BY EntryType DEF Caster
  <2>2. lock' \in Seq(Entry)
    BY <1>2, <2>1, LockType DEF Changed
  <2>3. [pc |-> "send", msg |-> version, next |-> 1] \in Casting
    BY DEF TypeOK, Casting, Message
  <2>4. cast' \in [Caster -> Casting]
    BY <1>2, <2>1, <2>3 DEF Changed, TypeOK
  <2>5. QED BY <1>2, <2>2, <2>4 DEF Changed, TypeOK
<1>3. CASE \E k \in Notifier : Notify(k)
  <2> PICK k \in Notifier : Notify(k)
    BY <1>3
  <2>1. k \in Caster /\ Reader(k) \in Entry
    BY EntryType DEF Caster
  <2>2. lock' \in Seq(Entry)
    BY <2>1, LockType DEF Notify
  <2>3. cast' \in [Caster -> Casting]
    BY <2>1, CastPc DEF Notify
  <2>4. events' \in [Notifier -> 0 .. MaxEvents]
    BY Constants DEF Notify, TypeOK
  <2>5. QED BY <2>2, <2>3, <2>4 DEF Notify, TypeOK
<1>4. CASE \E k \in Caster : Broadcast(k)
  <2> PICK k \in Caster : Broadcast(k)
    BY <1>4
  <2>1. CASE SendNext(k)
    <3>1. cast' \in [Caster -> Casting]
      BY <2>1, CastNext DEF SendNext
    <3>2. cast[k].msg \in Message /\ cast[k].next \in 1 .. Len(conns)
      BY <2>1 DEF SendNext, TypeOK, Casting
    <3>3. conns[cast[k].next] \in Client
      BY <3>2, ElementOfSeq DEF TypeOK
    <3>4. queue' \in [Client -> Seq(Message)] /\ \A d \in Client : Len(queue'[d]) <= Capacity
      BY <2>1, <3>2, <3>3, MessageSent DEF SendNext
    <3>5. QED BY <2>1, <3>1, <3>4 DEF SendNext, TypeOK
  <2>2. CASE Finish(k)
    <3>1. lock' \in Seq(Entry)
      BY <2>2, GrantedInLock, LockType DEF Finish, Holds
    <3>2. cast' \in [Caster -> Casting]
      BY <2>2 DEF Finish, TypeOK, Casting, Resting, Message
    <3>3. QED BY <2>2, <3>1, <3>2 DEF Finish, TypeOK
  <2>3. QED BY <2>1, <2>2 DEF Broadcast
<1>5. QED BY <1>1, <1>2, <1>3, <1>4

LEMMA HandlerType ==
  ASSUME TypeOK, ListInv, NEW c \in Client, Handler(c)
  PROVE  TypeOK'
<1> USE DEF watchVars, listVars, castVars, taskVars
<1>1. CASE AskToJoin(c)
  <2>1. lock' \in Seq(Entry)
    BY <1>1, EntryType, LockType DEF AskToJoin
  <2>2. QED BY <1>1, <2>1 DEF AskToJoin, TypeOK
<1>2. CASE Push(c)
  <2>1. lock' \in Seq(Entry)
    BY <1>2, GrantedInLock, LockType DEF Push
  <2>2. conns' \in Seq(Client)
    BY <1>2, AppendFacts DEF Push, TypeOK
  <2>3. QED BY <1>2, <2>1, <2>2 DEF Push, TypeOK, TaskState
<1>3. CASE Disconnected(c)
  <2>1. lock' \in Seq(Entry)
    BY <1>3, EntryType, LockType DEF Disconnected
  <2>2. QED BY <1>3, <2>1 DEF Disconnected, TypeOK
<1>4. CASE RemoveConnection(c)
  <2> PICK n \in DOMAIN conns : conns[n] = c
    BY <1>4 DEF RemoveConnection, ListInv, Listed
  <2>1. lock' \in Seq(Entry)
    BY <1>4, GrantedInLock, LockType DEF RemoveConnection
  <2>2. conns' \in Seq(Client)
    BY <1>4, RemoveAtFacts DEF RemoveConnection, TypeOK
  <2>3. QED BY <1>4, <2>1, <2>2 DEF RemoveConnection, TypeOK
<1>5. QED BY <1>1, <1>2, <1>3, <1>4 DEF Handler

LEMMA AcceptType ==
  ASSUME TypeOK, ListInv, NEW c \in Client, Accept(c)
  PROVE  /\ TypeOK'
         /\ queue' = [queue EXCEPT ![c] = <<version>>]
<1> USE DEF watchVars, listVars, castVars, taskVars
<1>1. queue[c] = <<>>
  BY DEF Accept, ListInv
<1>2. queue' = [queue EXCEPT ![c] = <<version>>]
  BY <1>1 DEF Accept, Greeting
<1>3. <<version>> \in Seq(Message) /\ Len(<<version>>) <= Capacity
  BY Constants DEF TypeOK, Message
<1>4. queue' \in [Client -> Seq(Message)] /\ \A d \in Client : Len(queue'[d]) <= Capacity
  BY <1>2, <1>3 DEF TypeOK
<1>5. QED BY <1>2, <1>4 DEF Accept, TypeOK

LEMMA ClientType ==
  ASSUME TypeOK, NEW c \in Client,
         SendTask(c) \/ RecvEnds(c) \/ Read(c) \/ Leave(c)
  PROVE  TypeOK'
<1> USE DEF watchVars, listVars, castVars, taskVars
<1>1. CASE SayGoodbye(c)
  BY <1>1 DEF SayGoodbye, TypeOK, TaskState
<1>2. CASE SendFails(c)
  <2>1. sender' \in [Client -> TaskState]
    BY <1>2 DEF SendFails, TypeOK, TaskState
  <2>2. queue' \in [Client -> Seq(Message)] /\ \A d \in Client : Len(queue'[d]) <= Capacity
    BY <1>2, Constants DEF SendFails, TypeOK
  <2>3. QED BY <1>2, <2>1, <2>2 DEF SendFails, TypeOK
<1>3. CASE RecvEnds(c)
  BY <1>3 DEF RecvEnds, TypeOK, TaskState
<1>4. CASE Read(c)
  <2>1. /\ Head(queue[c]) \in Message /\ Tail(queue[c]) \in Seq(Message)
        /\ Len(Tail(queue[c])) <= Len(queue[c])
    BY <1>4, HeadTailProperties DEF Read, TypeOK
  <2>2. queue' \in [Client -> Seq(Message)] /\ \A d \in Client : Len(queue'[d]) <= Capacity
    BY <1>4, <2>1, Constants DEF Read, TypeOK
  <2>3. got' \in [Client -> Version \cup {Nothing}]
    BY <1>4, <2>1 DEF Read, TypeOK, Message
  <2>4. QED BY <1>4, <2>2, <2>3 DEF Read, TypeOK
<1>5. CASE Leave(c)
  BY <1>5 DEF Leave, TypeOK
<1>6. QED BY <1>1, <1>2, <1>3, <1>4, <1>5 DEF SendTask

LEMMA StepType == TypeOK /\ ListInv /\ [Next]_vars => TypeOK'
<1> SUFFICES ASSUME TypeOK, ListInv, [Next]_vars PROVE TypeOK'
  OBVIOUS
<1>1. CASE UNCHANGED vars
  BY <1>1 DEF vars, watchVars, listVars, castVars, taskVars, TypeOK
<1>2. CASE Next
  BY <1>2, BroadcastType, HandlerType, AcceptType, ClientType DEF Next
<1>3. QED BY <1>1, <1>2

-----------------------------------------------------------------------------
(* The lock and the list                                                   *)

LEMMA Actors ==
  /\ Watcher \in Caster /\ Notifier \subseteq Caster /\ Watcher \notin Notifier
  /\ Caster \cap Client = {} /\ Client \subseteq Int
  BY Constants DEF Caster, Client

\* Nobody loses its place in the queue, and no client goes back to before it.
Onward ==
  \A c \in Client : conn[c] \notin {"off", "greeted"} => conn'[c] \notin {"off", "greeted"}

LEMMA SameLock ==
  ASSUME LockInv, lock' = lock, Onward,
         cast'[Watcher].pc = "send" => cast[Watcher].pc = "send"
  PROVE  LockInv'
  BY DEF LockInv, InLock, Onward

\* Somebody asks for the lock.
LEMMA AskedLock ==
  ASSUME TypeOK, LockInv, NEW e \in Entry, lock' = Asked(lock, e),
         cast'[Watcher].pc = "send" => cast[Watcher].pc = "send" \/ e.who = Watcher,
         Onward, e.who \in Client => e.mode = "write" /\ conn'[e.who] \notin {"off", "greeted"}
  PROVE  LockInv'
<1>1. /\ DOMAIN lock = 1 .. Len(lock) /\ DOMAIN lock' = 1 .. Len(lock) + 1
      /\ Len(lock) \in Nat /\ lock'[Len(lock) + 1] = e
      /\ \A i \in 1 .. Len(lock) : lock'[i] = lock[i]
      /\ InLock(e.who)'
  BY AskedFacts DEF TypeOK
<1>2. \A i \in DOMAIN lock' : lock'[i] = e \/ \E j \in DOMAIN lock : lock'[i] = lock[j]
  BY <1>1
<1>3. \A p : InLock(p) => InLock(p)'
  BY <1>1 DEF InLock
<1>4. cast'[Watcher].pc = "send" => InLock(Watcher)'
  BY <1>1, <1>3 DEF LockInv
<1>5. QED BY <1>2, <1>4 DEF LockInv, Onward

\* Somebody gives it back.
LEMMA LeftLock ==
  ASSUME TypeOK, LockInv, NEW p, InLock(p), lock' = Left(lock, p),
         cast'[Watcher].pc = "send" => cast[Watcher].pc = "send" /\ p # Watcher,
         Onward
  PROVE  LockInv'
<1>1. \A i \in DOMAIN lock' : \E j \in DOMAIN lock : lock'[i] = lock[j]
  BY LeftFacts DEF TypeOK
<1>2. cast'[Watcher].pc = "send" => InLock(Watcher)'
  BY LeftFacts DEF LockInv, TypeOK
<1>3. QED BY <1>1, <1>2 DEF LockInv, Onward

LEMMA StepLock == TypeOK /\ LockInv /\ [Next]_vars => LockInv'
<1> SUFFICES ASSUME TypeOK, LockInv, [Next]_vars PROVE LockInv'
  OBVIOUS
<1> USE DEF watchVars, listVars, castVars, taskVars
<1>1. CASE UNCHANGED vars \/ Change
  BY <1>1, SameLock DEF vars, Change, Onward
<1>2. CASE Changed
  <2>1. Reader(Watcher) \in Entry /\ Reader(Watcher).who = Watcher /\ Watcher \notin Client
    BY Actors, EntryType
  <2>2. QED BY <1>2, <2>1, AskedLock DEF Changed, Onward
<1>3. ASSUME NEW k \in Notifier, Notify(k) PROVE LockInv'
  <2>1. Reader(k) \in Entry /\ Reader(k).who = k /\ k \notin Client
    BY Actors, EntryType
  <2>2. cast'[Watcher] = cast[Watcher]
    BY <1>3, Actors, CastPc DEF Notify
  <2>3. QED BY <1>3, <2>1, <2>2, AskedLock DEF Notify, Onward
<1>4. ASSUME NEW k \in Caster, SendNext(k) PROVE LockInv'
  <2>1. cast'[Watcher].pc = cast[Watcher].pc
    BY <1>4, Actors, CastNext DEF SendNext
  <2>2. QED BY <1>4, <2>1, SameLock DEF SendNext, Onward
<1>5. ASSUME NEW k \in Caster, Finish(k) PROVE LockInv'
  <2>1. cast'[Watcher].pc = "send" => cast[Watcher].pc = "send" /\ k # Watcher
    BY <1>5, Actors DEF Finish, Resting, TypeOK
  <2>2. QED BY <1>5, <2>1, GrantedInLock, LeftLock DEF Finish, Holds, Onward
<1>6. ASSUME NEW c \in Client, Accept(c) PROVE LockInv'
  <2>1. Onward
    BY <1>6 DEF Accept, Onward, TypeOK
  <2>2. QED BY <1>6, <2>1, SameLock DEF Accept
<1>7. ASSUME NEW c \in Client, AskToJoin(c) \/ Disconnected(c) PROVE LockInv'
  <2>1. Onward /\ conn'[c] \notin {"off", "greeted"}
    BY <1>7 DEF AskToJoin, Disconnected, Onward, TypeOK
  <2>2. QED BY <1>7, <2>1, EntryType, AskedLock DEF AskToJoin, Disconnected
<1>8. ASSUME NEW c \in Client, Push(c) \/ RemoveConnection(c) PROVE LockInv'
  <2>1. Onward /\ c # Watcher
    BY <1>8, Actors DEF Push, RemoveConnection, Onward, TypeOK
  <2>2. QED BY <1>8, <2>1, GrantedInLock, LeftLock DEF Push, RemoveConnection
<1>9. ASSUME NEW c \in Client, SendTask(c) \/ RecvEnds(c) \/ Read(c) \/ Leave(c)
      PROVE  LockInv'
  BY <1>9, SameLock DEF SendTask, SayGoodbye, SendFails, RecvEnds, Read, Leave, Onward
<1>10. QED
  BY <1>1, <1>2, <1>3, <1>4, <1>5, <1>6, <1>7, <1>8, <1>9 DEF Next, Broadcast, Handler

\* Where a client is tells whether it may be listed and what it can have.
Stays ==
  \A c \in Client :
    /\ conn'[c] \in {"off", "greeted", "push"} => conn[c] \in {"off", "greeted", "push"}
    /\ conn'[c] \in {"up", "remove"} => conn[c] \in {"up", "remove"}
    /\ conn'[c] = "off" => conn[c] = "off" /\ queue'[c] = queue[c]

LEMMA SameList == ListInv /\ conns' = conns /\ Stays => ListInv'
  BY DEF ListInv, Listed, Stays

LEMMA StepList == TypeOK /\ ListInv /\ [Next]_vars => ListInv'
<1> SUFFICES ASSUME TypeOK, ListInv, [Next]_vars PROVE ListInv'
  OBVIOUS
<1> USE DEF watchVars, listVars, castVars, taskVars
<1>1. CASE UNCHANGED vars \/ Change \/ Changed \/ (\E k \in Notifier : Notify(k))
  BY <1>1, SameList DEF vars, Change, Changed, Notify, Stays
<1>2. ASSUME NEW k \in Caster, SendNext(k) PROVE ListInv'
  <2> DEFINE d == conns[cast[k].next]
  <2>1. cast[k].msg \in Message /\ cast[k].next \in 1 .. Len(conns)
    BY <1>2 DEF SendNext, TypeOK, Casting
  <2>2. d \in Client /\ Listed(d)
    BY <2>1, ElementOfSeq DEF TypeOK, Listed
  <2>3. \A c \in Client \ {d} : queue'[c] = queue[c]
    BY <1>2, <2>1, <2>2, MessageSent DEF SendNext
  <2>4. conn[d] # "off"
    BY <2>2 DEF ListInv
  <2>5. Stays
    BY <1>2, <2>3, <2>4 DEF SendNext, Stays
  <2>6. QED BY <1>2, <2>5, SameList DEF SendNext
<1>3. ASSUME NEW k \in Caster, Finish(k) PROVE ListInv'
  BY <1>3, SameList DEF Finish, Stays
<1>4. ASSUME NEW c \in Client, Accept(c) PROVE ListInv'
  <2>1. Stays
    BY <1>4 DEF Accept, Greeting, Stays, TypeOK
  <2>2. QED BY <1>4, <2>1, SameList DEF Accept
<1>5. ASSUME NEW c \in Client, AskToJoin(c) \/ Disconnected(c) PROVE ListInv'
  <2>1. Stays
    BY <1>5 DEF AskToJoin, Disconnected, Stays, TypeOK
  <2>2. QED BY <1>5, <2>1, SameList DEF AskToJoin, Disconnected
<1>6. ASSUME NEW c \in Client, Push(c) PROVE ListInv'
  <2>1. /\ DOMAIN conns = 1 .. Len(conns) /\ DOMAIN conns' = 1 .. Len(conns) + 1
        /\ Len(conns) \in Nat /\ conns'[Len(conns) + 1] = c
        /\ \A i \in 1 .. Len(conns) : conns'[i] = conns[i]
    BY <1>6, AppendFacts DEF Push, TypeOK
  <2>2. \A d \in Client : Listed(d)' <=> Listed(d) \/ d = c
    BY <2>1 DEF Listed
  <2>3. QED BY <1>6, <2>2 DEF Push, ListInv, TypeOK
<1>7. ASSUME NEW c \in Client, RemoveConnection(c) PROVE ListInv'
  <2> DEFINE n == CHOOSE i \in DOMAIN conns : conns[i] = c
  <2>1. n \in DOMAIN conns /\ conns[n] = c /\ conns' = RemoveAt(conns, n)
    BY <1>7 DEF RemoveConnection, ListInv, Listed
  <2> HIDE DEF n
  <2>2. \A d \in Client : Listed(d)' => Listed(d)
    BY <2>1, PlacesBefore DEF Listed, TypeOK
  <2>3. \A d \in Client \ {c} : Listed(d) => Listed(d)'
    BY <2>1, PlacesAfter DEF Listed, TypeOK
  <2>4. QED BY <1>7, <2>2, <2>3 DEF RemoveConnection, ListInv, TypeOK
<1>8. ASSUME NEW c \in Client, SayGoodbye(c) \/ RecvEnds(c) \/ Leave(c) PROVE ListInv'
  BY <1>8, SameList DEF SayGoodbye, RecvEnds, Leave, Stays
<1>9. ASSUME NEW c \in Client, SendFails(c) \/ Read(c) PROVE ListInv'
  <2>1. conn[c] # "off"
    BY <1>9 DEF SendFails, Read, ListInv
  <2>2. Stays
    BY <1>9, <2>1 DEF SendFails, Read, Stays, TypeOK
  <2>3. QED BY <1>9, <2>2, SameList DEF SendFails, Read
<1>10. QED
  BY <1>1, <1>2, <1>3, <1>4, <1>5, <1>6, <1>7, <1>8, <1>9
  DEF Next, Broadcast, Handler, SendTask

-----------------------------------------------------------------------------
(* The order of what a client is sent                                      *)

State == Version \cup {Nothing}

LEMMA StateFacts ==
  /\ State \subseteq Int /\ Nothing \in State /\ \A v \in State : Nothing <= v
  /\ \A m \in Message : m # Other => m \in Version
  /\ Other \notin Version /\ Version \subseteq State /\ Version \subseteq Nat
  BY Constants DEF State, Version, Message, Nothing

\* A message joins the channel: a state that is not the earlier, or another.
LEMMA AppendBelow ==
  ASSUME NEW g \in State, NEW q \in Seq(Message), NEW m \in Message, NEW v \in Version,
         Below(g, q, v), m # Other => m <= v
  PROVE  Below(g, Append(q, m), v)
  BY AppendFacts DEF Below

LEMMA AppendOrdered ==
  ASSUME NEW g \in State, NEW q \in Seq(Message), NEW m \in Message,
         Ordered(g, q), m # Other => Below(g, q, m)
  PROVE  Ordered(g, Append(q, m))
<1>1. /\ DOMAIN q = 1 .. Len(q) /\ DOMAIN Append(q, m) = 1 .. Len(q) + 1
      /\ Len(q) \in Nat /\ Append(q, m)[Len(q) + 1] = m
      /\ \A i \in 1 .. Len(q) : Append(q, m)[i] = q[i]
  BY AppendFacts
<1>2. QED BY <1>1 DEF Ordered, Below

\* The oldest message is read.
LEMMA TailKept ==
  ASSUME NEW g \in State, NEW q \in Seq(Message), q # <<>>, Ordered(g, q),
         NEW h \in State, h = IF Head(q) = Other THEN g ELSE Head(q)
  PROVE  /\ g <= h /\ Ordered(h, Tail(q))
         /\ \A v \in Version : Below(g, q, v) => Below(h, Tail(q), v)
<1>1. /\ Head(q) = q[1] /\ Len(q) \in Nat \ {0} /\ DOMAIN q = 1 .. Len(q)
      /\ Tail(q) \in Seq(Message) /\ DOMAIN Tail(q) = 1 .. Len(q) - 1
      /\ \A i \in 1 .. Len(q) - 1 : Tail(q)[i] = q[i + 1]
      /\ \A i \in 1 .. Len(q) : q[i] \in Message
  BY HeadTailProperties, EmptySeq
<1>2. g <= h
  BY <1>1, StateFacts DEF Ordered
<1>3. Ordered(h, Tail(q))
  BY <1>1, StateFacts DEF Ordered
<1>4. \A v \in Version : Below(g, q, v) => Below(h, Tail(q), v)
  BY <1>1, StateFacts DEF Below
<1>5. QED BY <1>2, <1>3, <1>4

\* What is sent to a listed client is no earlier than what it has.
LEMMA SentFacts ==
  ASSUME Inv, NEW k \in Caster, SendNext(k)
  PROVE  \E c \in Client :
           /\ cast[k].msg \in Message /\ queue' \in [Client -> Seq(Message)]
           /\ \A d \in Client \ {c} : queue'[d] = queue[d]
           /\ queue'[c] \in {queue[c], Append(queue[c], cast[k].msg)}
           /\ cast[k].msg # Other =>
                /\ k = Watcher /\ cast[k].msg <= version
                /\ Below(got[c], queue[c], cast[k].msg)
<1> DEFINE c == conns[cast[k].next]
<1>1. cast[k].msg \in Message /\ cast[k].next \in 1 .. Len(conns)
  BY DEF SendNext, Inv, TypeOK, Casting
<1>2. c \in Client /\ Listed(c)
  BY <1>1, ElementOfSeq DEF Inv, TypeOK, Listed
<1> HIDE DEF c
<1>3. /\ queue' \in [Client -> Seq(Message)]
      /\ \A d \in Client \ {c} : queue'[d] = queue[d]
      /\ queue'[c] \in {queue[c], Append(queue[c], cast[k].msg)}
  BY <1>1, <1>2, MessageSent DEF SendNext, Inv, c
<1>4. ASSUME cast[k].msg # Other
      PROVE  /\ k = Watcher /\ cast[k].msg <= version
             /\ Below(got[c], queue[c], cast[k].msg)
  <2>1. k = Watcher /\ cast[k].pc = "send"
    BY <1>4 DEF Inv, CastInv, Caster, SendNext, Holds
  <2>2. cast[k].msg \in 0 .. version /\ version \in Nat
    BY <2>1, StateFacts DEF Inv, CastInv, TypeOK
  <2>3. QED BY <1>2, <2>1, <2>2 DEF Inv, CastInv
<1>5. QED BY <1>1, <1>2, <1>3, <1>4

LEMMA ChannelTypes ==
  ASSUME TypeOK
  PROVE  /\ \A c \in Client : got[c] \in State /\ queue[c] \in Seq(Message)
         /\ version \in Version
         /\ \A c \in Client : \A i \in DOMAIN queue[c] : queue[c][i] \in Message
  BY DEF TypeOK, State

LEMMA BelowLater ==
  ASSUME NEW g \in State, NEW q \in Seq(Message), NEW v \in Version, NEW w \in Version,
         Below(g, q, v), v <= w
  PROVE  Below(g, q, w)
<1>1. g \in Int /\ v \in Int /\ w \in Int
  BY StateFacts
<1>2. \A i \in DOMAIN q : q[i] \in Message
  OBVIOUS
<1>3. \A i \in DOMAIN q : q[i] # Other => q[i] \in Int
  BY <1>2, StateFacts
<1>4. QED BY <1>1, <1>3 DEF Below

LEMMA StepOrder == Inv /\ [Next]_vars => OrderInv'
<1> SUFFICES ASSUME Inv, [Next]_vars PROVE OrderInv'
  OBVIOUS
<1> USE ChannelTypes DEF Inv, watchVars, listVars, castVars, taskVars
<1>1. CASE Change
  <2>1. version' \in Version /\ version <= version'
    BY <1>1, Constants DEF Change, Version
  <2>2. QED BY <1>1, <2>1, BelowLater DEF Change, OrderInv
<1>2. CASE UNCHANGED <<version, queue, got>>
  BY <1>2 DEF OrderInv
<1>3. ASSUME NEW k \in Caster, SendNext(k) PROVE OrderInv'
  <2>1. PICK c \in Client :
          /\ cast[k].msg \in Message
          /\ \A d \in Client \ {c} : queue'[d] = queue[d]
          /\ queue'[c] \in {queue[c], Append(queue[c], cast[k].msg)}
          /\ cast[k].msg # Other =>
               cast[k].msg <= version /\ Below(got[c], queue[c], cast[k].msg)
    BY <1>3, SentFacts
  <2>2. Below(got[c], queue'[c], version) /\ Ordered(got[c], queue'[c])
    BY <2>1, AppendBelow, AppendOrdered DEF OrderInv
  <2>3. QED BY <1>3, <2>1, <2>2 DEF SendNext, OrderInv
<1>4. ASSUME NEW c \in Client, Accept(c) PROVE OrderInv'
  <2>1. queue' = [queue EXCEPT ![c] = <<version>>] /\ got' = got /\ version' = version
    BY <1>4, AcceptType DEF Accept
  <2>2. got[c] <= version
    BY DEF OrderInv, Below
  <2>3. Below(got[c], <<version>>, version) /\ Ordered(got[c], <<version>>)
    <3>1. DOMAIN <<version>> = 1 .. 1 /\ <<version>>[1] = version
      OBVIOUS
    <3>2. version \in Int
      BY StateFacts
    <3>3. QED BY <2>2, <3>1, <3>2 DEF Below, Ordered
  <2>4. QED BY <2>1, <2>3 DEF OrderInv, TypeOK
<1>5. ASSUME NEW c \in Client, SendFails(c) PROVE OrderInv'
  BY <1>5 DEF SendFails, OrderInv, Below, Ordered, TypeOK
<1>6. ASSUME NEW c \in Client, Read(c) PROVE OrderInv'
  <2>1. /\ queue[c] # <<>> /\ queue' = [queue EXCEPT ![c] = Tail(@)]
        /\ got' = [got EXCEPT ![c] = IF Head(queue[c]) = Other THEN @ ELSE Head(queue[c])]
        /\ version' = version
    BY <1>6 DEF Read
  <2>2. TypeOK'
    BY <1>6, ClientType
  <2>3. got'[c] = (IF Head(queue[c]) = Other THEN got[c] ELSE Head(queue[c])) /\ got'[c] \in State
    BY <2>1, <2>2 DEF TypeOK, State
  <2>4. Below(got'[c], Tail(queue[c]), version) /\ Ordered(got'[c], Tail(queue[c]))
    BY <2>1, <2>3, TailKept DEF OrderInv
  <2>5. QED BY <2>1, <2>4 DEF OrderInv, TypeOK
<1>7. ASSUME NEW c \in Client, Leave(c) PROVE OrderInv'
  <2>1. \A i \in DOMAIN queue[c] : queue[c][i] # Other => Nothing <= queue[c][i]
    BY StateFacts
  <2>2. Nothing <= version
    BY StateFacts
  <2>3. Below(Nothing, queue[c], version) /\ Ordered(Nothing, queue[c])
    BY <2>1, <2>2 DEF OrderInv, Below, Ordered
  <2>4. QED BY <1>7, <2>3 DEF Leave, OrderInv, TypeOK
<1>8. QED
  <2>1. CASE UNCHANGED vars
    BY <1>2, <2>1 DEF vars
  <2>2. CASE Changed \/ (\E k \in Notifier : Notify(k)) \/ (\E k \in Caster : Finish(k))
    BY <1>2, <2>2 DEF Changed, Notify, Finish
  <2>3. CASE \E c \in Client : Handler(c) \/ SayGoodbye(c) \/ RecvEnds(c)
    BY <1>2, <2>3
    DEF Handler, AskToJoin, Push, Disconnected, RemoveConnection, SayGoodbye, RecvEnds
  <2>4. QED
    BY <1>1, <1>3, <1>4, <1>5, <1>6, <1>7, <2>1, <2>2, <2>3 DEF Next, Broadcast, SendTask

-----------------------------------------------------------------------------
(* The broadcast under way                                                 *)

\* Nobody joins the broadcast, and what its clients have stays below it.
LEMMA SameCast ==
  ASSUME CastInv, version' = version,
         \A k \in Notifier : cast'[k].msg = cast[k].msg,
         cast'[Watcher].pc = "send" =>
           cast[Watcher].pc = "send" /\ cast'[Watcher].msg = cast[Watcher].msg,
         cast[Watcher].pc = "send" =>
           \A c \in Client :
             (Listed(c) \/ Ahead(c))' =>
               /\ Listed(c) \/ Ahead(c)
               /\ Below(got[c], queue[c], cast[Watcher].msg) =>
                    Below(got'[c], queue'[c], cast[Watcher].msg)
  PROVE  CastInv'
  BY DEF CastInv

LEMMA AskedBehind ==
  ASSUME TypeOK, NEW e \in Entry, e.who # Watcher, lock' = Asked(lock, e), NEW c, Ahead(c)'
  PROVE  Ahead(c)
<1>1. /\ DOMAIN lock = 1 .. Len(lock) /\ DOMAIN lock' = 1 .. Len(lock) + 1
      /\ Len(lock) \in Nat /\ lock'[Len(lock) + 1] = e
      /\ \A i \in 1 .. Len(lock) : lock'[i] = lock[i]
  BY AskedFacts DEF TypeOK
<1>2. PICK i, j \in DOMAIN lock' : i < j /\ lock'[i].who = c /\ lock'[j].who = Watcher
  BY DEF Ahead
<1>3. j \in 1 .. Len(lock) /\ i \in 1 .. Len(lock)
  BY <1>1, <1>2
<1>4. QED BY <1>1, <1>2, <1>3 DEF Ahead

LEMMA LeftBehind ==
  ASSUME TypeOK, NEW p, InLock(p), lock' = Left(lock, p), NEW c, Ahead(c)'
  PROVE  Ahead(c)
<1>1. PICK i, j \in DOMAIN lock' : i < j /\ lock'[i].who = c /\ lock'[j].who = Watcher
  BY DEF Ahead
<1>2. PICK k \in DOMAIN lock :
        lock'[i] = lock[k] /\ \E l \in DOMAIN lock : k < l /\ lock'[j] = lock[l]
  BY <1>1, LeftFacts DEF TypeOK
<1>3. QED BY <1>1, <1>2 DEF Ahead

\* Who may write to the list while the watcher waits asked before it.
LEMMA WriterAhead ==
  ASSUME TypeOK, LockInv, NEW c \in Client, Granted(lock, c), InLock(Watcher)
  PROVE  Ahead(c)
<1>1. PICK j \in DOMAIN lock : lock[j].who = Watcher
  BY DEF InLock
<1>2. 1 \in DOMAIN lock /\ lock[1].who = c
  BY DEF Granted, LockInv
<1>3. j # 1 /\ DOMAIN lock = 1 .. Len(lock) /\ Len(lock) \in Nat
  BY <1>1, <1>2, Actors DEF TypeOK
<1>4. 1 < j
  BY <1>1, <1>3
<1>5. QED BY <1>1, <1>2, <1>4 DEF Ahead

LEMMA StepCast == Inv /\ [Next]_vars => CastInv'
<1> SUFFICES ASSUME Inv, [Next]_vars PROVE CastInv'
  OBVIOUS
<1> USE ChannelTypes, Actors DEF Inv, watchVars, listVars, castVars, taskVars
<1>1. CASE UNCHANGED vars
  BY <1>1 DEF vars, CastInv, Listed, Ahead
<1>2. CASE Change
  <2>1. version' = version + 1 /\ version \in Nat
    BY <1>2, StateFacts DEF Change
  <2>2. 0 .. version \subseteq 0 .. version'
    BY <2>1
  <2>3. QED BY <1>2, <2>2 DEF Change, CastInv, Listed, Ahead
<1>3. CASE Changed
  <2>1. version \in 0 .. version /\ version' = version
    <3>1. version \in Nat
      BY StateFacts
    <3>2. QED BY <1>3, <3>1 DEF Changed
  <2>2. /\ cast'[Watcher].msg = version
        /\ \A k \in Notifier : cast'[k].msg = cast[k].msg
    BY <1>3 DEF Changed, TypeOK
  <2>3. \A c \in Client : Below(got'[c], queue'[c], version)
    BY <1>3 DEF Changed, OrderInv
  <2>4. QED BY <2>1, <2>2, <2>3 DEF CastInv
<1>4. ASSUME NEW k \in Notifier, Notify(k) PROVE CastInv'
  <2>1. /\ Reader(k) \in Entry /\ Reader(k).who # Watcher
        /\ lock' = Asked(lock, Reader(k))
    BY <1>4, EntryType DEF Notify
  <2>2. cast'[Watcher] = cast[Watcher] /\ \A l \in Caster : cast'[l].msg = cast[l].msg
    BY <1>4, CastPc DEF Notify
  <2>3. \A c \in Client : Ahead(c)' => Ahead(c)
    BY <2>1, AskedBehind
  <2>4. QED BY <1>4, <2>2, <2>3, SameCast DEF Notify, Listed
<1>5. ASSUME NEW k \in Caster, SendNext(k) PROVE CastInv'
  <2>1. PICK c \in Client :
          /\ cast[k].msg \in Message
          /\ \A d \in Client \ {c} : queue'[d] = queue[d]
          /\ queue'[c] \in {queue[c], Append(queue[c], cast[k].msg)}
          /\ cast[k].msg # Other => k = Watcher
    BY <1>5, SentFacts
  <2>2. \A l \in Caster : cast'[l].pc = cast[l].pc /\ cast'[l].msg = cast[l].msg
    BY <1>5, CastNext DEF SendNext
  <2>3. ASSUME cast[Watcher].pc = "send", Below(got[c], queue[c], cast[Watcher].msg)
        PROVE  Below(got[c], queue'[c], cast[Watcher].msg)
    <3>1. cast[Watcher].msg \in 0 .. version
      BY <2>3 DEF CastInv
    <3>2. cast[Watcher].msg \in Version
      BY <3>1, Constants DEF Version
    <3>3. cast[Watcher].msg <= cast[Watcher].msg
      <4>1. cast[Watcher].msg \in Nat
        BY <3>2, StateFacts
      <4>2. QED BY <4>1
    <3>4. Below(got[c], Append(queue[c], cast[k].msg), cast[Watcher].msg)
      BY <2>1, <2>3, <3>2, <3>3, AppendBelow
    <3>5. CASE queue'[c] = queue[c]
      BY <2>3, <3>5
    <3>6. CASE queue'[c] = Append(queue[c], cast[k].msg)
      BY <3>4, <3>6
    <3>7. QED BY <2>1, <3>5, <3>6
  <2>4. QED BY <1>5, <2>1, <2>2, <2>3, SameCast DEF SendNext, Listed, Ahead
<1>6. ASSUME NEW k \in Caster, Finish(k) PROVE CastInv'
  <2>1. InLock(k) /\ lock' = Left(lock, k)
    BY <1>6, GrantedInLock DEF Finish, Holds
  <2>2. \A c \in Client : Ahead(c)' => Ahead(c)
    BY <2>1, LeftBehind
  <2>3. /\ cast'[k].pc = "rest" /\ cast'[k].msg = Other
        /\ \A l \in Caster \ {k} : cast'[l] = cast[l]
    BY <1>6 DEF Finish, Resting, TypeOK
  <2>4. /\ \A l \in Notifier : cast'[l].msg = cast[l].msg
        /\ cast'[Watcher].pc = "send" =>
             cast[Watcher].pc = "send" /\ cast'[Watcher].msg = cast[Watcher].msg
    BY <2>3 DEF CastInv
  <2>5. QED BY <1>6, <2>2, <2>4, SameCast DEF Finish, Listed
<1>7. ASSUME NEW c \in Client, Accept(c) PROVE CastInv'
  <2>1. \A d \in Client \ {c} : queue'[d] = queue[d]
    BY <1>7, AcceptType DEF TypeOK
  <2>2. ~Listed(c) /\ ~Ahead(c)
    BY <1>7 DEF Accept, ListInv, LockInv, Ahead
  <2>3. version' = version /\ cast' = cast /\ lock' = lock /\ conns' = conns /\ got' = got
    BY <1>7 DEF Accept
  <2>4. \A d \in Client : (Listed(d)' <=> Listed(d)) /\ (Ahead(d)' <=> Ahead(d))
    BY <2>3 DEF Listed, Ahead
  <2>5. QED BY <2>1, <2>2, <2>3, <2>4, SameCast
<1>8. ASSUME NEW c \in Client, AskToJoin(c) \/ Disconnected(c) PROVE CastInv'
  <2>1. /\ Writer(c) \in Entry /\ Writer(c).who # Watcher
        /\ lock' = Asked(lock, Writer(c))
    BY <1>8, EntryType DEF AskToJoin, Disconnected
  <2>2. \A d \in Client : Ahead(d)' => Ahead(d)
    BY <2>1, AskedBehind
  <2>3. QED BY <1>8, <2>2, SameCast DEF AskToJoin, Disconnected, Listed
<1>9. ASSUME NEW c \in Client, Push(c) PROVE CastInv'
  <2>1. InLock(c) /\ lock' = Left(lock, c)
    BY <1>9, GrantedInLock DEF Push
  <2>2. \A d \in Client : Ahead(d)' => Ahead(d)
    BY <2>1, LeftBehind
  <2>3. cast[Watcher].pc = "send" => Ahead(c)
    BY <1>9, WriterAhead DEF Push, LockInv
  <2>4. /\ DOMAIN conns = 1 .. Len(conns) /\ DOMAIN conns' = 1 .. Len(conns) + 1
        /\ Len(conns) \in Nat /\ conns'[Len(conns) + 1] = c
        /\ \A i \in 1 .. Len(conns) : conns'[i] = conns[i]
    BY <1>9, AppendFacts DEF Push, TypeOK
  <2>5. \A d \in Client : Listed(d)' => Listed(d) \/ d = c
    BY <2>4 DEF Listed
  <2>6. QED BY <1>9, <2>2, <2>3, <2>5, SameCast DEF Push
<1>10. ASSUME NEW c \in Client, RemoveConnection(c) PROVE CastInv'
  <2>1. InLock(c) /\ lock' = Left(lock, c)
    BY <1>10, GrantedInLock DEF RemoveConnection
  <2>2. \A d \in Client : Ahead(d)' => Ahead(d)
    BY <2>1, LeftBehind
  <2> DEFINE n == CHOOSE i \in DOMAIN conns : conns[i] = c
  <2>3. n \in DOMAIN conns /\ conns' = RemoveAt(conns, n)
    BY <1>10 DEF RemoveConnection, ListInv, Listed
  <2> HIDE DEF n
  <2>4. \A d \in Client : Listed(d)' => Listed(d)
    BY <2>3, PlacesBefore DEF Listed, TypeOK
  <2>5. QED BY <1>10, <2>2, <2>4, SameCast DEF RemoveConnection
<1>11. ASSUME NEW c \in Client, SayGoodbye(c) \/ RecvEnds(c) PROVE CastInv'
  BY <1>11, SameCast DEF SayGoodbye, RecvEnds, Listed, Ahead
<1>12. ASSUME NEW c \in Client, SendFails(c) \/ Read(c) \/ Leave(c) PROVE CastInv'
  <2>1. \A d \in Client \ {c} : got'[d] = got[d] /\ queue'[d] = queue[d]
    BY <1>12 DEF SendFails, Read, Leave, TypeOK
  <2>2. ASSUME NEW v \in Version, Below(got[c], queue[c], v)
        PROVE  Below(got'[c], queue'[c], v)
    <3>1. CASE SendFails(c)
      BY <2>2, <3>1 DEF SendFails, Below, TypeOK
    <3>2. CASE Read(c)
      <4>1. /\ queue[c] # <<>> /\ queue'[c] = Tail(queue[c])
            /\ got'[c] = IF Head(queue[c]) = Other THEN got[c] ELSE Head(queue[c])
        BY <3>2 DEF Read, TypeOK
      <4>2. got'[c] \in State
        BY <3>2, ClientType DEF TypeOK, State
      <4>3. QED BY <2>2, <4>1, <4>2, TailKept DEF OrderInv
    <3>3. CASE Leave(c)
      <4>1. got'[c] = Nothing /\ queue'[c] = queue[c]
        BY <3>3 DEF Leave, TypeOK
      <4>2. QED BY <2>2, <4>1, StateFacts DEF Below
    <3>4. QED BY <1>12, <3>1, <3>2, <3>3
  <2>3. cast[Watcher].pc = "send" => cast[Watcher].msg \in Version
    BY Constants DEF CastInv, Version
  <2>4. QED
    BY <1>12, <2>1, <2>2, <2>3, SameCast DEF SendFails, Read, Leave, Listed, Ahead
<1>13. QED
  BY <1>1, <1>2, <1>3, <1>4, <1>5, <1>6, <1>7, <1>8, <1>9, <1>10, <1>11, <1>12
  DEF Next, Broadcast, Handler, SendTask

-----------------------------------------------------------------------------
(* The theorems                                                            *)

LEMMA InitInv == Init => Inv
<1> SUFFICES ASSUME Init PROVE Inv
  OBVIOUS
<1>1. TypeOK
  BY InitType
<1>2. LockInv /\ ListInv
  BY Actors DEF Init, Resting, LockInv, ListInv, Listed
<1>3. OrderInv
  BY StateFacts DEF Init, OrderInv, Below, Ordered, Nothing
<1>4. CastInv
  BY Actors DEF Init, Resting, CastInv
<1>5. QED BY <1>1, <1>2, <1>3, <1>4 DEF Inv

LEMMA StepInv == Inv /\ [Next]_vars => Inv'
  BY StepType, StepLock, StepList, StepOrder, StepCast DEF Inv

LEMMA Invariance == Spec => []Inv
  BY InitInv, StepInv, PTL DEF Spec

\* Type correctness, for any number of clients and any capacity; that no
\* channel exceeds its capacity is part of it.
THEOREM TypeCorrect == Spec => []TypeOK
<1>1. Inv => TypeOK
  BY DEF Inv
<1>2. QED BY <1>1, Invariance, PTL

\* What a client reads is no earlier than what it read before (NeverBackwards),
\* however the broadcasts of ws_server.rs meet its joining and leaving.
THEOREM InOrder == Spec => NeverBackwards
<1>1. Inv /\ [Next]_vars => [\A c \in open' : got'[c] >= got[c]]_vars
  <2> SUFFICES ASSUME Inv, [Next]_vars, NEW c \in open' PROVE got'[c] >= got[c]
    OBVIOUS
  <2>1. TypeOK' /\ c \in Client
    BY StepInv DEF Inv, TypeOK
  <2>2. got[c] \in Int /\ got'[c] \in Int
    BY <2>1, StateFacts DEF Inv, TypeOK, State
  <2>3. CASE got'[c] = got[c]
    BY <2>2, <2>3
  <2>4. CASE Read(c)
    <3>1. /\ queue[c] # <<>>
          /\ got'[c] = IF Head(queue[c]) = Other THEN got[c] ELSE Head(queue[c])
      BY <2>1, <2>4 DEF Read, Inv, TypeOK
    <3>2. got[c] \in State /\ got'[c] \in State /\ queue[c] \in Seq(Message)
      BY <2>1, ChannelTypes DEF Inv, TypeOK, State
    <3>3. got[c] <= got'[c]
      BY <2>1, <3>1, <3>2, TailKept DEF Inv, OrderInv
    <3>4. QED BY <2>2, <3>3
  <2>5. got'[c] = got[c] \/ Read(c)
    <3>1. CASE \E d \in Client : Read(d)
      BY <3>1 DEF Read, Inv, TypeOK
    <3>2. CASE \E d \in Client : Leave(d)
      BY <3>2 DEF Leave, Inv, TypeOK
    <3>3. CASE UNCHANGED got
      BY <3>3
    <3>4. QED
      BY <3>1, <3>2, <3>3
      DEF Next, vars, Change, Changed, Notify, Broadcast, SendNext, Finish, Accept, Handler,
          AskToJoin, Push, Disconnected, RemoveConnection, SendTask, SayGoodbye, SendFails,
          RecvEnds
  <2>6. QED BY <2>3, <2>4, <2>5
<1>2. QED BY <1>1, Invariance, PTL DEF Spec, NeverBackwards

-----------------------------------------------------------------------------
(* What ListedCatchesUp rests on: no broadcast of the watcher leaves out a *)
(* client of the list                                                      *)

\* The state v, or a later one, was sent to c or waits for it.
Has(c, v) ==
  \/ got[c] >= v
  \/ \E i \in DOMAIN queue[c] : queue[c][i] # Other /\ queue[c][i] >= v

\* c has the state the watcher saw last, or is still to be sent it.
Due(c) ==
  \/ Has(c, seen)
  \/ /\ cast[Watcher].pc = "send"
     /\ \E i \in DOMAIN conns : i >= cast[Watcher].next /\ conns[i] = c

\* Whenever the watcher sees a change, who is in the list is due it, and stays
\* so until it has the state or is gone, whoever joins and leaves meanwhile.
NothingLost ==
  [][\A c \in open \cap open' :
       Listed(c) /\ Listed(c)' /\ (Due(c) \/ seen' # seen) => Due(c)']_vars

\* What the watcher sends is what it saw last, and once it has begun it holds
\* the lock.
HoldInv ==
  cast[Watcher].pc = "send" =>
    cast[Watcher].msg = seen /\ (cast[Watcher].next > 1 => Granted(lock, Watcher))

\* Who is listed and has its socket has a send task.
SendInv == \A c \in open : Listed(c) => sender[c] = "recv"

LEMMA WatcherKeepsLock ==
  ASSUME TypeOK, Granted(lock, Watcher),
         \/ \E e \in Entry : lock' = Asked(lock, e)
         \/ \E p : p # Watcher /\ InLock(p) /\ lock' = Left(lock, p)
  PROVE  Granted(lock', Watcher)
<1>1. PICK i \in DOMAIN lock :
        /\ lock[i].who = Watcher
        /\ IF lock[i].mode = "write" THEN i = 1
           ELSE \A j \in 1 .. i - 1 : lock[j].mode = "read"
  BY DEF Granted
<1>2. DOMAIN lock = 1 .. Len(lock) /\ Len(lock) \in Nat /\ lock \in Seq(Entry)
  BY DEF TypeOK
<1>3. CASE \E e \in Entry : lock' = Asked(lock, e)
  <2>1. DOMAIN lock' = 1 .. Len(lock) + 1 /\ \A j \in 1 .. Len(lock) : lock'[j] = lock[j]
    BY <1>2, <1>3, AskedFacts
  <2>2. i \in DOMAIN lock' /\ \A j \in 1 .. i : lock'[j] = lock[j]
    BY <1>2, <2>1
  <2>3. lock'[i] = lock[i] /\ \A j \in 1 .. i - 1 : lock'[j] = lock[j]
    BY <1>2, <2>2
  <2>4. QED BY <1>1, <2>2, <2>3 DEF Granted
<1>4. ASSUME NEW p, p # Watcher, InLock(p), lock' = Left(lock, p)
      PROVE  Granted(lock', Watcher)
  <2> DEFINE n == Place(lock, p)
  <2>1. n \in DOMAIN lock /\ lock[n].who = p
    BY <1>4 DEF Place, InLock
  <2>2. lock' = RemoveAt(lock, n)
    BY <1>4 DEF Left, Queued, InLock
  <2>3. n # i
    BY <1>1, <1>4, <2>1
  <2> HIDE DEF n
  <2>4. /\ DOMAIN lock' = 1 .. Len(lock) - 1
        /\ \A j \in 1 .. Len(lock) - 1 : lock'[j] = IF j < n THEN lock[j] ELSE lock[j + 1]
    <3>1. RemoveAt(lock, n) \in Seq(Entry) /\ Len(RemoveAt(lock, n)) = Len(lock) - 1
      BY <1>2, <2>1, RemoveAtFacts
    <3>2. DOMAIN RemoveAt(lock, n) = 1 .. Len(lock) - 1
      BY <3>1
    <3>3. \A j \in 1 .. Len(lock) - 1 :
            RemoveAt(lock, n)[j] = IF j < n THEN lock[j] ELSE lock[j + 1]
      BY <1>2, <2>1, RemoveAtFacts
    <3>4. QED BY <2>2, <3>2, <3>3
  <2>5. CASE i < n
    <3>1. i \in 1 .. Len(lock) - 1 /\ lock'[i] = lock[i]
      BY <1>2, <2>1, <2>4, <2>5
    <3>2. \A j \in 1 .. i - 1 : lock'[j] = lock[j]
      BY <1>2, <2>1, <2>4, <2>5
    <3>3. QED BY <1>1, <2>4, <3>1, <3>2 DEF Granted
  <2>6. CASE i > n
    <3>1. i - 1 \in 1 .. Len(lock) - 1 /\ lock'[i - 1] = lock[i] /\ i # 1
      BY <1>2, <2>1, <2>4, <2>6
    <3>2. \A j \in 1 .. (i - 1) - 1 : \E l \in 1 .. i - 1 : lock'[j] = lock[l]
      <4> TAKE j \in 1 .. (i - 1) - 1
      <4>1. j \in 1 .. Len(lock) - 1 /\ j \in 1 .. i - 1 /\ j + 1 \in 1 .. i - 1
        BY <1>2
      <4>2. QED BY <2>4, <4>1
    <3>3. \A j \in 1 .. i - 1 : lock[j].mode = "read"
      BY <1>1, <3>1
    <3>4. lock'[i - 1].who = Watcher /\ lock'[i - 1].mode # "write"
      BY <1>1, <3>1
    <3>5. \A j \in 1 .. (i - 1) - 1 : lock'[j].mode = "read"
      BY <3>2, <3>3
    <3>6. QED BY <2>4, <3>1, <3>4, <3>5 DEF Granted
  <2>7. QED BY <1>2, <2>1, <2>3, <2>5, <2>6
<1>5. QED BY <1>3, <1>4

\* While the watcher holds the lock, nobody writes to the list.
LEMMA NoWriter ==
  ASSUME TypeOK, LockInv, NEW c \in Client, Granted(lock, c)
  PROVE  ~Granted(lock, Watcher)
<1> SUFFICES ASSUME Granted(lock, Watcher) PROVE FALSE
  OBVIOUS
<1>1. 1 \in DOMAIN lock /\ lock[1].who = c /\ lock[1].mode = "write"
  BY DEF Granted, LockInv
<1>2. PICK i \in DOMAIN lock :
        /\ lock[i].who = Watcher
        /\ IF lock[i].mode = "write" THEN i = 1
           ELSE \A j \in 1 .. i - 1 : lock[j].mode = "read"
  BY DEF Granted
<1>3. i # 1
  BY <1>1, <1>2, Actors
<1>4. i \in Nat \ {0} /\ 1 \in 1 .. i - 1
  BY <1>3 DEF TypeOK
<1>5. QED BY <1>1, <1>2, <1>3, <1>4

LEMMA SameHold ==
  ASSUME HoldInv, seen' = seen,
         cast'[Watcher].pc = "send" =>
           /\ cast'[Watcher] = cast[Watcher]
           /\ cast[Watcher].next > 1 /\ Granted(lock, Watcher) => Granted(lock', Watcher)
  PROVE  HoldInv'
  BY DEF HoldInv

LEMMA StepHold == Inv /\ HoldInv /\ [Next]_vars => HoldInv'
<1> SUFFICES ASSUME Inv, HoldInv, [Next]_vars PROVE HoldInv'
  OBVIOUS
<1> USE Actors DEF Inv, watchVars, listVars, castVars, taskVars
<1>1. CASE UNCHANGED <<seen, cast, lock>>
  BY <1>1, SameHold
<1>2. CASE Changed
  <2>1. cast'[Watcher] = [pc |-> "send", msg |-> version, next |-> 1] /\ seen' = version
    BY <1>2 DEF Changed, TypeOK
  <2>2. QED BY <2>1 DEF HoldInv
<1>3. ASSUME NEW k \in Notifier, Notify(k) PROVE HoldInv'
  <2>1. Reader(k) \in Entry /\ lock' = Asked(lock, Reader(k)) /\ seen' = seen
    BY <1>3, EntryType DEF Notify
  <2>2. cast'[Watcher] = cast[Watcher]
    BY <1>3, CastPc DEF Notify
  <2>3. QED BY <2>1, <2>2, WatcherKeepsLock, SameHold
<1>4. ASSUME NEW k \in Caster, SendNext(k) PROVE HoldInv'
  <2>1. lock' = lock /\ seen' = seen
    BY <1>4 DEF SendNext
  <2>2. CASE k = Watcher
    <3>1. Granted(lock', Watcher)
      BY <1>4, <2>1, <2>2 DEF SendNext, Holds
    <3>2. cast'[Watcher].pc = cast[Watcher].pc /\ cast'[Watcher].msg = cast[Watcher].msg
      BY <1>4, CastNext DEF SendNext
    <3>3. QED BY <2>1, <3>1, <3>2 DEF HoldInv
  <2>3. CASE k # Watcher
    <3>1. cast'[Watcher] = cast[Watcher]
      BY <1>4, <2>3 DEF SendNext, TypeOK
    <3>2. QED BY <2>1, <3>1, SameHold
  <2>4. QED BY <2>2, <2>3
<1>5. ASSUME NEW k \in Caster, Finish(k) PROVE HoldInv'
  <2>1. InLock(k) /\ lock' = Left(lock, k) /\ seen' = seen
    BY <1>5, GrantedInLock DEF Finish, Holds
  <2>2. CASE k = Watcher
    <3>1. cast'[Watcher].pc = "rest"
      BY <1>5, <2>2 DEF Finish, Resting, TypeOK
    <3>2. QED BY <3>1 DEF HoldInv
  <2>3. CASE k # Watcher
    <3>1. cast'[Watcher] = cast[Watcher]
      BY <1>5, <2>3 DEF Finish, TypeOK
    <3>2. QED BY <2>1, <2>3, <3>1, WatcherKeepsLock, SameHold
  <2>4. QED BY <2>2, <2>3
<1>6. ASSUME NEW c \in Client, AskToJoin(c) \/ Disconnected(c) PROVE HoldInv'
  <2>1. /\ Writer(c) \in Entry /\ lock' = Asked(lock, Writer(c))
        /\ seen' = seen /\ cast' = cast
    BY <1>6, EntryType DEF AskToJoin, Disconnected
  <2>2. QED BY <2>1, WatcherKeepsLock, SameHold
<1>7. ASSUME NEW c \in Client, Push(c) \/ RemoveConnection(c) PROVE HoldInv'
  <2>1. Granted(lock, c) /\ seen' = seen /\ cast' = cast
    BY <1>7 DEF Push, RemoveConnection
  <2>2. ~Granted(lock, Watcher)
    BY <2>1, NoWriter
  <2>3. QED BY <2>1, <2>2, SameHold
<1>8. QED
  BY <1>1, <1>2, <1>3, <1>4, <1>5, <1>6, <1>7
  DEF vars, Next, Change, Broadcast, Accept, Handler, SendTask, SayGoodbye, SendFails,
      RecvEnds, Read, Leave

LEMMA StepSend == Inv /\ SendInv /\ [Next]_vars => SendInv'
<1> SUFFICES ASSUME Inv, SendInv, [Next]_vars PROVE SendInv'
  OBVIOUS
<1> USE DEF Inv, watchVars, listVars, castVars, taskVars
<1>1. CASE UNCHANGED <<conns, sender>> /\ open' \subseteq open
  BY <1>1 DEF SendInv, Listed
<1>2. ASSUME NEW c \in Client, Accept(c) PROVE SendInv'
  <2>1. ~Listed(c)
    BY <1>2 DEF Accept, ListInv
  <2>2. QED BY <1>2, <2>1 DEF Accept, SendInv, Listed
<1>3. ASSUME NEW c \in Client, Push(c) PROVE SendInv'
  <2>1. /\ DOMAIN conns = 1 .. Len(conns) /\ DOMAIN conns' = 1 .. Len(conns) + 1
        /\ Len(conns) \in Nat /\ conns'[Len(conns) + 1] = c
        /\ \A i \in 1 .. Len(conns) : conns'[i] = conns[i]
    BY <1>3, AppendFacts DEF Push, TypeOK
  <2>2. \A d \in Client : Listed(d)' => Listed(d) \/ d = c
    BY <2>1 DEF Listed
  <2>3. QED BY <1>3, <2>2 DEF Push, SendInv, TypeOK
<1>4. ASSUME NEW c \in Client, RemoveConnection(c) PROVE SendInv'
  <2> DEFINE n == CHOOSE i \in DOMAIN conns : conns[i] = c
  <2>1. n \in DOMAIN conns /\ conns' = RemoveAt(conns, n)
    BY <1>4 DEF RemoveConnection, ListInv, Listed
  <2> HIDE DEF n
  <2>2. \A d \in Client : Listed(d)' => Listed(d)
    BY <2>1, PlacesBefore DEF Listed, TypeOK
  <2>3. QED BY <1>4, <2>2 DEF RemoveConnection, SendInv, TypeOK
<1>5. ASSUME NEW c \in Client, SayGoodbye(c) PROVE SendInv'
  <2>1. ~Listed(c)
    BY <1>5 DEF SayGoodbye, SenderDropped, Contains, Listed, TypeOK
  <2>2. QED BY <1>5, <2>1 DEF SayGoodbye, SendInv, Listed, TypeOK
<1>6. ASSUME NEW c \in Client, SendFails(c) PROVE SendInv'
  BY <1>6 DEF SendFails, SendInv, Listed, TypeOK
<1>7. QED
  BY <1>1, <1>2, <1>3, <1>4, <1>5, <1>6
  DEF vars, Next, Change, Changed, Notify, Broadcast, SendNext, Finish, Handler, AskToJoin,
      Disconnected, SendTask, RecvEnds, Read, Leave

LEMMA HoldInvariance == Spec => [](Inv /\ HoldInv /\ SendInv)
<1>1. Init => HoldInv /\ SendInv
  BY Actors DEF Init, Resting, HoldInv, SendInv
<1>2. QED BY <1>1, InitInv, StepInv, StepHold, StepSend, PTL DEF Spec

\* What a client has it keeps, read or not.
LEMMA HasKept ==
  ASSUME Inv, [Next]_vars, NEW c \in open \cap open', Listed(c), NEW v \in Version,
         Has(c, v)
  PROVE  Has(c, v)'
<1> USE ChannelTypes DEF Inv, watchVars, listVars, castVars, taskVars
<1>1. c \in Client /\ got[c] \in Int /\ v \in Int /\ queue[c] \in Seq(Message)
  BY StateFacts DEF TypeOK
<1>2. CASE got'[c] = got[c] /\ queue'[c] = queue[c]
  BY <1>2 DEF Has
<1>3. ASSUME NEW m \in Message, got'[c] = got[c], queue'[c] = Append(queue[c], m)
      PROVE  Has(c, v)'
  <2>1. /\ DOMAIN queue[c] = 1 .. Len(queue[c]) /\ Len(queue[c]) \in Nat
        /\ DOMAIN queue'[c] = 1 .. Len(queue[c]) + 1
        /\ \A i \in 1 .. Len(queue[c]) : queue'[c][i] = queue[c][i]
    BY <1>1, <1>3, AppendFacts
  <2>2. \A i \in DOMAIN queue[c] : i \in DOMAIN queue'[c] /\ queue'[c][i] = queue[c][i]
    BY <2>1
  <2>3. QED BY <1>3, <2>2 DEF Has
<1>4. CASE Read(c)
  <2> DEFINE q == queue[c]  h == got'[c]
  <2>1. /\ q # <<>> /\ queue'[c] = Tail(q)
        /\ h = IF Head(q) = Other THEN got[c] ELSE Head(q)
    BY <1>1, <1>4 DEF Read, TypeOK
  <2>2. h \in State /\ h \in Int
    BY <1>1, <1>4, ClientType, StateFacts DEF TypeOK, State
  <2>3. got[c] <= h
    BY <1>1, <2>1, <2>2, TailKept DEF OrderInv
  <2>4. /\ Head(q) = q[1] /\ Len(q) \in Nat \ {0} /\ DOMAIN q = 1 .. Len(q)
        /\ DOMAIN Tail(q) = 1 .. Len(q) - 1
        /\ \A i \in 1 .. Len(q) - 1 : Tail(q)[i] = q[i + 1]
    BY <1>1, <2>1, HeadTailProperties, EmptySeq
  <2> HIDE DEF h
  <2>5. CASE got[c] >= v
    <3>1. h >= v
      BY <1>1, <2>2, <2>3, <2>5
    <3>2. QED BY <3>1 DEF Has, h
  <2>6. ASSUME NEW i \in DOMAIN q, q[i] # Other, q[i] >= v PROVE Has(c, v)'
    <3>1. CASE i = 1
      <4>1. h >= v
        BY <2>1, <2>4, <2>6, <3>1
      <4>2. QED BY <4>1 DEF Has, h
    <3>2. CASE i # 1
      <4>1. i - 1 \in DOMAIN Tail(q) /\ Tail(q)[i - 1] = q[i]
        BY <2>4, <3>2
      <4>2. QED BY <2>1, <2>6, <4>1 DEF Has
    <3>3. QED BY <3>1, <3>2
  <2>7. QED BY <2>5, <2>6 DEF Has
<1>5. ASSUME NEW k \in Caster, SendNext(k) PROVE Has(c, v)'
  <2>1. PICK d \in Client :
          /\ cast[k].msg \in Message
          /\ \A e \in Client \ {d} : queue'[e] = queue[e]
          /\ queue'[d] \in {queue[d], Append(queue[d], cast[k].msg)}
    BY <1>5, SentFacts
  <2>2. got' = got
    BY <1>5 DEF SendNext
  <2>3. QED BY <1>1, <1>2, <1>3, <2>1, <2>2
<1>6. ASSUME NEW d \in Client,
             Accept(d) \/ SendFails(d) \/ Leave(d) \/ (Read(d) /\ d # c)
      PROVE  Has(c, v)'
  <2>1. conn[c] # "off"
    BY <1>1 DEF ListInv
  <2>2. d # c
    BY <1>6, <2>1 DEF Accept, SendFails, Leave
  <2>3. got'[c] = got[c] /\ queue'[c] = queue[c]
    BY <1>1, <1>6, <2>2 DEF Accept, Greeting, SendFails, Leave, Read, TypeOK
  <2>4. QED BY <1>2, <2>3
<1>7. CASE UNCHANGED <<got, queue>>
  BY <1>2, <1>7
<1>8. QED
  BY <1>4, <1>5, <1>6, <1>7
  DEF vars, Next, Change, Changed, Notify, Broadcast, Finish, Handler, AskToJoin, Push,
      Disconnected, RemoveConnection, SendTask, SayGoodbye, RecvEnds

\* Nobody of the list loses a state: what ListedCatchesUp rests on beside the
\* tasks being polled.  A try_send, or a list that a leaver may shorten during a
\* broadcast (ws_server.rs holds its lock meanwhile), would break it.
THEOREM NobodyIsLeftOut == Spec => NothingLost
<1> DEFINE Step(c) ==
      Listed(c) /\ Listed(c)' /\ (Due(c) \/ seen' # seen) => Due(c)'
<1>1. Inv /\ HoldInv /\ SendInv /\ [Next]_vars => [\A c \in open \cap open' : Step(c)]_vars
  <2> SUFFICES ASSUME Inv, HoldInv, SendInv, [Next]_vars, NEW c \in open \cap open',
                      Listed(c), Listed(c)', Due(c) \/ seen' # seen
               PROVE  Due(c)'
    OBVIOUS
  <2> USE Actors DEF Inv, watchVars, listVars, castVars, taskVars
  <2>1. c \in Client /\ seen \in Version /\ cast[Watcher].next \in Nat \ {0}
    BY DEF TypeOK, Casting
  <2>2. DOMAIN conns = 1 .. Len(conns) /\ Len(conns) \in Nat
    BY DEF TypeOK
  <2>3. CASE Changed
    <3>1. cast'[Watcher].pc = "send" /\ cast'[Watcher].next = 1 /\ conns' = conns
      BY <2>3 DEF Changed, TypeOK
    <3>2. \A i \in DOMAIN conns : i >= 1
      BY <2>2
    <3>3. QED BY <3>1, <3>2 DEF Listed, Due
  <2>4. CASE seen' = seen /\ Has(c, seen)
    BY <2>1, <2>4, HasKept DEF Due, Has
  <2>5. ASSUME seen' = seen, cast[Watcher].pc = "send",
               NEW i \in DOMAIN conns, i >= cast[Watcher].next, conns[i] = c
        PROVE  Due(c)'
    <3>1. CASE conns' = conns /\ cast'[Watcher] = cast[Watcher]
      BY <2>5, <3>1 DEF Due
    <3>2. CASE SendNext(Watcher)
      <4>1. /\ cast'[Watcher].pc = "send" /\ cast'[Watcher].next = cast[Watcher].next + 1
            /\ conns' = conns
        BY <2>5, <3>2 DEF SendNext, TypeOK, Casting
      <4>2. CASE i = cast[Watcher].next
        <5>1. ~ReceiverDropped(c)
          BY DEF ReceiverDropped, SendInv
        <5>2. queue'[c] = Append(queue[c], seen)
          BY <2>1, <2>5, <3>2, <4>2, <5>1 DEF SendNext, Sent, HoldInv, TypeOK
        <5>3. Has(c, seen)'
          <6>1. seen # Other /\ seen >= seen /\ seen \in Message
            BY <2>1, StateFacts DEF Message
          <6>2. queue[c] \in Seq(Message)
            BY <2>1, ChannelTypes
          <6>3. /\ Len(queue[c]) + 1 \in DOMAIN queue'[c]
                /\ queue'[c][Len(queue[c]) + 1] = seen
            BY <5>2, <6>1, <6>2, AppendFacts
          <6>4. QED BY <2>5, <6>1, <6>3 DEF Has
        <5>4. QED BY <5>3 DEF Due
      <4>3. CASE i # cast[Watcher].next
        <5>1. i >= cast[Watcher].next + 1
          BY <2>1, <2>2, <2>5, <4>3
        <5>2. QED BY <2>5, <4>1, <5>1 DEF Due
      <4>4. QED BY <4>2, <4>3
    <3>3. CASE Finish(Watcher)
      BY <2>1, <2>2, <2>5, <3>3 DEF Finish
    <3>4. ASSUME NEW k \in Caster, k # Watcher, SendNext(k) \/ Finish(k) PROVE Due(c)'
      <4>1. conns' = conns /\ cast'[Watcher] = cast[Watcher]
        BY <3>4 DEF SendNext, Finish, TypeOK
      <4>2. QED BY <3>1, <4>1
    <3>5. ASSUME NEW k \in Notifier, Notify(k) PROVE Due(c)'
      <4>1. conns' = conns /\ cast'[Watcher] = cast[Watcher]
        BY <3>5, CastPc DEF Notify
      <4>2. QED BY <3>1, <4>1
    <3>6. ASSUME NEW d \in Client, Push(d) \/ RemoveConnection(d) PROVE Due(c)'
      <4>1. cast' = cast /\ ~Granted(lock, Watcher)
        BY <3>6, NoWriter DEF Push, RemoveConnection
      <4>2. cast[Watcher].next = 1
        BY <2>1, <2>5, <4>1 DEF HoldInv
      <4>3. TypeOK'
        BY StepInv
      <4>4. \A j \in DOMAIN conns' : j >= 1
        BY <4>3 DEF TypeOK
      <4>5. QED BY <2>5, <4>1, <4>2, <4>4 DEF Listed, Due
    <3>7. QED
      BY <2>5, <3>1, <3>2, <3>3, <3>4, <3>5, <3>6
      DEF vars, Next, Change, Changed, Broadcast, Accept, Handler, AskToJoin, Disconnected,
          SendTask, SayGoodbye, SendFails, RecvEnds, Read, Leave
  <2>6. CASE seen' = seen
    BY <2>4, <2>5, <2>6 DEF Due
  <2>7. QED
    BY <2>3, <2>6
    DEF vars, Next, Change, Notify, Broadcast, SendNext, Finish, Accept, Handler, AskToJoin,
        Push, Disconnected, RemoveConnection, SendTask, SayGoodbye, SendFails, RecvEnds,
        Read, Leave
<1>2. QED BY <1>1, HoldInvariance, PTL DEF Spec, NothingLost

-----------------------------------------------------------------------------
(* What LeaversAreRemoved rests on                                         *)

Actor == Caster \cup Client

\* p is between its read() or write() of the lock and the drop of the guard.
Wants(p) ==
  \/ p \in Caster /\ cast[p].pc = "send"
  \/ p \in Client /\ conn[p] \in {"push", "remove"}

\* The queue of the lock holds whom the code has waiting, each once.
ExactInv ==
  /\ \A i, j \in DOMAIN lock : i < j => lock[i].who # lock[j].who
  /\ \A p \in Actor : Wants(p) <=> InLock(p)

\* Who is listed was given its send task.
GivenInv == \A c \in Client : Listed(c) => sender[c] # "none"

\* The send task of c has a message in its hand: a read or a leave of the client ends it.
Writing(c) == sender[c] = "recv" /\ queue[c] # <<>>

\* Whoever is first in the lock's queue can go on: a handler changes the list, a
\* broadcast finds room in the next channel, or its receiver gone, or a send task that is
\* about to make room or to go; a broadcast never waits with the lock in hand on
\* somebody who waits for the lock (send_event, add_connection, remove_connection).
LockMoves ==
  /\ \A p \in Actor : Wants(p) => InLock(p)
  /\ lock # <<>> =>
       LET p == lock[1].who IN
         /\ p \in Actor /\ Wants(p)
         /\ p \in Caster /\ cast[p].next <= Len(conns) =>
              LET c == conns[cast[p].next] IN CanSend(c) \/ Writing(c)

LEMMA AskedExact ==
  ASSUME TypeOK, ExactInv, NEW e \in Entry, ~Wants(e.who), lock' = Asked(lock, e),
         \A p \in Actor : Wants(p)' <=> Wants(p) \/ p = e.who
  PROVE  ExactInv'
<1>1. /\ DOMAIN lock = 1 .. Len(lock) /\ DOMAIN lock' = 1 .. Len(lock) + 1
      /\ Len(lock) \in Nat /\ lock'[Len(lock) + 1] = e
      /\ \A i \in 1 .. Len(lock) : lock'[i] = lock[i]
  BY AskedFacts DEF TypeOK
<1>2. e.who \in Actor
  BY DEF Entry, Actor
<1>3. \A i \in DOMAIN lock : lock[i].who # e.who
  BY <1>2 DEF ExactInv, InLock
<1>4. \A p : InLock(p)' <=> InLock(p) \/ p = e.who
  BY <1>1 DEF InLock
<1>5. \A i, j \in DOMAIN lock' : i < j => lock'[i].who # lock'[j].who
  <2> SUFFICES ASSUME NEW i \in 1 .. Len(lock) + 1, NEW j \in 1 .. Len(lock) + 1, i < j
               PROVE  lock'[i].who # lock'[j].who
    BY <1>1
  <2>1. i \in 1 .. Len(lock) /\ lock'[i] = lock[i]
    BY <1>1
  <2>2. CASE j \in 1 .. Len(lock)
    BY <1>1, <2>1, <2>2 DEF ExactInv
  <2>3. CASE j = Len(lock) + 1
    BY <1>1, <1>3, <2>1, <2>3
  <2>4. QED BY <1>1, <2>2, <2>3
<1>6. QED BY <1>4, <1>5 DEF ExactInv

LEMMA LeftExact ==
  ASSUME TypeOK, ExactInv, NEW p \in Actor, Wants(p), lock' = Left(lock, p),
         \A q \in Actor : Wants(q)' <=> Wants(q) /\ q # p
  PROVE  ExactInv'
<1> DEFINE n == Place(lock, p)
<1>1. n \in DOMAIN lock /\ lock[n].who = p /\ InLock(p)
  BY DEF ExactInv, Place, InLock
<1>2. lock' = RemoveAt(lock, n) /\ lock \in Seq(Entry)
  BY <1>1 DEF Left, Queued, InLock, TypeOK
<1> HIDE DEF n
<1>3. /\ DOMAIN lock = 1 .. Len(lock) /\ Len(lock) \in Nat /\ DOMAIN lock' = 1 .. Len(lock) - 1
      /\ \A i \in 1 .. Len(lock) - 1 : lock'[i] = IF i < n THEN lock[i] ELSE lock[i + 1]
  BY <1>1, <1>2, RemoveAtFacts
<1>4. \A i \in DOMAIN lock' : lock'[i].who # p
  <2> SUFFICES ASSUME NEW i \in 1 .. Len(lock) - 1 PROVE lock'[i].who # p
    BY <1>3
  <2>1. CASE i < n
    BY <1>1, <1>3, <2>1 DEF ExactInv
  <2>2. CASE ~(i < n)
    <3>1. n < i + 1 /\ i + 1 \in DOMAIN lock
      BY <1>1, <1>3, <2>2
    <3>2. QED BY <1>1, <1>3, <2>2, <3>1 DEF ExactInv
  <2>3. QED BY <2>1, <2>2
<1>5. \A q : InLock(q)' => InLock(q)
  BY <1>1, LeftFacts DEF InLock, TypeOK
<1>6. \A q : q # p /\ InLock(q) => InLock(q)'
  BY <1>1, LeftFacts DEF TypeOK
<1>7. \A q \in Actor : Wants(q)' <=> InLock(q)'
  BY <1>4, <1>5, <1>6 DEF ExactInv, InLock
<1>8. \A i, j \in DOMAIN lock' : i < j => lock'[i].who # lock'[j].who
  <2> TAKE i, j \in DOMAIN lock'
  <2>1. PICK k \in DOMAIN lock :
          /\ lock'[i] = lock[k]
          /\ i < j => \E l \in DOMAIN lock : k < l /\ lock'[j] = lock[l]
    BY <1>1, LeftFacts DEF TypeOK
  <2>2. QED BY <2>1 DEF ExactInv
<1>9. QED BY <1>7, <1>8 DEF ExactInv

LEMMA SameExact ==
  ASSUME ExactInv, lock' = lock, \A p \in Actor : Wants(p)' <=> Wants(p)
  PROVE  ExactInv'
  BY DEF ExactInv, InLock

LEMMA StepExact == TypeOK /\ ExactInv /\ [Next]_vars => ExactInv'
<1> SUFFICES ASSUME TypeOK, ExactInv, [Next]_vars PROVE ExactInv'
  OBVIOUS
<1> USE DEF watchVars, listVars, castVars, taskVars
<1>1. CASE Changed
  <2>1. Reader(Watcher) \in Entry /\ Reader(Watcher).who = Watcher
    BY Actors, EntryType
  <2>2. cast'[Watcher].pc = "send" /\ \A k \in Caster : k # Watcher => cast'[k] = cast[k]
    BY <1>1, Actors DEF Changed, TypeOK
  <2>3. ~Wants(Watcher)
    BY <1>1, Actors DEF Changed, Wants
  <2>4. \A p \in Actor : Wants(p)' <=> Wants(p) \/ p = Watcher
    BY <1>1, <2>2, Actors DEF Changed, Wants
  <2>5. QED BY <1>1, <2>1, <2>3, <2>4, AskedExact DEF Changed
<1>2. ASSUME NEW k \in Notifier, Notify(k) PROVE ExactInv'
  <2>1. k \in Caster /\ k \notin Client /\ Reader(k) \in Entry /\ Reader(k).who = k
    BY Actors, EntryType
  <2>2. cast'[k].pc = "send" /\ \A l \in Caster : l # k => cast'[l] = cast[l]
    BY <1>2, <2>1 DEF Notify, TypeOK, Casting
  <2>3. ~Wants(k)
    BY <1>2, <2>1 DEF Notify, Wants
  <2>4. \A p \in Actor : Wants(p)' <=> Wants(p) \/ p = k
    BY <1>2, <2>1, <2>2 DEF Notify, Wants
  <2>5. QED BY <1>2, <2>1, <2>3, <2>4, AskedExact DEF Notify
<1>3. ASSUME NEW k \in Caster, SendNext(k) PROVE ExactInv'
  <2>1. \A l \in Caster : cast'[l].pc = cast[l].pc
    BY <1>3, CastNext DEF SendNext
  <2>2. \A p \in Actor : Wants(p)' <=> Wants(p)
    BY <1>3, <2>1 DEF SendNext, Wants
  <2>3. QED BY <1>3, <2>2, SameExact DEF SendNext
<1>4. ASSUME NEW k \in Caster, Finish(k) PROVE ExactInv'
  <2>1. k \notin Client /\ k \in Actor
    BY Actors DEF Actor
  <2>2. cast[k].pc = "send" /\ cast'[k].pc # "send"
        /\ \A l \in Caster : l # k => cast'[l] = cast[l]
    BY <1>4 DEF Finish, Holds, Resting, TypeOK
  <2>3. Wants(k) /\ \A p \in Actor : Wants(p)' <=> Wants(p) /\ p # k
    BY <1>4, <2>1, <2>2 DEF Finish, Wants
  <2>4. QED BY <1>4, <2>1, <2>3, LeftExact DEF Finish
<1>5. ASSUME NEW c \in Client, AskToJoin(c) \/ Disconnected(c) PROVE ExactInv'
  <2>1. c \notin Caster /\ Writer(c) \in Entry /\ Writer(c).who = c
    BY Actors, EntryType
  <2>2. /\ conn[c] \notin {"push", "remove"} /\ conn'[c] \in {"push", "remove"}
        /\ \A d \in Client : d # c => conn'[d] = conn[d]
    BY <1>5 DEF AskToJoin, Disconnected, TypeOK
  <2>3. ~Wants(c) /\ \A p \in Actor : Wants(p)' <=> Wants(p) \/ p = c
    BY <1>5, <2>1, <2>2 DEF AskToJoin, Disconnected, Wants
  <2>4. QED BY <1>5, <2>1, <2>3, AskedExact DEF AskToJoin, Disconnected
<1>6. ASSUME NEW c \in Client, Push(c) \/ RemoveConnection(c) PROVE ExactInv'
  <2>1. c \notin Caster /\ c \in Actor
    BY Actors DEF Actor
  <2>2. /\ conn[c] \in {"push", "remove"} /\ conn'[c] \notin {"push", "remove"}
        /\ \A d \in Client : d # c => conn'[d] = conn[d]
    BY <1>6 DEF Push, RemoveConnection, TypeOK
  <2>3. Wants(c) /\ \A p \in Actor : Wants(p)' <=> Wants(p) /\ p # c
    BY <1>6, <2>1, <2>2 DEF Push, RemoveConnection, Wants
  <2>4. QED BY <1>6, <2>1, <2>3, LeftExact DEF Push, RemoveConnection
<1>7. ASSUME NEW c \in Client, Accept(c) PROVE ExactInv'
  <2>1. \A d \in Client : conn'[d] \in {"push", "remove"} <=> conn[d] \in {"push", "remove"}
    BY <1>7 DEF Accept, TypeOK
  <2>2. \A p \in Actor : Wants(p)' <=> Wants(p)
    BY <1>7, <2>1 DEF Accept, Wants
  <2>3. QED BY <1>7, <2>2, SameExact DEF Accept
<1>8. ASSUME UNCHANGED <<lock, cast, conn>> PROVE ExactInv'
  BY <1>8, SameExact DEF Wants
<1>9. QED
  BY <1>1, <1>2, <1>3, <1>4, <1>5, <1>6, <1>7, <1>8
  DEF vars, Next, Change, Broadcast, Handler, SendTask, SayGoodbye, SendFails, RecvEnds, Read,
      Leave

LEMMA StepGiven == Inv /\ GivenInv /\ [Next]_vars => GivenInv'
<1> SUFFICES ASSUME Inv, GivenInv, [Next]_vars PROVE GivenInv'
  OBVIOUS
<1> USE DEF Inv, watchVars, listVars, castVars, taskVars
<1>1. ASSUME NEW c \in Client, Push(c) PROVE GivenInv'
  <2>1. /\ DOMAIN conns = 1 .. Len(conns) /\ DOMAIN conns' = 1 .. Len(conns) + 1
        /\ Len(conns) \in Nat /\ conns'[Len(conns) + 1] = c
        /\ \A i \in 1 .. Len(conns) : conns'[i] = conns[i]
    BY <1>1, AppendFacts DEF Push, TypeOK
  <2>2. \A d \in Client : Listed(d)' => Listed(d) \/ d = c
    BY <2>1 DEF Listed
  <2>3. QED BY <1>1, <2>2 DEF Push, GivenInv, TypeOK
<1>2. ASSUME NEW c \in Client, RemoveConnection(c) PROVE GivenInv'
  <2> DEFINE n == CHOOSE i \in DOMAIN conns : conns[i] = c
  <2>1. n \in DOMAIN conns /\ conns' = RemoveAt(conns, n)
    BY <1>2 DEF RemoveConnection, ListInv, Listed
  <2> HIDE DEF n
  <2>2. \A d \in Client : Listed(d)' => Listed(d)
    BY <2>1, PlacesBefore DEF Listed, TypeOK
  <2>3. QED BY <1>2, <2>2 DEF RemoveConnection, GivenInv
<1>3. ASSUME NEW c \in Client, SendTask(c) PROVE GivenInv'
  BY <1>3 DEF SendTask, SayGoodbye, SendFails, GivenInv, Listed, TypeOK
<1>4. CASE UNCHANGED <<conns, sender>>
  BY <1>4 DEF GivenInv, Listed
<1>5. QED
  BY <1>1, <1>2, <1>3, <1>4
  DEF vars, Next, Change, Changed, Notify, Broadcast, SendNext, Finish, Accept, Handler,
      AskToJoin, Disconnected, RecvEnds, Read, Leave

\* The lock over the list of connections always moves on, whatever clients join,
\* read slowly or leave, and however many broadcasts there are.
THEOREM LockMovesOn == Spec => []LockMoves
<1>1. Init => ExactInv /\ GivenInv
  BY Actors DEF Init, Resting, ExactInv, GivenInv, Wants, Actor, InLock, Listed
<1>2. TypeOK /\ ExactInv /\ GivenInv => LockMoves
  <2> SUFFICES ASSUME TypeOK, ExactInv, GivenInv, lock # <<>> PROVE LockMoves
    BY DEF LockMoves, ExactInv
  <2> DEFINE p == lock[1].who
  <2>1. 1 \in DOMAIN lock /\ lock[1] \in Entry
    BY DEF TypeOK
  <2>2. p \in Actor /\ Wants(p)
    BY <2>1 DEF Entry, Actor, ExactInv, InLock
  <2>3. ASSUME p \in Caster, cast[p].next <= Len(conns)
        PROVE  LET c == conns[cast[p].next] IN CanSend(c) \/ Writing(c)
    <3> DEFINE c == conns[cast[p].next]
    <3>1. cast[p].next \in 1 .. Len(conns)
      BY <2>3 DEF TypeOK, Casting
    <3>2. c \in Client /\ Listed(c)
      BY <3>1, ElementOfSeq DEF TypeOK, Listed
    <3>3. sender[c] \in {"recv", "done"}
      BY <3>2 DEF TypeOK, TaskState, GivenInv
    <3>4. Len(queue[c]) < Capacity \/ queue[c] # <<>>
      BY <3>2, Constants
    <3>5. QED BY <3>3, <3>4 DEF CanSend, ReceiverDropped, Writing
  <2>4. QED BY <2>2, <2>3 DEF LockMoves, ExactInv
<1>3. QED BY <1>1, <1>2, Invariance, StepExact, StepGiven, PTL DEF Spec, Inv

-----------------------------------------------------------------------------
(* The life of the services                                                *)

USE DEF joinedVars, binaryVars, Move, GuiMoves, Alive

LEMMA LifeInitType == LifeInit => LifeTypeOK
  BY DEF LifeInit, LifeTypeOK

\* The end of a process keeps the types of what it touches.
LEMMA GoneType ==
  ASSUME LifeTypeOK, NEW i \in Service, Gone(i)
  PROVE  /\ server' \in [Service -> {"off", "binding", "listening", "ended"}]
         /\ vpnTask' \in [Service -> {"off", "running", "ended"}]
         /\ gui' \in [Service -> {"off", "checking", "running", "ended"} \cup Updating]
         /\ writing' \subseteq Service
  BY DEF LifeTypeOK, Gone

\* The variables keep their types, whatever the services, their GUIs and
\* helpers do.
LEMMA LifeTypeStep == LifeTypeOK /\ [LifeNext]_lifeVars => LifeTypeOK'
<1> SUFFICES ASSUME LifeTypeOK, [LifeNext]_lifeVars PROVE LifeTypeOK'
  OBVIOUS
<1>1. CASE UNCHANGED lifeVars
  BY <1>1 DEF LifeTypeOK, lifeVars
<1>2. ASSUME NEW i \in Service, LaunchGui(i) \/ Run(i) \/ LoadEnv(i) PROVE LifeTypeOK'
  <2>1. CASE LaunchGui(i)
    BY <2>1 DEF LifeTypeOK, LaunchGui, PkexecAsks
  <2>2. CASE Run(i)
    BY <2>2 DEF LifeTypeOK, Run
  <2>3. CASE LoadEnv(i)
    BY <2>3 DEF LifeTypeOK, LoadEnv
  <2>4. QED BY <1>2, <2>1, <2>2, <2>3
<1>3. ASSUME NEW i \in Service, LoadEnvFails(i) \/ Kill(i) \/ UnlockFails(i) \/ Exit(i)
      PROVE  LifeTypeOK'
  <2>1. Gone(i) /\ main' \in [Service -> {"off", "authorising", "refused", "spawned",
          "serving", "cancelled", "unlocked", "exited", "failed", "aborted", "killed"}]
    BY <1>3 DEF LifeTypeOK, LoadEnvFails, Kill, UnlockFails, Exit
  <2>2. UNCHANGED <<lockFile, asked, signalled, gpgui>>
    BY <1>3 DEF LoadEnvFails, Kill, UnlockFails, Exit
  <2>3. QED BY <2>1, <2>2, GoneType DEF LifeTypeOK
<1>4. ASSUME NEW i \in Service, ServerStep(i) PROVE LifeTypeOK'
  BY <1>4 DEF LifeTypeOK, ServerStep, Listen, ListenFails, ServerStops
<1>5. ASSUME NEW i \in Service,
             CheckVersion(i) \/ UpdateClicked(i) \/ Downloaded(i) \/ DownloadFails(i)
             \/ InstallRefused(i) \/ GuiRestarts(i) \/ GuiExits(i)
      PROVE  LifeTypeOK'
  BY <1>5 DEF LifeTypeOK, Updating, CheckVersion, UpdateClicked, Downloaded, DownloadFails,
              InstallRefused, GuiRestarts, GuiExits
<1>6. ASSUME NEW i \in Service, Install(i) \/ Installed(i) \/ HelperExits(i) PROVE LifeTypeOK'
  <2>1. CASE Install(i)
    BY <2>1 DEF LifeTypeOK, Updating, Install
  <2>2. CASE Installed(i)
    BY <2>2 DEF LifeTypeOK, Updating, Installed
  <2>3. CASE HelperExits(i)
    BY <2>3 DEF LifeTypeOK, Updating, HelperExits
  <2>4. QED BY <1>6, <2>1, <2>2, <2>3
<1>7. ASSUME NEW i \in Service, Signal(i) \/ Cancel(i) \/ VpnTaskEnds(i) \/ Unlock(i)
      PROVE  LifeTypeOK'
  BY <1>7 DEF LifeTypeOK, Signal, Cancel, VpnTaskEnds, Unlock
<1>8. QED BY <1>1, <1>2, <1>3, <1>4, <1>5, <1>6, <1>7 DEF LifeNext, Ending

\* Every variable keeps its type, for any number of services.
THEOREM LifeTypeCorrect == LifeSpec => []LifeTypeOK
<1>1. QED BY LifeInitType, LifeTypeStep, PTL DEF LifeSpec

-----------------------------------------------------------------------------
\* Behind the unlock the server, which writes the file, has ended, and the
\* file does not name the service.
LockFileInv ==
  \A i \in Service :
    main[i] \in {"unlocked", "exited", "failed"} => server[i] = "ended" /\ lockFile # i

LEMMA LockFileStep == LifeTypeOK /\ LockFileInv /\ [LifeNext]_lifeVars => LockFileInv'
<1> SUFFICES ASSUME LifeTypeOK, LockFileInv, [LifeNext]_lifeVars PROVE LockFileInv'
  OBVIOUS
<1>1. CASE UNCHANGED <<main, server, lockFile>>
  BY <1>1 DEF LockFileInv
<1>2. ASSUME NEW i \in Service, LaunchGui(i) \/ Run(i) \/ LoadEnv(i) PROVE LockFileInv'
  BY <1>2 DEF LifeTypeOK, LockFileInv, LaunchGui, PkexecAsks, Run, LoadEnv
<1>3. ASSUME NEW i \in Service, LoadEnvFails(i) \/ Kill(i) PROVE LockFileInv'
  BY <1>3 DEF LifeTypeOK, LockFileInv, LoadEnvFails, Kill, Gone
<1>4. ASSUME NEW i \in Service, ServerStep(i) PROVE LockFileInv'
  BY <1>4 DEF LifeTypeOK, LockFileInv, ServerStep, Listen, ListenFails, ServerStops
<1>5. ASSUME NEW i \in Service, Cancel(i) PROVE LockFileInv'
  BY <1>5 DEF LifeTypeOK, LockFileInv, Cancel
<1>6. ASSUME NEW i \in Service, Unlock(i) PROVE LockFileInv'
  BY <1>6, NoServiceAssumption DEF LifeTypeOK, LockFileInv, Unlock, Joined, NoServiceAssumption
<1>7. ASSUME NEW i \in Service, UnlockFails(i) \/ Exit(i) PROVE LockFileInv'
  BY <1>7, NoServiceAssumption DEF LifeTypeOK, LockFileInv, UnlockFails, Exit, Gone, NoServiceAssumption
<1>8. UNCHANGED <<main, server, lockFile>>
      \/ \E i \in Service :
           \/ LaunchGui(i) \/ Run(i) \/ LoadEnv(i) \/ LoadEnvFails(i) \/ Kill(i)
           \/ ServerStep(i) \/ Cancel(i) \/ Unlock(i) \/ UnlockFails(i) \/ Exit(i)
  BY DEF LifeNext, Ending, lifeVars, CheckVersion, UpdateClicked, Downloaded, DownloadFails, Install,
         InstallRefused, Installed, HelperExits, GuiRestarts, GuiExits, Signal, VpnTaskEnds
<1>9. QED BY <1>1, <1>2, <1>3, <1>4, <1>5, <1>6, <1>7, <1>8

\* No service that ended in an orderly way is named by the lock file, however
\* many others write and remove it.
THEOREM LockFresh == LifeSpec => []NoStaleLock
<1>1. LifeInit => LockFileInv
  BY DEF LifeInit, LockFileInv
<1>2. LockFileInv => NoStaleLock
  BY DEF LockFileInv, NoStaleLock
<1>3. QED BY <1>1, <1>2, LifeTypeCorrect, LockFileStep, PTL DEF LifeSpec

\* In whatever order the tasks of a service end, Cli::run has been told, by a
\* message that waits for it if it does not listen yet; the VPN task ends only
\* after run has cancelled it, and run never joins a task that was not started
\* (cli.rs, run and shutdown_tx).  EndsWhenAsked adds that run then ends.
EndHeard ==
  \A i \in Service : Alive(i) =>
    /\ gui[i] = "ended" \/ server[i] = "ended" => i \in asked
    /\ server[i] # "off" /\ vpnTask[i] # "off"
    /\ vpnTask[i] = "ended" => main[i] \in {"cancelled", "unlocked"}

\* Nothing of a service is there before it runs.
EndInv ==
  EndHeard /\ \A i \in Service : main[i] \in {"off", "authorising"} => gui[i] = "off"

\* A step of one service that leaves the others as they are.
LEMMA OneEnds ==
  ASSUME EndInv, NEW i \in Service, asked \subseteq asked',
         \A j \in Service : j # i => /\ main'[j] = main[j] /\ server'[j] = server[j]
                                     /\ vpnTask'[j] = vpnTask[j] /\ gui'[j] = gui[j],
         main'[i] \in {"off", "authorising"} => gui'[i] = "off",
         Alive(i)' => /\ gui'[i] = "ended" \/ server'[i] = "ended" => i \in asked'
                      /\ server'[i] # "off" /\ vpnTask'[i] # "off"
                      /\ vpnTask'[i] = "ended" => main'[i] \in {"cancelled", "unlocked"}
  PROVE  EndInv'
  BY DEF EndInv, EndHeard

LEMMA EndStep == LifeTypeOK /\ EndInv /\ [LifeNext]_lifeVars => EndInv'
<1> SUFFICES ASSUME LifeTypeOK, EndInv, [LifeNext]_lifeVars PROVE EndInv'
  OBVIOUS
<1> USE DEF LifeTypeOK
<1>1. ASSUME NEW i \in Service, LaunchGui(i) \/ LoadEnv(i) PROVE EndInv'
  <2>1. CASE LaunchGui(i)
    BY <2>1, OneEnds DEF LaunchGui, PkexecAsks, EndInv
  <2>2. CASE LoadEnv(i)
    BY <2>2, OneEnds DEF LoadEnv, EndInv, EndHeard
  <2>3. QED BY <1>1, <2>1, <2>2
<1>2. ASSUME NEW i \in Service, Run(i) PROVE EndInv'
  <2>1. gui[i] = "off" /\ gui' = gui /\ asked' = asked
    BY <1>2 DEF Run, EndInv
  <2>2. CASE CheckHealth
    BY <1>2, <2>1, <2>2, OneEnds DEF Run
  <2>3. CASE ~CheckHealth
    BY <1>2, <2>1, <2>3, OneEnds DEF Run
  <2>4. QED BY <2>2, <2>3
<1>3. ASSUME NEW i \in Service, LoadEnvFails(i) \/ Kill(i) \/ UnlockFails(i) \/ Exit(i)
      PROVE  EndInv'
  <2>1. Gone(i) /\ asked' = asked /\ main'[i] \in {"aborted", "killed", "failed", "exited"}
        /\ \A j \in Service : j # i => main'[j] = main[j]
    BY <1>3 DEF LoadEnvFails, Kill, UnlockFails, Exit
  <2>2. QED BY <2>1, OneEnds DEF Gone
<1>4. ASSUME NEW i \in Service, ServerStep(i) PROVE EndInv'
  BY <1>4, OneEnds DEF ServerStep, Listen, ListenFails, ServerStops, EndInv, EndHeard
<1>5. ASSUME NEW i \in Service,
             CheckVersion(i) \/ UpdateClicked(i) \/ Downloaded(i) \/ DownloadFails(i)
             \/ InstallRefused(i) \/ GuiRestarts(i) \/ Install(i) \/ Installed(i)
      PROVE  EndInv'
  <2>1. UNCHANGED <<main, server, vpnTask, asked>>
        /\ \A j \in Service : j # i => gui'[j] = gui[j]
    BY <1>5 DEF CheckVersion, UpdateClicked, Downloaded, DownloadFails, InstallRefused,
                GuiRestarts, Install, Installed
  <2>2. gui'[i] = gui[i] \/ (gui[i] # "off" /\ gui'[i] # "ended")
    BY <1>5 DEF CheckVersion, UpdateClicked, Downloaded, DownloadFails, InstallRefused,
                GuiRestarts, Install, Installed
  <2>3. QED BY <2>1, <2>2, OneEnds DEF EndInv, EndHeard
<1>6. ASSUME NEW i \in Service, HelperExits(i) \/ GuiExits(i) PROVE EndInv'
  <2>1. UNCHANGED <<main, server, vpnTask>> /\ asked \subseteq asked'
        /\ \A j \in Service : j # i => gui'[j] = gui[j]
    BY <1>6 DEF HelperExits, GuiExits
  <2>2. gui[i] # "off" /\ (gui'[i] = "ended" => i \in asked')
    BY <1>6 DEF HelperExits, GuiExits, Updating
  <2>3. QED BY <2>1, <2>2, OneEnds DEF EndInv, EndHeard
<1>7. ASSUME NEW i \in Service, Cancel(i) \/ Unlock(i) PROVE EndInv'
  <2>1. UNCHANGED <<server, vpnTask, gui, asked>> /\ main'[i] \in {"cancelled", "unlocked"}
        /\ Alive(i) /\ \A j \in Service : j # i => main'[j] = main[j]
    BY <1>7 DEF Cancel, Unlock
  <2>2. QED BY <2>1, OneEnds DEF EndInv, EndHeard
<1>8. ASSUME NEW i \in Service, VpnTaskEnds(i) PROVE EndInv'
  BY <1>8, OneEnds DEF VpnTaskEnds, EndInv, EndHeard
<1>9. ASSUME UNCHANGED <<main, server, vpnTask, gui, asked>> PROVE EndInv'
  BY <1>9 DEF EndInv, EndHeard
<1>10. QED
  BY <1>1, <1>2, <1>3, <1>4, <1>5, <1>6, <1>7, <1>8, <1>9
     DEF LifeNext, Ending, lifeVars, Signal

\* Cli::run misses no end of a task, and joins none that was not started.
THEOREM NoEndIsMissed == LifeSpec => []EndHeard
<1>1. LifeInit => EndInv
  BY DEF LifeInit, EndInv, EndHeard
<1>2. EndInv => EndHeard
  BY DEF EndInv
<1>3. QED BY <1>1, <1>2, LifeTypeCorrect, EndStep, PTL DEF LifeSpec
=============================================================================
