-------------------------- MODULE GpService_proofs --------------------------
(***************************************************************************)
(* Proofs about GpService for any number of requests: first what holds     *)
(* however the locks are granted, then what their queues guarantee.        *)
(***************************************************************************)
EXTENDS SequencesExt, SequenceTheorems, GpService, TLAPS

LEMMA MaxReqType == MaxReq \in Nat \ {0}
  BY BoundsAssumption DEF BoundsAssumption

USE MaxReqType
USE DEF Req, None, sharedVars, lockVars, reqVars, vpnVars

LEMMA InitIInv == Init => IInv
<1> SUFFICES ASSUME Init PROVE IInv
  OBVIOUS
<1>1. TypeOK
  <2>1. stopping \in BOOLEAN /\ cancelled \subseteq Req
    BY DEF Init
  <2>2. pc \in [Req -> {"none"}] /\ thread \in [Req -> {"none"}]
    BY DEF Init
  <2>3. taken \in [Req -> 0 .. MaxReq]
    BY DEF Init
  <2>4. handle \in 0 .. MaxReq /\ rx \in 0 .. MaxReq /\ pipe \in 0 .. MaxReq
        /\ arrived \in 0 .. MaxReq /\ vpnState = "Disconnected"
    BY DEF Init
  <2>5. QED BY <2>1, <2>2, <2>3, <2>4 DEF TypeOK
<1>2. RequestInv
  BY DEF Init, RequestInv
<1>3. QED BY <1>1, <1>2 DEF IInv

LEMMA TypeStep == TypeOK /\ [Next]_vars => TypeOK'
<1> SUFFICES ASSUME TypeOK, [Next]_vars PROVE TypeOK'
  OBVIOUS
<1> USE DEF TypeOK
<1>1. ASSUME NEW k \in {"connect", "disconnect", "shutdown"}, Arrive(k) PROVE TypeOK'
  BY <1>1 DEF Arrive
<1>2. ASSUME NEW r \in Req, Check(r) PROVE TypeOK'
  BY <1>2 DEF Check, Move
<1>3. ASSUME NEW r \in Req, SetHandle(r) \/ Announce(r) PROVE TypeOK'
  <2>1. CASE SetHandle(r)
    BY <2>1 DEF SetHandle, Move
  <2>2. CASE Announce(r)
    BY <2>2 DEF Announce, Move
  <2>3. QED BY <1>3, <2>1, <2>2
<1>4. ASSUME NEW r \in Req, SetRx(r) PROVE TypeOK'
  BY <1>4 DEF SetRx, Move
<1>5. ASSUME NEW r \in Req, AskRx(r) \/ NothingToTake(r) \/ NotConnected(r) PROVE TypeOK'
  BY <1>5 DEF AskRx, NothingToTake, NotConnected, Move
<1>6. ASSUME NEW r \in Req, TakeRx(r) PROVE TypeOK'
  BY <1>6 DEF TakeRx, Move
<1>7. ASSUME NEW r \in Req, ReadHandle(r) PROVE TypeOK'
  BY <1>7 DEF ReadHandle, Move
<1>8. ASSUME NEW r \in Req, Cancel(r) \/ Finished(r) PROVE TypeOK'
  BY <1>8 DEF Cancel, Finished, Reached, Move
<1>9. ASSUME NEW r \in Req, ThreadAsks(r) \/ ThreadReads(r) \/ OpenPipe(r) PROVE TypeOK'
  <2>1. CASE ThreadAsks(r)
    BY <2>1 DEF ThreadAsks, Advance
  <2>2. CASE ThreadReads(r)
    BY <2>2 DEF ThreadReads, Advance
  <2>3. CASE OpenPipe(r)
    BY <2>3 DEF OpenPipe, Advance
  <2>4. QED BY <1>9, <2>1, <2>2, <2>3
<1>10. ASSUME NEW r \in Req, Connected(r) \/ Return(r) \/ NotifyDisconnected(r) PROVE TypeOK'
  BY <1>10 DEF Connected, Return, NotifyDisconnected, Advance
<1>11. ASSUME NEW r \in Req, AskToRemove(r) \/ RemoveHandle(r) \/ SendDone(r) PROVE TypeOK'
  <2>1. CASE AskToRemove(r)
    BY <2>1 DEF AskToRemove, Advance
  <2>2. CASE RemoveHandle(r)
    BY <2>2 DEF RemoveHandle, Advance
  <2>3. CASE SendDone(r)
    BY <2>3 DEF SendDone, Advance
  <2>4. QED BY <1>11, <2>1, <2>2, <2>3
<1>12. CASE UNCHANGED vars
  BY <1>12 DEF vars
<1>13. QED
  BY <1>1, <1>2, <1>3, <1>4, <1>5, <1>6, <1>7, <1>8, <1>9, <1>10, <1>11, <1>12
     DEF Next, ConnectTask, DisconnectTask, ThreadRuns

LEMMA RequestStep == TypeOK /\ RequestInv /\ [Next]_vars => RequestInv'
<1> SUFFICES ASSUME TypeOK, RequestInv, [Next]_vars PROVE RequestInv'
  OBVIOUS
<1> USE DEF TypeOK, RequestInv
<1>1. ASSUME NEW k \in {"connect", "disconnect", "shutdown"}, Arrive(k) PROVE RequestInv'
  BY <1>1 DEF Arrive
<1>2. ASSUME NEW r \in Req, Check(r) PROVE RequestInv'
  BY <1>2 DEF Check, Move
<1>3. ASSUME NEW r \in Req, SetHandle(r) \/ Announce(r) PROVE RequestInv'
  <2>1. CASE SetHandle(r)
    BY <2>1 DEF SetHandle, Move
  <2>2. CASE Announce(r)
    BY <2>2 DEF Announce, Move
  <2>3. QED BY <1>3, <2>1, <2>2
<1>4. ASSUME NEW r \in Req, SetRx(r) PROVE RequestInv'
  BY <1>4 DEF SetRx, Move
<1>5. ASSUME NEW r \in Req, AskRx(r) \/ NothingToTake(r) \/ NotConnected(r) PROVE RequestInv'
  <2>1. CASE AskRx(r)
    BY <2>1 DEF AskRx, Move
  <2>2. CASE NothingToTake(r)
    BY <2>2 DEF NothingToTake, Move
  <2>3. CASE NotConnected(r)
    BY <2>3 DEF NotConnected, Move
  <2>4. QED BY <1>5, <2>1, <2>2, <2>3
<1>6. ASSUME NEW r \in Req, TakeRx(r) PROVE RequestInv'
  BY <1>6 DEF TakeRx, Move
<1>7. ASSUME NEW r \in Req, ReadHandle(r) PROVE RequestInv'
  BY <1>7 DEF ReadHandle, Move
<1>8. ASSUME NEW r \in Req, Cancel(r) \/ Finished(r) PROVE RequestInv'
  <2>1. CASE Cancel(r)
    BY <2>1 DEF Cancel, Move
  <2>2. CASE Finished(r)
    BY <2>2 DEF Finished, Move
  <2>3. QED BY <1>8, <2>1, <2>2
<1>9. ASSUME NEW r \in Req, ThreadAsks(r) \/ ThreadReads(r) \/ OpenPipe(r) PROVE RequestInv'
  <2>1. CASE ThreadAsks(r)
    BY <2>1 DEF ThreadAsks, Advance
  <2>2. CASE ThreadReads(r)
    BY <2>2 DEF ThreadReads, Advance
  <2>3. CASE OpenPipe(r)
    BY <2>3 DEF OpenPipe, Advance
  <2>4. QED BY <1>9, <2>1, <2>2, <2>3
<1>10. ASSUME NEW r \in Req, Connected(r) \/ Return(r) \/ NotifyDisconnected(r) PROVE RequestInv'
  <2>1. CASE Connected(r)
    BY <2>1 DEF Connected, Advance
  <2>2. CASE Return(r)
    BY <2>2 DEF Return, InConnect, Advance
  <2>3. CASE NotifyDisconnected(r)
    BY <2>3 DEF NotifyDisconnected, Advance
  <2>4. QED BY <1>10, <2>1, <2>2, <2>3
<1>11. ASSUME NEW r \in Req, AskToRemove(r) \/ RemoveHandle(r) \/ SendDone(r) PROVE RequestInv'
  BY <1>11 DEF AskToRemove, RemoveHandle, SendDone, Advance
<1>12. CASE UNCHANGED vars
  BY <1>12 DEF vars
<1>13. QED
  BY <1>1, <1>2, <1>3, <1>4, <1>5, <1>6, <1>7, <1>8, <1>9, <1>10, <1>11, <1>12
     DEF Next, ConnectTask, DisconnectTask, ThreadRuns

\* What a step of a request's task, or of a thread, does to the program counters.
LEMMA TaskMoves ==
  ASSUME TypeOK, NEW r \in Req, NEW from, NEW to, Move(r, from, to)
  PROVE  /\ pc[r] = from /\ pc'[r] = to
         /\ \A s \in Req : s # r => pc'[s] = pc[s]
  BY DEF TypeOK, Move

LEMMA ThreadMoves ==
  ASSUME TypeOK, NEW r \in Req, NEW from, NEW to, Advance(r, from, to)
  PROVE  /\ thread[r] = from /\ thread'[r] = to
         /\ \A s \in Req : s # r => thread'[s] = thread[s]
  BY DEF TypeOK, Advance

LEMMA Inductive == Spec => []IInv
<1>1. IInv /\ [Next]_vars => IInv'
  BY TypeStep, RequestStep DEF IInv
<1>2. QED BY <1>1, InitIInv, PTL DEF Spec

\* Every variable of the VPN task keeps its type, whatever the clients send.
THEOREM TypeCorrect == Spec => []TypeOK
<1>1. IInv => TypeOK
  BY DEF IInv
<1>2. QED BY <1>1, Inductive, PTL

-----------------------------------------------------------------------------
(* The locks.  A queue holds readers and writers, each once; asking adds   *)
(* one behind the others, leaving takes one out, and neither takes a guard *)
(* from those who hold it.                                                 *)

Entries(R, W) == {Reader(p) : p \in R} \cup {Writer(p) : p \in W}
Queue(q, R, W) ==
  /\ q \in Seq(Entries(R, W))
  /\ \A p \in R \cup W : \E i \in DOMAIN q : q[i].who = p
  /\ \A i, j \in DOMAIN q : q[i].who = q[j].who => i = j

\* What leaving does to a queue.
LEMMA Shorter ==
  ASSUME NEW S, NEW q \in Seq(S), NEW p, NEW i \in DOMAIN q, q[i].who = p,
         \A j \in DOMAIN q : q[j].who = p => j = i
  PROVE  /\ Left(q, p) \in Seq(S) /\ Len(Left(q, p)) = Len(q) - 1
         /\ \A j \in DOMAIN Left(q, p) : Left(q, p)[j] = IF j < i THEN q[j] ELSE q[j + 1]
<1>1. Left(q, p) = SubSeq(q, 1, i - 1) \o SubSeq(q, i + 1, Len(q))
  <2>1. Place(q, p) = i
    BY DEF Place
  <2>2. QED BY <2>1 DEF Left, Queued, RemoveAt
<1>2. i \in 1 .. Len(q) /\ Len(q) \in Nat
  OBVIOUS
<1>3. PICK s \in Seq(S), t \in Seq(S) :
        /\ s = SubSeq(q, 1, i - 1) /\ t = SubSeq(q, i + 1, Len(q))
        /\ Len(s) = i - 1 /\ Len(t) = Len(q) - i
        /\ \A j \in 1 .. i - 1 : s[j] = q[j]
        /\ \A j \in 1 .. Len(q) - i : t[j] = q[i + j]
  <2>1. /\ SubSeq(q, 1, i - 1) \in Seq(S) /\ SubSeq(q, i + 1, Len(q)) \in Seq(S)
        /\ Len(SubSeq(q, 1, i - 1)) = i - 1 /\ Len(SubSeq(q, i + 1, Len(q))) = Len(q) - i
        /\ \A j \in 1 .. i - 1 : SubSeq(q, 1, i - 1)[j] = q[j]
        /\ \A j \in 1 .. Len(q) - i : SubSeq(q, i + 1, Len(q))[j] = q[i + j]
    BY <1>2
  <2>2. QED BY <2>1, Zenon
<1>4. /\ s \o t \in Seq(S)
      /\ Len(s \o t) = Len(s) + Len(t)
      /\ \A j \in 1 .. Len(s) + Len(t) :
           (s \o t)[j] = IF j <= Len(s) THEN s[j] ELSE t[j - Len(s)]
  BY ConcatProperties
<1>5. PICK w : /\ w = s \o t /\ w \in Seq(S) /\ Len(w) = Len(s) + Len(t)
              /\ \A j \in 1 .. Len(s) + Len(t) : w[j] = IF j <= Len(s) THEN s[j] ELSE t[j - Len(s)]
  BY <1>4, Zenon
<1>6. w \in Seq(S) /\ Len(w) = Len(q) - 1 /\ Len(s) = i - 1 /\ Len(s) + Len(t) = Len(q) - 1
  <2>1. (i - 1) + (Len(q) - i) = Len(q) - 1
    BY <1>2
  <2>2. QED BY <1>3, <1>5, <2>1
<1>7. ASSUME NEW j \in 1 .. Len(q) - 1 PROVE w[j] = IF j < i THEN q[j] ELSE q[j + 1]
  <2>1. w[j] = IF j <= i - 1 THEN s[j] ELSE t[j - (i - 1)]
    BY <1>5, <1>6
  <2>2. CASE j < i
    <3>1. j \in 1 .. i - 1 /\ j <= i - 1
      BY <1>2, <2>2
    <3>2. QED BY <1>3, <2>1, <2>2, <3>1
  <2>3. CASE ~(j < i)
    <3>1. j - (i - 1) \in 1 .. Len(q) - i /\ i + (j - (i - 1)) = j + 1
      BY <1>2, <2>3
    <3>2. t[j - (i - 1)] = q[j + 1]
      BY <1>3, <3>1
    <3>3. QED BY <1>2, <2>1, <2>3, <3>2
  <2>4. QED BY <2>2, <2>3
<1>8. DOMAIN w = 1 .. Len(q) - 1
  BY <1>6
<1>9. QED BY <1>1, <1>3, <1>5, <1>6, <1>7, <1>8

LEMMA AskQueue ==
  ASSUME NEW q, NEW R, NEW W, NEW R2, NEW W2, NEW p, NEW e, Queue(q, R, W),
         p \notin R \cup W,
         \/ e = Reader(p) /\ R2 = R \cup {p} /\ W2 = W
         \/ e = Writer(p) /\ R2 = R /\ W2 = W \cup {p}
  PROVE  /\ Queue(Asked(q, e), R2, W2)
         /\ \A s \in R \cup W : Granted(q, s) => Granted(Asked(q, e), s)
<1>1. /\ Entries(R, W) \subseteq Entries(R2, W2) /\ e \in Entries(R2, W2)
      /\ e.who = p /\ \A x \in Entries(R, W) : x.who \in R \cup W
      /\ R2 \cup W2 = R \cup W \cup {p}
  BY DEF Entries, Reader, Writer
<1>2. q \in Seq(Entries(R2, W2)) /\ q \in Seq(Entries(R, W)) /\ Len(q) \in Nat
      /\ DOMAIN q = 1 .. Len(q)
  BY <1>1 DEF Queue
<1>3. \A j \in 1 .. Len(q) : q[j].who # p
  BY <1>1, <1>2
<1>4. PICK n : n = Asked(q, e)
  OBVIOUS
<1>5. /\ n \in Seq(Entries(R2, W2)) /\ DOMAIN n = 1 .. Len(q) + 1
      /\ n[Len(q) + 1] = e /\ \A j \in 1 .. Len(q) : n[j] = q[j]
  <2> DEFINE S == Entries(R2, W2)
  <2>1. q \in Seq(S) /\ e \in S
    BY <1>1, <1>2
  <2> HIDE DEF S
  <2>2. /\ n \in Seq(S) /\ DOMAIN n = 1 .. Len(q) + 1
        /\ n[Len(q) + 1] = e /\ \A j \in 1 .. Len(q) : n[j] = q[j]
    <3>1. /\ Asked(q, e) \in Seq(S) /\ DOMAIN Asked(q, e) = 1 .. Len(q) + 1
          /\ Asked(q, e)[Len(q) + 1] = e
          /\ \A j \in 1 .. Len(q) : Asked(q, e)[j] = q[j]
      BY <2>1 DEF Asked
    <3>2. QED BY <1>4, <3>1, Zenon
  <2>3. QED BY <2>2 DEF S
<1>6. Queue(n, R2, W2)
  <2>1. \A s \in R2 \cup W2 : \E i \in DOMAIN n : n[i].who = s
    <3> SUFFICES ASSUME NEW s \in R2 \cup W2 PROVE \E i \in DOMAIN n : n[i].who = s
      OBVIOUS
    <3>1. CASE s = p
      BY <1>1, <1>2, <1>5, <3>1
    <3>2. CASE s # p
      <4>1. PICK i \in DOMAIN q : q[i].who = s
        BY <1>1, <3>2 DEF Queue
      <4>2. i \in DOMAIN n /\ n[i] = q[i]
        BY <1>2, <1>5, <4>1
      <4>3. QED BY <4>1, <4>2
    <3>3. QED BY <3>1, <3>2
  <2>2. ASSUME NEW i \in DOMAIN n, NEW j \in DOMAIN n, n[i].who = n[j].who PROVE i = j
    <3>1. i \in 1 .. Len(q) \/ i = Len(q) + 1
      BY <1>2, <1>5
    <3>2. j \in 1 .. Len(q) \/ j = Len(q) + 1
      BY <1>2, <1>5
    <3>3. QED BY <1>1, <1>2, <1>3, <1>5, <2>2, <3>1, <3>2 DEF Queue
  <2>3. QED BY <1>5, <2>1, <2>2 DEF Queue
<1>7. ASSUME NEW s \in R \cup W, Granted(q, s) PROVE Granted(n, s)
  <2>1. PICK i \in DOMAIN q : /\ q[i].who = s
                              /\ IF q[i].mode = "write" THEN i = 1
                                 ELSE \A j \in 1 .. i - 1 : q[j].mode = "read"
    BY <1>7 DEF Granted
  <2>2. i \in DOMAIN n /\ n[i] = q[i] /\ \A j \in 1 .. i - 1 : n[j] = q[j]
    BY <1>2, <1>5, <2>1
  <2>3. QED BY <2>1, <2>2 DEF Granted
<1>8. QED BY <1>4, <1>6, <1>7

LEMMA LeaveQueue ==
  ASSUME NEW q, NEW R, NEW W, NEW p \in R \cup W, Queue(q, R, W)
  PROVE  /\ Queue(Left(q, p), R \ {p}, W \ {p})
         /\ \A s \in R \cup W : s # p /\ Granted(q, s) => Granted(Left(q, p), s)
<1>0. PICK R2, W2 : R2 = R \ {p} /\ W2 = W \ {p}
  OBVIOUS
<1>1. q \in Seq(Entries(R, W)) /\ Len(q) \in Nat /\ DOMAIN q = 1 .. Len(q)
  BY DEF Queue
<1>2. PICK i \in DOMAIN q : q[i].who = p
  BY DEF Queue
<1>3. \A j \in DOMAIN q : q[j].who = p => j = i
  BY <1>2 DEF Queue
<1>4. PICK n : n = Left(q, p)
  OBVIOUS
<1>5. /\ n \in Seq(Entries(R, W)) /\ Len(n) = Len(q) - 1
      /\ \A j \in DOMAIN n : n[j] = IF j < i THEN q[j] ELSE q[j + 1]
  <2> DEFINE S == Entries(R, W)
  <2>1. q \in Seq(S)
    BY <1>1
  <2> HIDE DEF S
  <2>2. /\ n \in Seq(S) /\ Len(n) = Len(q) - 1
        /\ \A j \in DOMAIN n : n[j] = IF j < i THEN q[j] ELSE q[j + 1]
    BY <1>2, <1>3, <1>4, <2>1, Shorter
  <2>3. QED BY <2>2 DEF S
<1>6. DOMAIN n = 1 .. Len(q) - 1 /\ i \in 1 .. Len(q)
  BY <1>1, <1>2, <1>5
<1>7. \A j \in 1 .. Len(q) - 1 : n[j] \in Entries(R, W) /\ n[j].who # p
  <2> SUFFICES ASSUME NEW j \in 1 .. Len(q) - 1 PROVE n[j] \in Entries(R, W) /\ n[j].who # p
    OBVIOUS
  <2>1. PICK k \in 1 .. Len(q) : n[j] = q[k] /\ k # i
    <3>1. CASE j < i
      BY <1>1, <1>5, <1>6, <3>1
    <3>2. CASE ~(j < i)
      BY <1>1, <1>5, <1>6, <3>2
    <3>3. QED BY <3>1, <3>2
  <2>2. QED BY <1>1, <1>3, <2>1
<1>8. n \in Seq(Entries(R2, W2))
  <2>1. \A x \in Entries(R, W) : x.who # p => x \in Entries(R2, W2)
    BY <1>0 DEF Entries, Reader, Writer
  <2>2. \A j \in 1 .. Len(n) : n[j] \in Entries(R2, W2)
    BY <1>5, <1>7, <2>1
  <2>3. n = [j \in 1 .. Len(n) |-> n[j]] /\ Len(n) \in Nat
    BY <1>5
  <2> DEFINE S == Entries(R2, W2)
  <2>4. \A j \in 1 .. Len(n) : n[j] \in S
    BY <2>2
  <2> HIDE DEF S
  <2>5. [j \in 1 .. Len(n) |-> n[j]] \in Seq(S)
    BY <2>3, <2>4, IsASeq
  <2>6. QED BY <2>3, <2>5 DEF S
<1>9. \A s \in R2 \cup W2 : \E j \in DOMAIN n : n[j].who = s
  <2> SUFFICES ASSUME NEW s \in R2 \cup W2 PROVE \E j \in DOMAIN n : n[j].who = s
    OBVIOUS
  <2>1. s # p /\ \E k \in DOMAIN q : q[k].who = s
    BY <1>0 DEF Queue
  <2>2. PICK k \in DOMAIN q : q[k].who = s /\ k # i
    BY <1>2, <2>1
  <2>3. CASE k < i
    <3>1. k \in DOMAIN n
      BY <1>1, <1>6, <2>3
    <3>2. QED BY <1>5, <2>2, <2>3, <3>1
  <2>4. CASE k > i
    <3>1. k - 1 \in DOMAIN n /\ ~(k - 1 < i) /\ (k - 1) + 1 = k
      BY <1>1, <1>6, <2>4
    <3>2. n[k - 1] = q[k]
      BY <1>5, <3>1
    <3>3. QED BY <2>2, <3>1, <3>2
  <2>5. QED BY <1>1, <2>2, <2>3, <2>4
<1>10. ASSUME NEW j \in DOMAIN n, NEW k \in DOMAIN n, n[j].who = n[k].who PROVE j = k
  <2>1. PICK a \in 1 .. Len(q) : n[j] = q[a] /\ a = (IF j < i THEN j ELSE j + 1)
    BY <1>1, <1>5, <1>6
  <2>2. PICK b \in 1 .. Len(q) : n[k] = q[b] /\ b = (IF k < i THEN k ELSE k + 1)
    BY <1>1, <1>5, <1>6
  <2>3. a = b
    BY <1>1, <1>10, <2>1, <2>2 DEF Queue
  <2>4. QED BY <1>1, <1>6, <2>1, <2>2, <2>3
<1>11. ASSUME NEW s \in R \cup W, s # p, Granted(q, s) PROVE Granted(n, s)
  <2>1. PICK k \in DOMAIN q : /\ q[k].who = s
                              /\ IF q[k].mode = "write" THEN k = 1
                                 ELSE \A j \in 1 .. k - 1 : q[j].mode = "read"
    BY <1>11 DEF Granted
  <2>2. k # i
    BY <1>2, <1>11, <2>1
  <2>3. CASE k < i
    <3>1. k \in DOMAIN n /\ n[k] = q[k]
      BY <1>1, <1>5, <1>6, <2>3
    <3>2. \A j \in 1 .. k - 1 : n[j] = q[j]
      BY <1>1, <1>5, <1>6, <2>3
    <3>3. QED BY <2>1, <3>1, <3>2 DEF Granted
  <2>4. CASE k > i
    <3>1. q[k].mode # "write"
      BY <1>6, <2>1, <2>4
    <3>2. k - 1 \in DOMAIN n /\ ~(k - 1 < i) /\ (k - 1) + 1 = k
      BY <1>1, <1>6, <2>4
    <3>3. n[k - 1] = q[k]
      BY <1>5, <3>2
    <3>4. ASSUME NEW j \in 1 .. (k - 1) - 1 PROVE n[j].mode = "read"
      <4>1. j \in DOMAIN n /\ j \in 1 .. k - 1 /\ j + 1 \in 1 .. k - 1
        BY <1>1, <1>6, <2>4
      <4>2. n[j] = q[j] \/ n[j] = q[j + 1]
        BY <1>5, <4>1
      <4>3. QED BY <2>1, <3>1, <4>1, <4>2
    <3>5. QED BY <2>1, <3>1, <3>2, <3>3, <3>4 DEF Granted
  <2>5. QED BY <1>1, <2>2, <2>3, <2>4
<1>12. Queue(n, R2, W2)
  BY <1>8, <1>9, <1>10 DEF Queue
<1>13. QED BY <1>0, <1>4, <1>11, <1>12

\* A writer shares the lock with nobody.
LEMMA WriterAlone ==
  ASSUME NEW q, NEW R, NEW W, Queue(q, R, W), R \cap W = {}, NEW p \in W, NEW s \in R \cup W,
         Granted(q, p), Granted(q, s)
  PROVE  s = p
<1>1. q \in Seq(Entries(R, W)) /\ Len(q) \in Nat /\ DOMAIN q = 1 .. Len(q)
  BY DEF Queue
<1>2. \A k \in DOMAIN q : q[k].who \in W => q[k].mode = "write"
  BY <1>1 DEF Entries, Reader, Writer
<1>3. q[1].who = p /\ q[1].mode = "write" /\ 1 \in DOMAIN q
  BY <1>1, <1>2 DEF Granted
<1>4. PICK k \in DOMAIN q : /\ q[k].who = s
                            /\ IF q[k].mode = "write" THEN k = 1
                               ELSE \A j \in 1 .. k - 1 : q[j].mode = "read"
  BY DEF Granted
<1>5. k = 1
  <2>1. k > 1 => 1 \in 1 .. k - 1
    BY <1>1, <1>4
  <2>2. QED BY <1>1, <1>3, <1>4, <2>1
<1>6. QED BY <1>3, <1>4, <1>5

\* A lock with its readers, its writers and those who surely hold it.
Lock(q, R, W, H) ==
  Queue(q, R, W) /\ R \cap W = {} /\ H \subseteq R \cup W /\ \A p \in H : Granted(q, p)

LEMMA AskToRead ==
  ASSUME NEW q, NEW R, NEW W, NEW H, NEW p, Lock(q, R, W, H), p \notin R \cup W
  PROVE  Lock(Asked(q, Reader(p)), R \cup {p}, W, H)
<1>1. PICK e : e = Reader(p)
  OBVIOUS
<1>2. PICK S : S = R \cup {p}
  OBVIOUS
<1>3. Queue(Asked(q, e), S, W) /\ \A s \in R \cup W : Granted(q, s) => Granted(Asked(q, e), s)
  BY <1>1, <1>2, AskQueue DEF Lock
<1>4. QED BY <1>1, <1>2, <1>3 DEF Lock

LEMMA AskToWrite ==
  ASSUME NEW q, NEW R, NEW W, NEW H, NEW p, Lock(q, R, W, H), p \notin R \cup W
  PROVE  Lock(Asked(q, Writer(p)), R, W \cup {p}, H)
<1>1. PICK e : e = Writer(p)
  OBVIOUS
<1>2. PICK S : S = W \cup {p}
  OBVIOUS
<1>3. Queue(Asked(q, e), R, S) /\ \A s \in R \cup W : Granted(q, s) => Granted(Asked(q, e), s)
  BY <1>1, <1>2, AskQueue DEF Lock
<1>4. QED BY <1>1, <1>2, <1>3 DEF Lock

LEMMA Leave ==
  ASSUME NEW q, NEW R, NEW W, NEW H, NEW p \in R \cup W, Lock(q, R, W, H)
  PROVE  Lock(Left(q, p), R \ {p}, W \ {p}, H \ {p})
<1>1. /\ Queue(q, R, W) /\ R \cap W = {} /\ H \subseteq R \cup W
      /\ \A s \in H : Granted(q, s)
  BY DEF Lock
<1>2. Queue(Left(q, p), R \ {p}, W \ {p})
      /\ \A s \in R \cup W : s # p /\ Granted(q, s) => Granted(Left(q, p), s)
  BY <1>1, LeaveQueue
<1>3. QED BY <1>1, <1>2 DEF Lock

LEMMA Hold ==
  ASSUME NEW q, NEW R, NEW W, NEW H, NEW p \in R \cup W, Lock(q, R, W, H), Granted(q, p)
  PROVE  Lock(q, R, W, H \cup {p})
  BY DEF Lock

\* A writer that has its guard is the only one who holds the lock.
LEMMA WriterHolds ==
  ASSUME NEW q, NEW R, NEW W, NEW H, Lock(q, R, W, H), NEW p \in W, Granted(q, p)
  PROVE  H \subseteq {p}
  BY WriterAlone DEF Lock

\* Where a task or a thread is tells what it waits for and what it holds: the read
\* guard of the handle during vpn.connect(), the write guard of disconnect_rx from
\* the receiver's removal until the thread's message.
Tasks(P) == {Task(r) : r \in {s \in Req : pc[s] \in P}}
Threads(P) == {Thread(r) : r \in {s \in Req : thread[s] \in P}}

Connecting == {"connecting", "cancellable", "up"}
AwaitsEnd == {"readHandle", "cancel", "waiting"}

HandleReaders == Tasks({"readHandle", "cancel"}) \cup Threads({"asking"} \cup Connecting)
HandleWriters == Tasks({"setHandle"}) \cup Threads({"removing"})
HandleHolders == Tasks({"cancel"}) \cup Threads(Connecting)
RxWriters == Tasks({"setRx", "takeRx"} \cup AwaitsEnd)
RxHolders == Tasks(AwaitsEnd)

LockInv ==
  /\ Lock(handleLock, HandleReaders, HandleWriters, HandleHolders)
  /\ Lock(rxLock, {}, RxWriters, RxHolders)

LEMMA Actors ==
  /\ \A r, s \in Req : Task(r) = Task(s) => r = s
  /\ \A r, s \in Req : Thread(r) = Thread(s) => r = s
  /\ \A r, s \in Req : Task(r) # Thread(s)
  BY DEF Task, Thread

LEMMA TasksKept ==
  ASSUME UNCHANGED pc, NEW P PROVE Tasks(P)' = Tasks(P)
  BY DEF Tasks

LEMMA ThreadsKept ==
  ASSUME UNCHANGED thread, NEW P PROVE Threads(P)' = Threads(P)
  BY DEF Threads

LEMMA TasksMove ==
  ASSUME TypeOK, NEW r \in Req, NEW from, NEW to, Move(r, from, to), NEW P
  PROVE  /\ Tasks(P)' = IF to \in P THEN Tasks(P) \cup {Task(r)} ELSE Tasks(P) \ {Task(r)}
         /\ Task(r) \in Tasks(P) <=> from \in P
         /\ Task(r) \notin Threads(P)
<1>1. pc[r] = from /\ pc'[r] = to /\ \A s \in Req : s # r => pc'[s] = pc[s]
  BY TaskMoves
<1>2. Task(r) \notin Threads(P)
  BY Actors DEF Threads
<1>3. \A s \in Req : Task(s) \in Tasks(P) <=> pc[s] \in P
  BY Actors DEF Tasks
<1>4. \A s \in Req : Task(s) \in Tasks(P)' <=> pc'[s] \in P
  BY Actors DEF Tasks
<1>5. \A x : x \in Tasks(P) \/ x \in Tasks(P)' => \E s \in Req : x = Task(s)
  BY DEF Tasks
<1>6. \A s \in Req : Task(s) = Task(r) <=> s = r
  BY Actors
<1>7. \A x : x \in Tasks(P)' <=> IF to \in P THEN x \in Tasks(P) \/ x = Task(r)
                                             ELSE x \in Tasks(P) /\ x # Task(r)
  BY <1>1, <1>3, <1>4, <1>5, <1>6
<1>8. QED BY <1>1, <1>2, <1>3, <1>7

LEMMA ThreadsMove ==
  ASSUME TypeOK, NEW r \in Req, NEW from, NEW to, Advance(r, from, to), NEW P
  PROVE  /\ Threads(P)' = IF to \in P THEN Threads(P) \cup {Thread(r)}
                                      ELSE Threads(P) \ {Thread(r)}
         /\ Thread(r) \in Threads(P) <=> from \in P
         /\ Thread(r) \notin Tasks(P)
<1>1. thread[r] = from /\ thread'[r] = to /\ \A s \in Req : s # r => thread'[s] = thread[s]
  BY ThreadMoves
<1>2. Thread(r) \notin Tasks(P)
  BY Actors DEF Tasks
<1>3. \A s \in Req : Thread(s) \in Threads(P) <=> thread[s] \in P
  BY Actors DEF Threads
<1>4. \A s \in Req : Thread(s) \in Threads(P)' <=> thread'[s] \in P
  BY Actors DEF Threads
<1>5. \A x : x \in Threads(P) \/ x \in Threads(P)' => \E s \in Req : x = Thread(s)
  BY DEF Threads
<1>6. \A s \in Req : Thread(s) = Thread(r) <=> s = r
  BY Actors
<1>7. \A x : x \in Threads(P)' <=> IF to \in P THEN x \in Threads(P) \/ x = Thread(r)
                                               ELSE x \in Threads(P) /\ x # Thread(r)
  BY <1>1, <1>3, <1>4, <1>5, <1>6
<1>8. QED BY <1>1, <1>2, <1>3, <1>7

\* What a step does to these sets.
LEMMA TaskSets ==
  ASSUME TypeOK, NEW r \in Req, NEW from, NEW to, Move(r, from, to), UNCHANGED thread
  PROVE  /\ HandleReaders' = IF to \in {"readHandle", "cancel"} THEN HandleReaders \cup {Task(r)}
                             ELSE HandleReaders \ {Task(r)}
         /\ HandleWriters' = IF to = "setHandle" THEN HandleWriters \cup {Task(r)}
                             ELSE HandleWriters \ {Task(r)}
         /\ HandleHolders' = IF to = "cancel" THEN HandleHolders \cup {Task(r)}
                             ELSE HandleHolders \ {Task(r)}
         /\ RxWriters' = IF to \in {"setRx", "takeRx"} \cup AwaitsEnd
                         THEN RxWriters \cup {Task(r)} ELSE RxWriters \ {Task(r)}
         /\ RxHolders' = IF to \in AwaitsEnd THEN RxHolders \cup {Task(r)}
                         ELSE RxHolders \ {Task(r)}
         /\ Task(r) \in HandleReaders <=> from \in {"readHandle", "cancel"}
         /\ Task(r) \in HandleWriters <=> from = "setHandle"
         /\ Task(r) \in HandleHolders <=> from = "cancel"
         /\ Task(r) \in RxWriters <=> from \in {"setRx", "takeRx"} \cup AwaitsEnd
         /\ Task(r) \in RxHolders <=> from \in AwaitsEnd
<1> DEFINE T(P) == /\ Tasks(P)' = IF to \in P THEN Tasks(P) \cup {Task(r)} ELSE Tasks(P) \ {Task(r)}
                   /\ Task(r) \in Tasks(P) <=> from \in P
           U(P) == Threads(P)' = Threads(P) /\ Task(r) \notin Threads(P)
<1>1. ASSUME NEW P PROVE T(P) /\ U(P)
  BY TasksMove, ThreadsKept
<1>2. T({"readHandle", "cancel"}) /\ T({"setHandle"}) /\ T({"cancel"})
      /\ T({"setRx", "takeRx"} \cup AwaitsEnd) /\ T(AwaitsEnd)
      /\ U({"asking"} \cup Connecting) /\ U({"removing"}) /\ U(Connecting)
  BY <1>1
<1>3. QED
  BY <1>2 DEF HandleReaders, HandleWriters, HandleHolders, RxWriters, RxHolders

LEMMA ThreadSets ==
  ASSUME TypeOK, NEW r \in Req, NEW from, NEW to, Advance(r, from, to), UNCHANGED pc
  PROVE  /\ HandleReaders' = IF to \in {"asking"} \cup Connecting
                             THEN HandleReaders \cup {Thread(r)} ELSE HandleReaders \ {Thread(r)}
         /\ HandleWriters' = IF to = "removing" THEN HandleWriters \cup {Thread(r)}
                             ELSE HandleWriters \ {Thread(r)}
         /\ HandleHolders' = IF to \in Connecting THEN HandleHolders \cup {Thread(r)}
                             ELSE HandleHolders \ {Thread(r)}
         /\ RxWriters' = RxWriters /\ RxHolders' = RxHolders
         /\ Thread(r) \in HandleReaders <=> from \in {"asking"} \cup Connecting
         /\ Thread(r) \in HandleWriters <=> from = "removing"
         /\ Thread(r) \in HandleHolders <=> from \in Connecting
<1> DEFINE T(P) == /\ Threads(P)' = IF to \in P THEN Threads(P) \cup {Thread(r)}
                                                ELSE Threads(P) \ {Thread(r)}
                   /\ Thread(r) \in Threads(P) <=> from \in P
           U(P) == Tasks(P)' = Tasks(P) /\ Thread(r) \notin Tasks(P)
<1>1. ASSUME NEW P PROVE T(P) /\ U(P)
  BY ThreadsMove, TasksKept
<1>2. T({"asking"} \cup Connecting) /\ T({"removing"}) /\ T(Connecting)
      /\ U({"readHandle", "cancel"}) /\ U({"setHandle"}) /\ U({"cancel"})
      /\ U({"setRx", "takeRx"} \cup AwaitsEnd) /\ U(AwaitsEnd)
  BY <1>1
<1>3. QED
  BY <1>2 DEF HandleReaders, HandleWriters, HandleHolders, RxWriters, RxHolders

\* Both locks when no program counter moves into or out of the sets above.
LEMMA LocksKept ==
  ASSUME LockInv, UNCHANGED lockVars,
         UNCHANGED <<HandleReaders, HandleWriters, HandleHolders, RxWriters, RxHolders>>
  PROVE  LockInv'
  BY DEF LockInv

LEMMA LockStep == TypeOK /\ RequestInv /\ LockInv /\ [Next]_vars => LockInv'
<1> SUFFICES ASSUME TypeOK, RequestInv, LockInv, [Next]_vars PROVE LockInv'
  OBVIOUS
<1>1. ASSUME NEW k \in {"connect", "disconnect", "shutdown"}, Arrive(k) PROVE LockInv'
  <2>1. ASSUME NEW P, P \cap {"none", "connect", "disconnect"} = {}
        PROVE  Tasks(P)' = Tasks(P)
    <3>1. pc[arrived + 1] = "none" /\ arrived + 1 \in Req
      BY <1>1 DEF Arrive, RequestInv, TypeOK
    <3>2. \A s \in Req : pc'[s] = pc[s] \/ (pc'[s] \in {"connect", "disconnect"} /\ pc[s] = "none")
      BY <1>1, <3>1 DEF Arrive, TypeOK
    <3>3. {s \in Req : pc'[s] \in P} = {s \in Req : pc[s] \in P}
      BY <2>1, <3>2
    <3>4. QED BY <3>3 DEF Tasks
  <2>2. UNCHANGED <<HandleReaders, HandleWriters, HandleHolders, RxWriters, RxHolders>>
    <3>1. UNCHANGED thread
      BY <1>1 DEF Arrive
    <3> DEFINE N == {"none", "connect", "disconnect"}
    <3>2. {"readHandle", "cancel"} \cap N = {} /\ {"setHandle"} \cap N = {}
          /\ {"cancel"} \cap N = {} /\ AwaitsEnd \cap N = {}
          /\ ({"setRx", "takeRx"} \cup AwaitsEnd) \cap N = {}
      BY DEF AwaitsEnd
    <3>3. /\ Tasks({"readHandle", "cancel"})' = Tasks({"readHandle", "cancel"})
          /\ Tasks({"setHandle"})' = Tasks({"setHandle"}) /\ Tasks({"cancel"})' = Tasks({"cancel"})
          /\ Tasks(AwaitsEnd)' = Tasks(AwaitsEnd)
          /\ Tasks({"setRx", "takeRx"} \cup AwaitsEnd)' = Tasks({"setRx", "takeRx"} \cup AwaitsEnd)
      BY <2>1, <3>2
    <3>4. /\ Threads({"asking"} \cup Connecting)' = Threads({"asking"} \cup Connecting)
          /\ Threads({"removing"})' = Threads({"removing"})
          /\ Threads(Connecting)' = Threads(Connecting)
      BY <3>1, ThreadsKept
    <3>5. QED
      BY <3>3, <3>4 DEF HandleReaders, HandleWriters, HandleHolders, RxWriters, RxHolders
  <2>3. UNCHANGED lockVars
    BY <1>1 DEF Arrive
  <2>4. QED BY <2>2, <2>3, LocksKept
<1>2. ASSUME NEW r \in Req, Check(r) PROVE LockInv'
  <2>1. CASE UNCHANGED handleLock /\ Move(r, "connect", "done")
    <3>1. Move(r, "connect", "done") /\ UNCHANGED <<thread, handleLock, rxLock>>
      BY <1>2, <2>1 DEF Check
    <3>2. UNCHANGED <<HandleReaders, HandleWriters, HandleHolders, RxWriters, RxHolders>>
      BY <3>1, TaskSets DEF AwaitsEnd
    <3>3. QED BY <3>1, <3>2, LocksKept
  <2>2. CASE handleLock' = Asked(handleLock, Writer(Task(r))) /\ Move(r, "connect", "setHandle")
    <3>1. UNCHANGED <<thread, rxLock>>
      BY <1>2 DEF Check
    <3>2. Task(r) \notin HandleReaders \cup HandleWriters
          /\ HandleWriters' = HandleWriters \cup {Task(r)}
          /\ UNCHANGED <<HandleReaders, HandleHolders, RxWriters, RxHolders>>
      BY <2>2, <3>1, TaskSets DEF AwaitsEnd
    <3>3. QED BY <2>2, <3>1, <3>2, AskToWrite DEF LockInv
  <2>3. QED BY <1>2, <2>1, <2>2 DEF Check
<1>3. ASSUME NEW r \in Req, SetHandle(r) PROVE LockInv'
  <2>1. Move(r, "setHandle", "announce") /\ UNCHANGED <<thread, rxLock>>
        /\ handleLock' = Left(handleLock, Task(r))
    BY <1>3 DEF SetHandle
  <2>2. Task(r) \in HandleWriters /\ UNCHANGED <<RxWriters, RxHolders>>
        /\ HandleReaders' = HandleReaders \ {Task(r)}
        /\ HandleWriters' = HandleWriters \ {Task(r)}
        /\ HandleHolders' = HandleHolders \ {Task(r)}
    BY <2>1, TaskSets DEF AwaitsEnd
  <2>3. QED BY <2>1, <2>2, Leave DEF LockInv
<1>4. ASSUME NEW r \in Req, Announce(r) PROVE LockInv'
  <2>1. Move(r, "announce", "setRx") /\ UNCHANGED <<thread, handleLock>>
        /\ rxLock' = Asked(rxLock, Writer(Task(r)))
    BY <1>4 DEF Announce
  <2>2. Task(r) \notin RxWriters /\ RxWriters' = RxWriters \cup {Task(r)}
        /\ UNCHANGED <<HandleReaders, HandleWriters, HandleHolders, RxHolders>>
    BY <2>1, TaskSets DEF AwaitsEnd
  <2>3. QED BY <2>1, <2>2, AskToWrite DEF LockInv
<1>5. ASSUME NEW r \in Req, SetRx(r) PROVE LockInv'
  <2>1. Move(r, "setRx", "done") /\ UNCHANGED handleLock /\ rxLock' = Left(rxLock, Task(r))
        /\ Advance(r, "none", "spawned")
    BY <1>5 DEF SetRx, Move, Advance, RequestInv, TypeOK
  <2>2. Task(r) \in RxWriters /\ RxWriters' = RxWriters \ {Task(r)}
        /\ RxHolders' = RxHolders \ {Task(r)}
        /\ UNCHANGED <<HandleReaders, HandleWriters, HandleHolders>>
    <3> DEFINE N == {"none", "spawned"}
    <3>1. ASSUME NEW P, P \cap N = {} PROVE Threads(P)' = Threads(P)
      BY <2>1, <3>1, ThreadsMove
    <3>2. ({"asking"} \cup Connecting) \cap N = {} /\ {"removing"} \cap N = {}
          /\ Connecting \cap N = {}
      BY DEF Connecting
    <3>3. Threads({"asking"} \cup Connecting)' = Threads({"asking"} \cup Connecting)
          /\ Threads({"removing"})' = Threads({"removing"})
          /\ Threads(Connecting)' = Threads(Connecting)
      BY <3>1, <3>2
    <3> DEFINE T(P) == Tasks(P)' = Tasks(P) \ {Task(r)} /\ (Task(r) \in Tasks(P) <=> "setRx" \in P)
    <3>4. ASSUME NEW P, "done" \notin P PROVE T(P)
      BY <2>1, <3>4, TasksMove
    <3>5. T({"readHandle", "cancel"}) /\ T({"setHandle"}) /\ T({"cancel"})
          /\ T({"setRx", "takeRx"} \cup AwaitsEnd) /\ T(AwaitsEnd)
      BY <3>4 DEF AwaitsEnd
    <3>6. QED
      BY <3>3, <3>5
         DEF HandleReaders, HandleWriters, HandleHolders, RxWriters, RxHolders, AwaitsEnd
  <2>3. QED BY <2>1, <2>2, Leave DEF LockInv
<1>6. ASSUME NEW r \in Req, AskRx(r) PROVE LockInv'
  <2>1. Move(r, "disconnect", "takeRx") /\ UNCHANGED <<thread, handleLock>>
        /\ rxLock' = Asked(rxLock, Writer(Task(r)))
    BY <1>6 DEF AskRx
  <2>2. Task(r) \notin RxWriters /\ RxWriters' = RxWriters \cup {Task(r)}
        /\ UNCHANGED <<HandleReaders, HandleWriters, HandleHolders, RxHolders>>
    BY <2>1, TaskSets DEF AwaitsEnd
  <2>3. QED BY <2>1, <2>2, AskToWrite DEF LockInv
<1>7. ASSUME NEW r \in Req, TakeRx(r) PROVE LockInv'
  <2>1. Move(r, "takeRx", "readHandle") /\ UNCHANGED <<thread, rxLock>>
        /\ handleLock' = Asked(handleLock, Reader(Task(r))) /\ Granted(rxLock, Task(r))
    BY <1>7 DEF TakeRx
  <2>2. /\ Task(r) \notin HandleReaders \cup HandleWriters /\ Task(r) \in RxWriters
        /\ HandleReaders' = HandleReaders \cup {Task(r)}
        /\ RxHolders' = RxHolders \cup {Task(r)}
        /\ UNCHANGED <<HandleWriters, HandleHolders, RxWriters>>
    BY <2>1, TaskSets DEF AwaitsEnd
  <2>3. Lock(handleLock, HandleReaders, HandleWriters, HandleHolders)'
    BY <2>1, <2>2, AskToRead DEF LockInv
  <2>4. Lock(rxLock, {}, RxWriters, RxHolders)'
    BY <2>1, <2>2, Hold DEF LockInv
  <2>5. QED BY <2>3, <2>4 DEF LockInv
<1>8. ASSUME NEW r \in Req, NothingToTake(r) PROVE LockInv'
  <2>1. Move(r, "takeRx", "notConnected") /\ UNCHANGED <<thread, handleLock>>
        /\ rxLock' = Left(rxLock, Task(r))
    BY <1>8 DEF NothingToTake
  <2>2. Task(r) \in RxWriters /\ RxWriters' = RxWriters \ {Task(r)}
        /\ RxHolders' = RxHolders \ {Task(r)}
        /\ UNCHANGED <<HandleReaders, HandleWriters, HandleHolders>>
    BY <2>1, TaskSets DEF AwaitsEnd
  <2>3. QED BY <2>1, <2>2, Leave DEF LockInv
<1>9. ASSUME NEW r \in Req, NotConnected(r) PROVE LockInv'
  <2>1. Move(r, "notConnected", "done") /\ UNCHANGED <<thread, handleLock, rxLock>>
    BY <1>9 DEF NotConnected
  <2>2. UNCHANGED <<HandleReaders, HandleWriters, HandleHolders, RxWriters, RxHolders>>
    BY <2>1, TaskSets DEF AwaitsEnd
  <2>3. QED BY <2>1, <2>2, LocksKept
<1>10. ASSUME NEW r \in Req, ReadHandle(r) PROVE LockInv'
  <2>1. UNCHANGED <<thread, rxLock>> /\ Granted(handleLock, Task(r))
    BY <1>10 DEF ReadHandle
  <2>2. CASE handle = None
    <3>1. Move(r, "readHandle", "waiting") /\ handleLock' = Left(handleLock, Task(r))
      BY <1>10, <2>2 DEF ReadHandle
    <3>2. Task(r) \in HandleReaders /\ UNCHANGED <<RxWriters, RxHolders>>
          /\ HandleReaders' = HandleReaders \ {Task(r)}
          /\ HandleWriters' = HandleWriters \ {Task(r)}
          /\ HandleHolders' = HandleHolders \ {Task(r)}
      BY <2>1, <3>1, TaskSets DEF AwaitsEnd
    <3>3. QED BY <2>1, <3>1, <3>2, Leave DEF LockInv
  <2>3. CASE handle # None
    <3>1. Move(r, "readHandle", "cancel") /\ UNCHANGED handleLock
      BY <1>10, <2>3 DEF ReadHandle
    <3>2. Task(r) \in HandleReaders /\ HandleHolders' = HandleHolders \cup {Task(r)}
          /\ UNCHANGED <<HandleReaders, HandleWriters, RxWriters, RxHolders>>
      BY <2>1, <3>1, TaskSets DEF AwaitsEnd
    <3>3. QED BY <2>1, <3>1, <3>2, Hold DEF LockInv
  <2>4. QED BY <2>2, <2>3
<1>11. ASSUME NEW r \in Req, Cancel(r) PROVE LockInv'
  <2>1. Move(r, "cancel", "waiting") /\ UNCHANGED <<thread, rxLock>>
        /\ handleLock' = Left(handleLock, Task(r))
    BY <1>11 DEF Cancel
  <2>2. Task(r) \in HandleReaders /\ UNCHANGED <<RxWriters, RxHolders>>
        /\ HandleReaders' = HandleReaders \ {Task(r)}
        /\ HandleWriters' = HandleWriters \ {Task(r)}
        /\ HandleHolders' = HandleHolders \ {Task(r)}
    BY <2>1, TaskSets DEF AwaitsEnd
  <2>3. QED BY <2>1, <2>2, Leave DEF LockInv
<1>12. ASSUME NEW r \in Req, Finished(r) PROVE LockInv'
  <2>1. Move(r, "waiting", "done") /\ UNCHANGED <<thread, handleLock>>
        /\ rxLock' = Left(rxLock, Task(r))
    BY <1>12 DEF Finished
  <2>2. Task(r) \in RxWriters /\ RxWriters' = RxWriters \ {Task(r)}
        /\ RxHolders' = RxHolders \ {Task(r)}
        /\ UNCHANGED <<HandleReaders, HandleWriters, HandleHolders>>
    BY <2>1, TaskSets DEF AwaitsEnd
  <2>3. QED BY <2>1, <2>2, Leave DEF LockInv
<1>13. ASSUME NEW r \in Req, ThreadAsks(r) PROVE LockInv'
  <2>1. Advance(r, "spawned", "asking") /\ UNCHANGED <<pc, rxLock>>
        /\ handleLock' = Asked(handleLock, Reader(Thread(r)))
    BY <1>13 DEF ThreadAsks
  <2>2. Thread(r) \notin HandleReaders \cup HandleWriters
        /\ HandleReaders' = HandleReaders \cup {Thread(r)}
        /\ UNCHANGED <<HandleWriters, HandleHolders, RxWriters, RxHolders>>
    BY <2>1, ThreadSets DEF Connecting
  <2>3. QED BY <2>1, <2>2, AskToRead DEF LockInv
<1>14. ASSUME NEW r \in Req, ThreadReads(r) PROVE LockInv'
  <2>1. UNCHANGED <<pc, rxLock>> /\ Granted(handleLock, Thread(r))
    BY <1>14 DEF ThreadReads
  <2>2. CASE handle = None
    <3>1. Advance(r, "asking", "returned") /\ handleLock' = Left(handleLock, Thread(r))
      BY <1>14, <2>2 DEF ThreadReads
    <3>2. Thread(r) \in HandleReaders /\ UNCHANGED <<RxWriters, RxHolders>>
          /\ HandleReaders' = HandleReaders \ {Thread(r)}
          /\ HandleWriters' = HandleWriters \ {Thread(r)}
          /\ HandleHolders' = HandleHolders \ {Thread(r)}
      BY <2>1, <3>1, ThreadSets DEF Connecting
    <3>3. QED BY <2>1, <3>1, <3>2, Leave DEF LockInv
  <2>3. CASE handle # None
    <3>1. Advance(r, "asking", "connecting") /\ UNCHANGED handleLock
      BY <1>14, <2>3 DEF ThreadReads
    <3>2. Thread(r) \in HandleReaders /\ HandleHolders' = HandleHolders \cup {Thread(r)}
          /\ UNCHANGED <<HandleReaders, HandleWriters, RxWriters, RxHolders>>
      BY <2>1, <3>1, ThreadSets DEF Connecting
    <3>3. QED BY <2>1, <3>1, <3>2, Hold DEF LockInv
  <2>4. QED BY <2>2, <2>3
<1>15. ASSUME NEW r \in Req, OpenPipe(r) \/ Connected(r) PROVE LockInv'
  <2>1. PICK from \in Connecting, to \in Connecting : Advance(r, from, to)
    BY <1>15 DEF OpenPipe, Connected, Connecting
  <2>2. UNCHANGED <<pc, handleLock, rxLock>>
    BY <1>15 DEF OpenPipe, Connected
  <2>3. UNCHANGED <<HandleReaders, HandleWriters, HandleHolders, RxWriters, RxHolders>>
    BY <2>1, <2>2, ThreadSets DEF Connecting
  <2>4. QED BY <2>2, <2>3, LocksKept
<1>16. ASSUME NEW r \in Req, Return(r) PROVE LockInv'
  <2>1. PICK from \in Connecting : Advance(r, from, "returned")
    BY <1>16 DEF Return, InConnect, Advance, Connecting
  <2>2. UNCHANGED <<pc, rxLock>> /\ handleLock' = Left(handleLock, Thread(r))
    BY <1>16 DEF Return
  <2>3. Thread(r) \in HandleReaders /\ UNCHANGED <<RxWriters, RxHolders>>
        /\ HandleReaders' = HandleReaders \ {Thread(r)}
        /\ HandleWriters' = HandleWriters \ {Thread(r)}
        /\ HandleHolders' = HandleHolders \ {Thread(r)}
    BY <2>1, <2>2, ThreadSets DEF Connecting
  <2>4. QED BY <2>2, <2>3, Leave DEF LockInv
<1>17. ASSUME NEW r \in Req, NotifyDisconnected(r) \/ SendDone(r) PROVE LockInv'
  <2>1. PICK from \in {"returned", "removed"}, to \in {"notified", "done"} :
          Advance(r, from, to)
    BY <1>17 DEF NotifyDisconnected, SendDone
  <2>2. UNCHANGED <<pc, handleLock, rxLock>>
    BY <1>17 DEF NotifyDisconnected, SendDone
  <2>3. UNCHANGED <<HandleReaders, HandleWriters, HandleHolders, RxWriters, RxHolders>>
    BY <2>1, <2>2, ThreadSets DEF Connecting
  <2>4. QED BY <2>2, <2>3, LocksKept
<1>18. ASSUME NEW r \in Req, AskToRemove(r) PROVE LockInv'
  <2>1. Advance(r, "notified", "removing") /\ UNCHANGED <<pc, rxLock>>
        /\ handleLock' = Asked(handleLock, Writer(Thread(r)))
    BY <1>18 DEF AskToRemove
  <2>2. Thread(r) \notin HandleReaders \cup HandleWriters
        /\ HandleWriters' = HandleWriters \cup {Thread(r)}
        /\ UNCHANGED <<HandleReaders, HandleHolders, RxWriters, RxHolders>>
    BY <2>1, ThreadSets DEF Connecting
  <2>3. QED BY <2>1, <2>2, AskToWrite DEF LockInv
<1>19. ASSUME NEW r \in Req, RemoveHandle(r) PROVE LockInv'
  <2>1. Advance(r, "removing", "removed") /\ UNCHANGED <<pc, rxLock>>
        /\ handleLock' = Left(handleLock, Thread(r))
    BY <1>19 DEF RemoveHandle
  <2>2. Thread(r) \in HandleWriters /\ UNCHANGED <<RxWriters, RxHolders>>
        /\ HandleReaders' = HandleReaders \ {Thread(r)}
        /\ HandleWriters' = HandleWriters \ {Thread(r)}
        /\ HandleHolders' = HandleHolders \ {Thread(r)}
    BY <2>1, ThreadSets DEF Connecting
  <2>3. QED BY <2>1, <2>2, Leave DEF LockInv
<1>20. CASE UNCHANGED vars
  <2>1. UNCHANGED <<pc, thread, lockVars>>
    BY <1>20 DEF vars
  <2>2. \A P : Tasks(P)' = Tasks(P) /\ Threads(P)' = Threads(P)
    BY <2>1, TasksKept, ThreadsKept
  <2>3. UNCHANGED <<HandleReaders, HandleWriters, HandleHolders, RxWriters, RxHolders>>
    BY <2>2 DEF HandleReaders, HandleWriters, HandleHolders, RxWriters, RxHolders
  <2>4. QED BY <2>1, <2>3, LocksKept
<1>21. QED
  BY <1>1, <1>2, <1>3, <1>4, <1>5, <1>6, <1>7, <1>8, <1>9, <1>10, <1>11, <1>12,
     <1>13, <1>14, <1>15, <1>16, <1>17, <1>18, <1>19, <1>20
     DEF Next, ConnectTask, DisconnectTask, ThreadRuns

LEMMA LocksKnown == Spec => []LockInv
<1>1. Init => LockInv
  <2> SUFFICES ASSUME Init PROVE LockInv
    OBVIOUS
  <2>1. Tasks({"readHandle", "cancel"}) = {} /\ Tasks({"setHandle"}) = {} /\ Tasks({"cancel"}) = {}
        /\ Tasks({"setRx", "takeRx"} \cup AwaitsEnd) = {} /\ Tasks(AwaitsEnd) = {}
    BY DEF Init, Tasks, AwaitsEnd
  <2>2. Threads({"asking"} \cup Connecting) = {} /\ Threads({"removing"}) = {}
        /\ Threads(Connecting) = {}
    BY DEF Init, Threads, Connecting
  <2>3. HandleReaders = {} /\ HandleWriters = {} /\ HandleHolders = {}
        /\ RxWriters = {} /\ RxHolders = {}
    BY <2>1, <2>2 DEF HandleReaders, HandleWriters, HandleHolders, RxWriters, RxHolders
  <2>4. Lock(<<>>, {}, {}, {})
    BY DEF Lock, Queue
  <2>5. QED BY <2>3, <2>4 DEF Init, LockInv
<1>2. IInv /\ LockInv /\ [Next]_vars => LockInv'
  BY LockStep DEF IInv
<1>3. QED BY <1>1, <1>2, Inductive, PTL DEF Spec

LEMMA Holds ==
  ASSUME NEW r \in Req
  PROVE  /\ InConnect(r) => Thread(r) \in HandleHolders
         /\ Disconnecting(r) => Task(r) \in RxHolders
  BY DEF InConnect, Disconnecting, AwaitsEnd, HandleHolders, RxHolders, Threads, Tasks,
         Connecting

\* Two disconnects never cancel or wait at once, whatever the clients send: the
\* guard of disconnect_rx is held from the removal of the receiver to the end of
\* the wait (disconnect, `self.disconnect_rx.write().await.take()`).
OneDisconnect == \A d, e \in Req : Disconnecting(d) /\ Disconnecting(e) => d = e

\* Disconnects take turns: one cancels and waits for the end at a time.
THEOREM DisconnectsTakeTurns == Spec => []OneDisconnect
<1>1. LockInv => OneDisconnect
  <2> SUFFICES ASSUME LockInv, NEW d \in Req, NEW e \in Req, Disconnecting(d), Disconnecting(e)
               PROVE  d = e
    BY DEF OneDisconnect
  <2>1. Task(d) \in RxHolders /\ Task(e) \in RxHolders
    BY Holds
  <2>2. Task(d) \in RxWriters /\ Granted(rxLock, Task(d))
    BY <2>1 DEF LockInv, Lock
  <2>3. Task(e) = Task(d)
    BY <2>1, <2>2, WriterHolds DEF LockInv
  <2>4. QED BY <2>3, Actors
<1>2. QED BY <1>1, LocksKnown, PTL

\* vpn.connect() keeps the Vpn it was started on: the write() of a new connection
\* and of the end of an old one wait for its guard.
THEOREM HandleIsKept == Spec => HandleStays
<1> DEFINE A == \A r \in Req : InConnect(r) => handle' = handle
<1>1. IInv /\ LockInv /\ [Next]_vars => [A]_vars
  <2> SUFFICES ASSUME IInv, LockInv, Next, NEW c \in Req, InConnect(c), handle' # handle
               PROVE  FALSE
    BY DEF vars
  <2>1. ASSUME NEW x \in HandleWriters, Granted(handleLock, x), Thread(c) # x PROVE FALSE
    <3>1. Thread(c) \in HandleHolders
      BY Holds
    <3>2. QED BY <2>1, <3>1, WriterHolds DEF LockInv
  <2>2. ASSUME NEW r \in Req, SetHandle(r) PROVE FALSE
    <3>1. Task(r) \in HandleWriters /\ Granted(handleLock, Task(r))
      BY <2>2 DEF SetHandle, Move, HandleWriters, Tasks
    <3>2. QED BY <2>1, <3>1, Actors
  <2>3. ASSUME NEW r \in Req, RemoveHandle(r) PROVE FALSE
    <3>1. Thread(r) \in HandleWriters /\ Granted(handleLock, Thread(r)) /\ r # c
      BY <2>3 DEF RemoveHandle, Advance, HandleWriters, Threads, InConnect
    <3>2. QED BY <2>1, <3>1, Actors
  <2>4. UNCHANGED handle \/ \E r \in Req : SetHandle(r) \/ RemoveHandle(r)
    BY DEF Next, ConnectTask, DisconnectTask, ThreadRuns, Arrive, Check, Announce, SetRx, AskRx,
           TakeRx, NothingToTake, NotConnected, ReadHandle, Cancel, Finished, ThreadAsks,
           ThreadReads, NotifyDisconnected, AskToRemove, SendDone, OpenPipe, Connected, Return
  <2>5. QED BY <2>2, <2>3, <2>4
<1>2. QED BY <1>1, Inductive, LocksKnown, PTL DEF Spec, HandleStays

\* Nobody takes or stores a receiver, and no connection begins, under a disconnect
\* that waits, whatever the clients send: a connect that passed the check of the
\* state waits for the guard of disconnect_rx before it spawns its thread.
THEOREM WaitIsPrivate == Spec => NoneBegins
<1> DEFINE A == \A d \in Req : Disconnecting(d) =>
                  rx' = rx /\ \A r \in Req : Live(r)' => Live(r)
<1>1. IInv /\ LockInv /\ [Next]_vars => [A]_vars
  <2> SUFFICES ASSUME IInv, LockInv, Next, NEW d \in Req, Disconnecting(d)
               PROVE  rx' = rx /\ \A r \in Req : Live(r)' => Live(r)
    BY DEF vars
  <2>1. ASSUME NEW r \in Req, SetRx(r) \/ TakeRx(r) PROVE FALSE
    <3>1. Granted(rxLock, Task(r)) /\ pc[r] \in {"setRx", "takeRx"}
      BY <2>1 DEF SetRx, TakeRx, Move
    <3>2. Task(r) \in RxWriters /\ r # d
      BY <3>1 DEF RxWriters, Tasks, Disconnecting
    <3>3. Task(d) \in RxHolders
      BY Holds
    <3>4. Task(d) = Task(r)
      BY <3>1, <3>2, <3>3, WriterHolds DEF LockInv
    <3>5. QED BY <3>2, <3>4, Actors
  <2>2. ASSUME NEW r \in Req, ThreadRuns(r) \/ OpenPipe(r) \/ Connected(r) \/ Return(r)
        PROVE  rx' = rx /\ \A s \in Req : Live(s)' => Live(s)
    <3>1. UNCHANGED rx
      BY <2>2 DEF ThreadRuns, ThreadAsks, ThreadReads, NotifyDisconnected, AskToRemove,
                  RemoveHandle, SendDone, OpenPipe, Connected, Return
    <3> DEFINE live == {"spawned", "asking", "connecting", "cancellable", "up", "returned"}
    <3>2. PICK to : /\ thread' = [thread EXCEPT ![r] = to]
                    /\ to \in live => thread[r] \in live
      BY <2>2 DEF ThreadRuns, ThreadAsks, ThreadReads, NotifyDisconnected, AskToRemove,
                  RemoveHandle, SendDone, OpenPipe, Connected, Return, Advance, InConnect
    <3>3. thread'[r] = to /\ \A s \in Req : s # r => thread'[s] = thread[s]
      BY <3>2 DEF IInv, TypeOK
    <3>4. QED BY <3>1, <3>2, <3>3 DEF Live
  <2>3. \/ UNCHANGED <<rx, thread>>
        \/ \E r \in Req : \/ SetRx(r) \/ TakeRx(r)
                          \/ ThreadRuns(r) \/ OpenPipe(r) \/ Connected(r) \/ Return(r)
    BY DEF Next, ConnectTask, DisconnectTask, Arrive, Check, SetHandle, Announce,
           AskRx, NothingToTake, NotConnected, ReadHandle, Cancel, Finished
  <2>4. QED BY <2>1, <2>2, <2>3 DEF Live
<1>2. QED BY <1>1, Inductive, LocksKnown, PTL DEF Spec, NoneBegins

-----------------------------------------------------------------------------
(* What CancelledDisconnectReturns rests on                                *)

\* A disconnect that waits for the one live connection goes on to wait for that one
\* alone, until it returns: whatever arrives meanwhile, no other connection comes up
\* whose read guard could keep the thread's write() from being granted.
Alone(d) == pc[d] = "waiting" /\ \A r \in Req : Live(r) => r = taken[d]
StaysAlone == [][\A d \in Req : Alone(d) /\ pc'[d] # "done" => Alone(d)']_vars

\* A disconnect that is alone with its connection stays so until it returns.
THEOREM WaitsForItsOwn == Spec => StaysAlone
<1> DEFINE A == \A d \in Req : Disconnecting(d) =>
                  rx' = rx /\ \A r \in Req : Live(r)' => Live(r)
           B == \A d \in Req : Alone(d) /\ pc'[d] # "done" => Alone(d)'
<1>1. IInv /\ [Next]_vars /\ [A]_vars => [B]_vars
  <2> SUFFICES ASSUME IInv, Next, A, NEW d \in Req, Alone(d), pc'[d] # "done"
               PROVE  Alone(d)'
    BY DEF vars, Alone, Live
  <2>1. TypeOK /\ pc[d] = "waiting"
    BY DEF IInv, Alone
  <2>2. \A r \in Req : Live(r)' => Live(r)
    BY <2>1 DEF Disconnecting
  <2>3. pc'[d] = "waiting" /\ taken'[d] = taken[d]
    <3>1. ASSUME NEW k \in {"connect", "disconnect", "shutdown"}, Arrive(k)
          PROVE  pc'[d] = pc[d] /\ taken'[d] = taken[d]
      <4>1. d # arrived + 1
        BY <2>1 DEF IInv, RequestInv, TypeOK
      <4>2. QED BY <3>1, <4>1, <2>1 DEF Arrive, TypeOK
    <3>2. ASSUME NEW r \in Req, ConnectTask(r) \/ DisconnectTask(r)
          PROVE  pc'[d] = "waiting" /\ taken'[d] = taken[d]
      <4>1. PICK from, to : Move(r, from, to) /\ (from = "waiting" => to = "done")
        BY <3>2 DEF ConnectTask, DisconnectTask, Check, SetHandle, Announce, SetRx, AskRx, TakeRx,
                    NothingToTake, NotConnected, ReadHandle, Cancel, Finished
      <4>2. r # d
        BY <2>1, <4>1, TaskMoves
      <4>3. UNCHANGED taken \/ TakeRx(r)
        BY <3>2 DEF ConnectTask, DisconnectTask, Check, SetHandle, Announce, SetRx, AskRx,
                    NothingToTake, NotConnected, ReadHandle, Cancel, Finished
      <4>4. taken'[d] = taken[d]
        BY <2>1, <4>2, <4>3 DEF TakeRx, TypeOK
      <4>5. QED BY <2>1, <4>1, <4>2, <4>4, TaskMoves
    <3>3. ASSUME NEW r \in Req, ThreadRuns(r) \/ OpenPipe(r) \/ Connected(r) \/ Return(r)
          PROVE  UNCHANGED <<pc, taken>>
      BY <3>3 DEF ThreadRuns, ThreadAsks, ThreadReads, NotifyDisconnected, AskToRemove,
                  RemoveHandle, SendDone, OpenPipe, Connected, Return
    <3>4. QED BY <2>1, <3>1, <3>2, <3>3 DEF Next
  <2>4. QED BY <2>2, <2>3 DEF Alone
<1>2. QED BY <1>1, Inductive, WaitIsPrivate, PTL DEF Spec, NoneBegins, StaysAlone
=============================================================================
