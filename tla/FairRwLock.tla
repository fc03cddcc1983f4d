----------------------------- MODULE FairRwLock -----------------------------
(***************************************************************************)
(* tokio::sync::RwLock as an operator on its queue: everybody who holds or *)
(* awaits the lock, in the order they asked.  It is fair: a reader waits   *)
(* behind a writer that asked before it, even while other readers hold the *)
(* lock.                                                                   *)
(***************************************************************************)
LOCAL INSTANCE Naturals
LOCAL INSTANCE SequencesExt

Reader(p) == [who |-> p, mode |-> "read"]
Writer(p) == [who |-> p, mode |-> "write"]

\* read().await or write().await begins.
Asked(queue, entry) == Append(queue, entry)

\* Nobody is in the queue twice.
Place(queue, p) == CHOOSE i \in DOMAIN queue : queue[i].who = p

Queued(queue, p) == \E i \in DOMAIN queue : queue[i].who = p

\* The guard of p, if it has one, is dropped.
Left(queue, p) ==
  IF Queued(queue, p) THEN RemoveAt(queue, Place(queue, p)) ELSE queue

\* read() or write() of p has returned, or may return now.
Granted(queue, p) ==
  \E i \in DOMAIN queue :
    /\ queue[i].who = p
    /\ IF queue[i].mode = "write" THEN i = 1
       ELSE \A j \in 1 .. i - 1 : queue[j].mode = "read"
=============================================================================
