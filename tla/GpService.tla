------------------------------ MODULE GpService ------------------------------
(***************************************************************************)
(* VpnTask and VpnTaskContext of gpservice, the privileged daemon of the   *)
(* Linux GUI.  Every WebSocket request is a tokio task of its own, every   *)
(* accepted connect starts a thread that stays in vpn.connect() while the  *)
(* tunnel is up.  They share the Vpn handle and the receiver of the        *)
(* thread's "disconnected" channel, each behind a fair RwLock, and the     *)
(* watch channel that holds the state shown to the clients.                *)
(*                                                                         *)
(* libopenconnect is external: vpn.connect() opens its command pipe, may   *)
(* report the tunnel up, and returns; a cancellation written to the pipe   *)
(* of an attempt that has one makes it return.                             *)
(***************************************************************************)
EXTENDS Naturals, Sequences, FairRwLock

CONSTANT MaxReq  \* bound: requests, numbered in the order recv() takes them

ASSUME BoundsAssumption == MaxReq \in Nat \ {0}

Req == 1 .. MaxReq
None == 0

VARIABLES
  vpnState,     \* the watch channel
  handle,       \* vpn_handle: the connect request whose Vpn it is, or None
  rx,           \* disconnect_rx: the request whose thread has the sender
  handleLock, rxLock,  \* the queues of their locks
  arrived,      \* requests taken by recv() so far
  stopping,     \* the cancellation token was cancelled: no more requests
  pc,           \* [Req -> where the request's task is]
  taken,        \* [Req -> the receiver a disconnect took out of rx]
  thread,       \* [Req -> where the thread of a connect is]
  pipe,         \* g_cmd_pipe_fd: the attempt it belongs to, or None
  cancelled     \* attempts whose command pipe got OC_CMD_CANCEL

sharedVars == <<vpnState, handle, rx>>
lockVars == <<handleLock, rxLock>>
reqVars == <<arrived, stopping>>
vpnVars == <<pipe, cancelled>>
vars == <<sharedVars, lockVars, reqVars, pc, taken, thread, vpnVars>>

Task(r) == <<"task", r>>
Thread(r) == <<"thread", r>>

Move(r, from, to) == pc[r] = from /\ pc' = [pc EXCEPT ![r] = to]
Advance(r, from, to) ==
  thread[r] = from /\ thread' = [thread EXCEPT ![r] = to]

\* Stages of a thread that is inside vpn.connect(): before its command pipe
\* exists, with the pipe, with the tunnel reported up.
InConnect(r) == thread[r] \in {"connecting", "cancellable", "up"}

InProgress(r) == pc[r] \notin {"none", "done"}

-----------------------------------------------------------------------------
Init ==
  /\ vpnState = "Disconnected" /\ handle = None /\ rx = None
  /\ handleLock = <<>> /\ rxLock = <<>>
  /\ arrived = 0 /\ stopping = FALSE
  /\ pc = [r \in Req |-> "none"]
  /\ taken = [r \in Req |-> None]
  /\ thread = [r \in Req |-> "none"]
  /\ pipe = None /\ cancelled = {}

\* VpnTask::recv spawns process_ws_req; the token's cancellation ends recv and
\* disconnects itself; SIGUSR1 calls disconnect too.
Arrive(k) ==
  /\ arrived < MaxReq /\ ~stopping
  /\ arrived' = arrived + 1
  /\ pc' = [pc EXCEPT ![arrived + 1] = IF k = "connect" THEN "connect" ELSE "disconnect"]
  /\ stopping' = (k = "shutdown")
  /\ UNCHANGED <<sharedVars, lockVars, taken, thread, vpnVars>>

-----------------------------------------------------------------------------
(* VpnTaskContext::connect                                                 *)

MayStart == vpnState = "Disconnected"

\* The state is read once; the Vpn may fail to build.
Check(r) ==
  /\ \/ /\ ~MayStart /\ Move(r, "connect", "done")
        /\ UNCHANGED <<vpnState, handleLock>>
     \/ /\ MayStart /\ Move(r, "connect", "done")
        /\ vpnState' = "Disconnected"
        /\ UNCHANGED handleLock
     \/ /\ MayStart /\ Move(r, "connect", "setHandle")
        /\ handleLock' = Asked(handleLock, Writer(Task(r)))
        /\ UNCHANGED vpnState
  /\ UNCHANGED <<handle, rx, rxLock, reqVars, taken, thread, vpnVars>>

SetHandle(r) ==
  /\ Granted(handleLock, Task(r))
  /\ Move(r, "setHandle", "announce")
  /\ handle' = r
  /\ handleLock' = Left(handleLock, Task(r))
  /\ UNCHANGED <<vpnState, rx, rxLock, reqVars, taken, thread, vpnVars>>

Announce(r) ==
  /\ Move(r, "announce", "setRx")
  /\ vpnState' = "Connecting"
  /\ rxLock' = Asked(rxLock, Writer(Task(r)))
  /\ UNCHANGED <<handle, rx, handleLock, reqVars, taken, thread, vpnVars>>

SetRx(r) ==
  /\ Granted(rxLock, Task(r))
  /\ Move(r, "setRx", "done")
  /\ rx' = r
  /\ rxLock' = Left(rxLock, Task(r))
  /\ thread' = [thread EXCEPT ![r] = "spawned"]
  /\ UNCHANGED <<vpnState, handle, handleLock, reqVars, taken, vpnVars>>

-----------------------------------------------------------------------------
(* The thread of a connect                                                 *)

ThreadAsks(r) ==
  /\ Advance(r, "spawned", "asking")
  /\ handleLock' = Asked(handleLock, Reader(Thread(r)))
  /\ UNCHANGED <<sharedVars, rxLock, reqVars, pc, taken, vpnVars>>

\* Faulty variant: the guard is dropped before vpn.connect().
ThreadReadsBriefly(r) ==
  /\ Granted(handleLock, Thread(r))
  /\ Advance(r, "asking", IF handle = None THEN "returned" ELSE "connecting")
  /\ handleLock' = Left(handleLock, Thread(r))
  /\ UNCHANGED <<sharedVars, rxLock, reqVars, pc, taken, vpnVars>>


\* blocking_read().as_ref().map(...): with no handle there is nothing to do.
ThreadReads(r) ==
  /\ Granted(handleLock, Thread(r))
  /\ Advance(r, "asking", IF handle = None THEN "returned" ELSE "connecting")
  /\ handleLock' = IF handle = None THEN Left(handleLock, Thread(r)) ELSE handleLock
  /\ UNCHANGED <<sharedVars, rxLock, reqVars, pc, taken, vpnVars>>

\* vpn_connect gets as far as its command pipe.
OpenPipe(r) ==
  /\ Advance(r, "connecting", "cancellable")
  /\ pipe' = r
  /\ UNCHANGED <<sharedVars, lockVars, reqVars, pc, taken, cancelled>>

\* on_connected.
Connected(r) ==
  /\ Advance(r, "cancellable", "up")
  /\ vpnState' = "Connected"
  /\ UNCHANGED <<handle, rx, lockVars, reqVars, pc, taken, vpnVars>>

\* vpn.connect() returns, for any reason, and the read guard is dropped.
Return(r) ==
  /\ InConnect(r)
  /\ thread' = [thread EXCEPT ![r] = "returned"]
  /\ handleLock' = Left(handleLock, Thread(r))
  /\ UNCHANGED <<sharedVars, rxLock, reqVars, pc, taken, vpnVars>>

\* The state is sent, then the write lock is asked for.
NotifyDisconnected(r) ==
  /\ Advance(r, "returned", "notified")
  /\ vpnState' = "Disconnected"
  /\ UNCHANGED <<handle, rx, lockVars, reqVars, pc, taken, vpnVars>>

AskToRemove(r) ==
  /\ Advance(r, "notified", "removing")
  /\ handleLock' = Asked(handleLock, Writer(Thread(r)))
  /\ UNCHANGED <<sharedVars, rxLock, reqVars, pc, taken, vpnVars>>

RemoveHandle(r) ==
  /\ Granted(handleLock, Thread(r))
  /\ Advance(r, "removing", "removed")
  /\ handle' = None
  /\ handleLock' = Left(handleLock, Thread(r))
  /\ UNCHANGED <<vpnState, rx, rxLock, reqVars, pc, taken, vpnVars>>

SendDone(r) ==
  /\ Advance(r, "removed", "done")
  /\ UNCHANGED <<sharedVars, lockVars, reqVars, pc, taken, vpnVars>>

-----------------------------------------------------------------------------
(* VpnTaskContext::disconnect; the guard of disconnect_rx is held until    *)
(* the thread has sent its message                                         *)

AskRx(r) ==
  /\ Move(r, "disconnect", "takeRx")
  /\ rxLock' = Asked(rxLock, Writer(Task(r)))
  /\ UNCHANGED <<sharedVars, handleLock, reqVars, taken, thread, vpnVars>>

\* Faulty variant: the guard is dropped once the receiver is taken.
TakeRxBriefly(r) ==
  /\ Granted(rxLock, Task(r)) /\ rx # None
  /\ Move(r, "takeRx", "readHandle")
  /\ taken' = [taken EXCEPT ![r] = rx]
  /\ rx' = None
  /\ handleLock' = Asked(handleLock, Reader(Task(r)))
  /\ rxLock' = Left(rxLock, Task(r))
  /\ UNCHANGED <<vpnState, handle, reqVars, thread, vpnVars>>

TakeRx(r) ==
  /\ Granted(rxLock, Task(r)) /\ rx # None
  /\ Move(r, "takeRx", "readHandle")
  /\ taken' = [taken EXCEPT ![r] = rx]
  /\ rx' = None
  /\ handleLock' = Asked(handleLock, Reader(Task(r)))
  /\ UNCHANGED <<vpnState, handle, rxLock, reqVars, thread, vpnVars>>

\* Nothing to disconnect: the guard is dropped, then the state is sent.
NothingToTake(r) ==
  /\ Granted(rxLock, Task(r)) /\ rx = None
  /\ Move(r, "takeRx", "notConnected")
  /\ rxLock' = Left(rxLock, Task(r))
  /\ UNCHANGED <<sharedVars, handleLock, reqVars, taken, thread, vpnVars>>

NotConnected(r) ==
  /\ Move(r, "notConnected", "done")
  /\ vpnState' = "Disconnected"
  /\ UNCHANGED <<handle, rx, lockVars, reqVars, taken, thread, vpnVars>>

ReadHandle(r) ==
  /\ Granted(handleLock, Task(r))
  /\ Move(r, "readHandle", IF handle = None THEN "waiting" ELSE "cancel")
  /\ vpnState' = IF handle = None THEN vpnState ELSE "Disconnecting"
  /\ handleLock' = IF handle = None THEN Left(handleLock, Task(r)) ELSE handleLock
  /\ UNCHANGED <<handle, rx, rxLock, reqVars, taken, thread, vpnVars>>

Reached == {r \in Req : r = pipe /\ InConnect(r)}

\* Faulty variant: the read guard lives as long as the wait that follows.
CancelHolding(r) ==
  /\ Move(r, "cancel", "waiting")
  /\ cancelled' = cancelled \union Reached
  /\ UNCHANGED <<sharedVars, lockVars, reqVars, taken, thread, pipe>>

\* vpn_disconnect writes to whatever g_cmd_pipe_fd is: the pipe of an attempt
\* that is still in vpn_connect, or a descriptor nobody reads.
Cancel(r) ==
  /\ Move(r, "cancel", "waiting")
  /\ cancelled' = cancelled \union Reached
  /\ handleLock' = Left(handleLock, Task(r))
  /\ UNCHANGED <<sharedVars, rxLock, reqVars, taken, thread, pipe>>

Sent(r) == thread[r] = "done"

\* disconnect_rx.await returns.
Finished(r) ==
  /\ Move(r, "waiting", "done")
  /\ Sent(taken[r])
  /\ rxLock' = Left(rxLock, Task(r))
  /\ UNCHANGED <<sharedVars, handleLock, reqVars, taken, thread, vpnVars>>

-----------------------------------------------------------------------------
ConnectTask(r) == Check(r) \/ SetHandle(r) \/ Announce(r) \/ SetRx(r)

DisconnectTask(r) ==
  \/ AskRx(r) \/ TakeRx(r) \/ NothingToTake(r) \/ NotConnected(r)
  \/ ReadHandle(r) \/ Cancel(r) \/ Finished(r)

\* What a thread does outside vpn.connect().
ThreadRuns(r) ==
  \/ ThreadAsks(r) \/ ThreadReads(r)
  \/ NotifyDisconnected(r) \/ AskToRemove(r) \/ RemoveHandle(r) \/ SendDone(r)

Next ==
  \/ \E k \in {"connect", "disconnect", "shutdown"} : Arrive(k)
  \/ \E r \in Req :
       \/ ConnectTask(r) \/ DisconnectTask(r) \/ ThreadRuns(r)
       \/ OpenPipe(r) \/ Connected(r) \/ Return(r)

Spec == Init /\ [][Next]_vars

\* Tasks and threads are scheduled, a cancelled vpn_connect returns.  No
\* attempt has to make progress or to end by itself.
Fairness ==
  \A r \in Req :
    /\ WF_vars(ConnectTask(r)) /\ WF_vars(DisconnectTask(r))
    /\ WF_vars(ThreadRuns(r))
    /\ WF_vars(r \in cancelled /\ Return(r))

FairSpec == Spec /\ Fairness

-----------------------------------------------------------------------------
(* Properties                                                              *)

\* Every variable has its type.
TypeOK ==
  /\ vpnState \in {"Disconnected", "Connecting", "Connected", "Disconnecting"}
  /\ handle \in 0 .. MaxReq /\ rx \in 0 .. MaxReq /\ pipe \in 0 .. MaxReq
  /\ arrived \in 0 .. MaxReq /\ stopping \in BOOLEAN
  /\ pc \in [Req -> {"none", "connect", "setHandle", "announce", "setRx",
                     "disconnect", "takeRx", "notConnected", "readHandle",
                     "cancel", "waiting", "done"}]
  /\ taken \in [Req -> 0 .. MaxReq]
  /\ thread \in [Req -> {"none", "spawned", "asking", "connecting",
                         "cancellable", "up", "returned", "notified",
                         "removing", "removed", "done"}]
  /\ cancelled \subseteq Req

\* A disconnect that has taken a receiver and not returned.
Disconnecting(d) == pc[d] \in {"readHandle", "cancel", "waiting"}

\* The thread runs and has not announced the end of its connection.
Live(r) ==
  thread[r] \in {"spawned", "asking", "connecting", "cancellable", "up", "returned"}

\* While a thread is in vpn.connect(), which borrows the Vpn behind the handle,
\* no request and no thread of an older connection replaces or removes it.
HandleStays == [][\A r \in Req : InConnect(r) => handle' = handle]_vars

\* While a disconnect cancels a connection and waits for its end, no other
\* connection begins, although its request may have passed connect's check of the
\* state long before, and disconnect_rx stays as the disconnect left it.
NoneBegins ==
  [][\A d \in Req : Disconnecting(d) =>
       rx' = rx /\ \A r \in Req : Live(r)' => Live(r)]_vars

\* "Wait for the VPN to be disconnected" (disconnect): a disconnect that reached
\* libopenconnect returns, whatever other requests queue for the locks, if its
\* connection is the only one.
CancelledDisconnectReturns ==
  \A d \in Req :
    (/\ pc[d] = "waiting" /\ taken[d] \in cancelled
     /\ \A r \in Req : Live(r) => r = taken[d]) ~> (pc[d] = "done")


-----------------------------------------------------------------------------
(* The inductive invariant behind the proofs                               *)

\* How far a request is tells what its thread and its receiver can be.
RequestInv ==
  /\ \A r \in Req : r > arrived => pc[r] = "none"
  /\ \A r \in Req : thread[r] # "none" => pc[r] = "done"
  /\ \A r \in Req : taken[r] # None =>
       pc[r] \in {"readHandle", "cancel", "waiting", "done"}

IInv == TypeOK /\ RequestInv
=============================================================================
