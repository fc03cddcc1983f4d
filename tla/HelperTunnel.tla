---------------------------- MODULE HelperTunnel ----------------------------
(***************************************************************************)
(* The privileged helper daemon of the macOS app: one TunnelManager, one   *)
(* HelperService per XPC connection, the listener that counts connections  *)
(* and the timer that lets the daemon exit when idle.                      *)
(*                                                                         *)
(* A run is one accepted startTunnel, numbered in the order the manager's  *)
(* serial queue accepted them.  XPC delivers the messages of a connection  *)
(* one at a time, those of different connections concurrently; between two *)
(* queue.sync sections of one call anything else may happen.  gpclient     *)
(* itself and Foundation's Process are external.                           *)
(***************************************************************************)
EXTENDS Naturals, Sequences, FiniteSets

CONSTANTS
  Conn,          \* the XPC connections clients may open, each opened once
  MaxRuns,       \* bound: runs accepted
  MaxLines,      \* bound: output lines of one gpclient
  HistoryLimit   \* TunnelManager.historyLimit

ASSUME BoundsAssumption ==
  /\ MaxRuns \in Nat \ {0}
  /\ MaxLines \in Nat
  /\ HistoryLimit \in Nat \ {0}

Run == 1 .. MaxRuns
NoRun == 0

VARIABLES
  daemon,       \* is the process alive: "up", "down" (launchd restarts it)
  timer,        \* how far the idle timer's condition has been evaluated
  quiet,        \* idleSeconds > idleExitAfter
  conn,         \* [Conn -> "none" | "open" | "closed"]
  pc,           \* where each connection's startTunnel call is
  work,         \* the run that call was given
  running, runner, history, lastExitCode, observers,  \* TunnelManager
  runs,         \* runs accepted so far, over all daemon lives
  task,         \* [Run -> progress of the run's Task]
  proc,         \* [Run -> "none" | "up" | "down"]: the gpclient process
  signalled,    \* [Run -> BOOLEAN]: it was sent SIGINT or SIGTERM
  produced,     \* [Run -> Nat]: lines taken from the pipe so far
  held,         \* [Run -> Nat]: line a readability callback holds, 0 if none
  calls,        \* runs whose runner a stop() or kill() Task is yet to call
  casts,        \* notification loops of record() and finish() under way
  inbox         \* [Conn -> Seq]: what each client was sent, in order

listenerVars == <<daemon, timer, quiet, conn>>
callVars == <<pc, work, runs>>
managerVars == <<running, runner, lastExitCode>>
processVars == <<proc, signalled>>
outputVars == <<produced, held>>
vars == <<listenerVars, callVars, managerVars, history, observers, task,
          processVars, outputVars, calls, casts, inbox>>

Line(r, n) == [kind |-> "line", run |-> r, n |-> n]
Exit(r) == [kind |-> "exit", run |-> r, n |-> 0]
Messages == [kind : {"line", "exit"}, run : Run, n : Nat]

\* A loop over the observers copied out of the queue: one per source thread
\* (the pipe's readability callback, the termination handler, finish).
Cast(src, msg, to) == [src |-> src, msg |-> msg, to |-> to]
Casts == [src : {"reader", "drain", "finish"}, msg : Messages, to : SUBSET Conn]
Busy(src, r) == \E b \in casts : b.src = src /\ b.msg.run = r

\* A run that was accepted and whose finish() has not run.
Active(r) == task[r] \in {"claimed", "spawned", "verified", "running", "exited"}

-----------------------------------------------------------------------------
Init ==
  /\ daemon = "up" /\ timer = "waiting" /\ quiet = FALSE
  /\ conn = [c \in Conn |-> "none"]
  /\ pc = [c \in Conn |-> "ready"]
  /\ work = [c \in Conn |-> NoRun]
  /\ running = FALSE /\ runner = NoRun /\ lastExitCode = FALSE
  /\ history = <<>> /\ observers = {}
  /\ runs = 0
  /\ task = [r \in Run |-> "none"]
  /\ proc = [r \in Run |-> "none"]
  /\ signalled = [r \in Run |-> FALSE]
  /\ produced = [r \in Run |-> 0]
  /\ held = [r \in Run |-> 0]
  /\ calls = {} /\ casts = {}
  /\ inbox = [c \in Conn |-> <<>>]

-----------------------------------------------------------------------------
(* The listener                                                            *)

\* shouldAcceptNewConnection and HelperService.init.  launchd starts the
\* daemon if it is not running; a fresh daemon has just been idle 0 seconds.
Accept(c) ==
  /\ conn[c] = "none"
  /\ conn' = [conn EXCEPT ![c] = "open"]
  /\ observers' = observers \union {c}
  /\ quiet' = FALSE
  /\ daemon' = "up"
  /\ UNCHANGED <<timer, callVars, managerVars, history, task, processVars,
                 outputVars, calls, casts, inbox>>

\* HelperService.invalidate; what the client was sent goes with the client.
Forget(c) ==
  /\ conn' = [conn EXCEPT ![c] = "closed"]
  /\ observers' = observers \ {c}
  /\ work' = [work EXCEPT ![c] = NoRun]
  /\ inbox' = [inbox EXCEPT ![c] = <<>>]
  /\ UNCHANGED <<daemon, timer, pc, runs, managerVars, history, task,
                 processVars, outputVars, calls, casts>>

\* Faulty variant: the handler forgets to refresh lastActivity.
InvalidateQuietly(c) ==
  /\ conn[c] = "open" /\ pc[c] = "ready"
  /\ Forget(c)
  /\ UNCHANGED quiet

\* invalidationHandler; XPC runs it after the connection's pending call.
Invalidate(c) ==
  /\ conn[c] = "open" /\ pc[c] = "ready"
  /\ Forget(c)
  /\ quiet' = FALSE

-----------------------------------------------------------------------------
(* TunnelManager.start, one action per queue.sync section                  *)

\* Faulty variants: the check is not made inside the queue; the slot is
\* considered free as soon as no gpclient is up.
SlotUnchecked == TRUE
SlotFreeByProcess == \A r \in Run : proc[r] # "up"

SlotFree == ~running

Told(c, msg) == \E i \in DOMAIN inbox[c] : inbox[c][i] = msg

\* HelperProcessRunner.run, the only caller, returns when it is told the exit.
CallerFree(c) == work[c] = NoRun \/ Told(c, Exit(work[c]))

\* The first section: claim the slot, or throw alreadyRunning.  Requests the
\* validator rejects change nothing and are left out.
Claim(c) ==
  /\ conn[c] = "open" /\ pc[c] = "ready" /\ CallerFree(c) /\ runs < MaxRuns
  /\ SlotFree
  /\ runs' = runs + 1
  /\ running' = TRUE
  /\ history' = <<>>
  /\ lastExitCode' = FALSE
  /\ task' = [task EXCEPT ![runs + 1] = "claimed"]
  /\ pc' = [pc EXCEPT ![c] = "claimed"]
  /\ work' = [work EXCEPT ![c] = runs + 1]
  /\ UNCHANGED <<listenerVars, runner, observers, processVars,
                 outputVars, calls, casts, inbox>>

\* makeRunner, the second section and the creation of the Task; start returns
\* after a third section that stores the Task in runTask, which nothing reads.
SetRunner(c) ==
  /\ pc[c] = "claimed"
  /\ runner' = work[c]
  /\ task' = [task EXCEPT ![work[c]] = "spawned"]
  /\ pc' = [pc EXCEPT ![c] = "ready"]
  /\ UNCHANGED <<listenerVars, work, runs, running, lastExitCode, history,
                 observers, processVars, outputVars, calls, casts, inbox>>

-----------------------------------------------------------------------------
(* stop() and kill(): the runner is read in the queue, the actor call is a *)
(* Task of its own that nothing orders with the run's Task.                *)

Signal(c) ==
  /\ conn[c] = "open" /\ pc[c] = "ready" /\ runner # NoRun
  /\ calls' = calls \union {runner}
  /\ UNCHANGED <<listenerVars, callVars, managerVars, history, observers,
                 task, processVars, outputVars, casts, inbox>>

\* Faulty variant: VerifiedRunner does not relay the call.
DropSignal(r) ==
  /\ r \in calls
  /\ calls' = calls \ {r}
  /\ UNCHANGED <<listenerVars, callVars, managerVars, history, observers,
                 task, processVars, outputVars, casts, inbox>>

\* VerifiedRunner relays to ProcessRunner.interrupt / terminate, which do
\* nothing unless the process was launched and has not ended.
DeliverSignal(r) ==
  /\ r \in calls
  /\ calls' = calls \ {r}
  /\ signalled' = [signalled EXCEPT ![r] = @ \/ proc[r] = "up"]
  /\ UNCHANGED <<listenerVars, callVars, managerVars, history, observers,
                 task, proc, outputVars, casts, inbox>>

-----------------------------------------------------------------------------
(* The run's Task                                                          *)

\* Faulty variant: the observers that are told are none, the ones of a
\* manager that copies them after clearing.
NoTargets == {}

Targets == observers

Notifying(src, msg) ==
  IF Targets = {} THEN casts ELSE casts \union {Cast(src, msg, Targets)}

\* finish(): frees the slot and copies the observers inside the queue, then
\* notifies them outside it.
Finish(r) ==
  /\ task' = [task EXCEPT ![r] = "finished"]
  /\ running' = FALSE
  /\ runner' = NoRun
  /\ lastExitCode' = TRUE
  /\ casts' = Notifying("finish", Exit(r))
  /\ UNCHANGED <<listenerVars, callVars, history, observers, outputVars,
                 calls, inbox>>

\* VerifiedRunner.run: the signature checks pass, or throw into finish(-1).
VerifyOk(r) ==
  /\ task[r] = "spawned"
  /\ task' = [task EXCEPT ![r] = "verified"]
  /\ UNCHANGED <<listenerVars, callVars, managerVars, history, observers,
                 processVars, outputVars, calls, casts, inbox>>

VerifyFail(r) ==
  /\ task[r] = "spawned"
  /\ Finish(r)
  /\ UNCHANGED processVars

\* ProcessRunner.run up to its suspension: currentProcess is set and the
\* process launched in one actor job, or process.run() throws.
Launch(r) ==
  /\ task[r] = "verified"
  /\ task' = [task EXCEPT ![r] = "running"]
  /\ proc' = [proc EXCEPT ![r] = "up"]
  /\ UNCHANGED <<listenerVars, callVars, managerVars, history, observers,
                 signalled, outputVars, calls, casts, inbox>>

LaunchFail(r) ==
  /\ task[r] = "verified"
  /\ Finish(r)
  /\ UNCHANGED processVars

\* gpclient ends, by itself or because it was signalled.
ProcessExit(r) ==
  /\ proc[r] = "up"
  /\ proc' = [proc EXCEPT ![r] = "down"]
  /\ signalled' = [signalled EXCEPT ![r] = FALSE]
  /\ UNCHANGED <<listenerVars, callVars, managerVars, history, observers,
                 task, outputVars, calls, casts, inbox>>

\* The termination handler has drained the pipe and resumes run().
Resume(r) ==
  /\ task[r] = "running" /\ proc[r] = "down" /\ ~Busy("drain", r)
  /\ task' = [task EXCEPT ![r] = "exited"]
  /\ UNCHANGED <<listenerVars, callVars, managerVars, history, observers,
                 processVars, outputVars, calls, casts, inbox>>

FinishRun(r) ==
  /\ task[r] = "exited"
  /\ Finish(r)
  /\ UNCHANGED processVars

-----------------------------------------------------------------------------
(* Output                                                                  *)

LastOf(s, k) == SubSeq(s, IF Len(s) > k THEN Len(s) - k + 1 ELSE 1, Len(s))

\* Faulty variant: trims when the limit is reached one line late.
TrimmedLate(s) == LastOf(s, HistoryLimit + 1)

Trimmed(s) == LastOf(s, HistoryLimit)

\* record(): append and trim inside the queue, notify outside it.
Record(src, r, n) ==
  /\ history' = Trimmed(Append(history, Line(r, n)))
  /\ casts' = Notifying(src, Line(r, n))
  /\ UNCHANGED <<listenerVars, callVars, managerVars, observers, task,
                 processVars, calls, inbox>>

\* The readability callback takes a line off the pipe; callbacks of one pipe
\* are serial, and a line it holds may still be unrecorded when gpclient ends.
ReadLine(r) ==
  /\ proc[r] = "up" /\ task[r] = "running" /\ produced[r] < MaxLines
  /\ held[r] = 0 /\ ~Busy("reader", r)
  /\ produced' = [produced EXCEPT ![r] = @ + 1]
  /\ held' = [held EXCEPT ![r] = produced[r] + 1]
  /\ UNCHANGED <<listenerVars, callVars, managerVars, history, observers,
                 task, processVars, calls, casts, inbox>>

RecordHeld(r) ==
  /\ held[r] # 0 /\ daemon = "up"
  /\ held' = [held EXCEPT ![r] = 0]
  /\ Record("reader", r, held[r])
  /\ UNCHANGED produced

\* The termination handler reads what is left in the pipe.
Drain(r) ==
  /\ task[r] = "running" /\ proc[r] = "down" /\ produced[r] < MaxLines
  /\ ~Busy("drain", r)
  /\ produced' = [produced EXCEPT ![r] = @ + 1]
  /\ Record("drain", r, produced[r] + 1)
  /\ UNCHANGED held

\* One iteration of a notification loop; a message to a connection that was
\* invalidated meanwhile goes nowhere.
Notify(b, c) ==
  /\ b \in casts /\ c \in b.to
  /\ casts' = (casts \ {b}) \union
               (IF b.to = {c} THEN {} ELSE {Cast(b.src, b.msg, b.to \ {c})})
  /\ inbox' = [inbox EXCEPT ![c] =
                 IF conn[c] = "open" THEN Append(@, b.msg) ELSE @]
  /\ UNCHANGED <<listenerVars, callVars, managerVars, history, observers,
                 task, processVars, outputVars, calls>>

-----------------------------------------------------------------------------
(* Idle exit (main.swift): every 15 seconds the timer evaluates its three  *)
(* conditions one after the other, each under its own lock, then exits.    *)
(* Assumed: the 60 seconds do not pass between two of its reads.           *)

Elapse ==
  /\ daemon = "up" /\ timer = "waiting" /\ ~quiet
  /\ quiet' = TRUE
  /\ UNCHANGED <<daemon, timer, conn, callVars, managerVars, history,
                 observers, task, processVars, outputVars, calls, casts, inbox>>

TimerStep(from, to, test) ==
  /\ daemon = "up" /\ timer = from
  /\ timer' = IF test THEN to ELSE "waiting"
  /\ UNCHANGED <<daemon, quiet, conn, callVars, managerVars, history,
                 observers, task, processVars, outputVars, calls, casts, inbox>>

OpenConnections == {c \in Conn : conn[c] = "open"}

CheckRunning == TimerStep("waiting", "notRunning", ~running)
CheckOpen == TimerStep("notRunning", "notOpen", OpenConnections = {})
CheckQuiet == TimerStep("notOpen", "exiting", quiet)

\* exit(0): the daemon's memory is gone, its connections drop.  Whether a
\* gpclient that is running survives its parent is launchd's affair.
ExitDaemon ==
  /\ daemon = "up" /\ timer = "exiting"
  /\ daemon' = "down" /\ timer' = "waiting" /\ quiet' = FALSE
  /\ conn' = [c \in Conn |-> IF conn[c] = "open" THEN "closed" ELSE conn[c]]
  /\ pc' = [c \in Conn |-> "ready"] /\ work' = [c \in Conn |-> NoRun]
  /\ inbox' = [c \in Conn |-> <<>>]
  /\ running' = FALSE /\ runner' = NoRun /\ lastExitCode' = FALSE
  /\ history' = <<>> /\ observers' = {}
  /\ task' = [r \in Run |-> IF Active(r) THEN "lost" ELSE task[r]]
  /\ \E gone \in SUBSET {r \in Run : proc[r] = "up"} :
       proc' = [r \in Run |-> IF r \in gone THEN "down" ELSE proc[r]]
  /\ held' = [r \in Run |-> 0]
  /\ calls' = {} /\ casts' = {}
  /\ UNCHANGED <<runs, signalled, produced>>

-----------------------------------------------------------------------------
RunTask(r) ==
  \/ VerifyOk(r) \/ VerifyFail(r)
  \/ Launch(r) \/ LaunchFail(r)
  \/ Resume(r) \/ FinishRun(r)

Output(r) == ReadLine(r) \/ RecordHeld(r) \/ Drain(r)

IdleTimer == CheckRunning \/ CheckOpen \/ CheckQuiet \/ ExitDaemon

NotifySome == \E b \in casts : \E c \in b.to : Notify(b, c)

Next ==
  \/ \E c \in Conn : Accept(c) \/ Invalidate(c) \/ Claim(c) \/ SetRunner(c)
                     \/ Signal(c)
  \/ \E r \in Run : DeliverSignal(r) \/ RunTask(r) \/ ProcessExit(r) \/ Output(r)
  \/ NotifySome
  \/ Elapse \/ IdleTimer

Spec == Init /\ [][Next]_vars

\* Threads and Tasks are scheduled.  Nobody has to connect, start, stop or
\* disconnect, and no gpclient has to end, signalled or not: each of its signal
\* tasks takes one signal only (gateway.rs:404-409), possibly in an attempt
\* that is over.
Fairness ==
  /\ \A c \in Conn : WF_vars(SetRunner(c))
  /\ \A r \in Run : WF_vars(RunTask(r)) /\ WF_vars(RecordHeld(r))
  /\ \A r \in Run : WF_vars(DeliverSignal(r))
  /\ WF_vars(NotifySome)

FairSpec == Spec /\ Fairness

-----------------------------------------------------------------------------
(* Properties                                                              *)

ControlType ==
  /\ daemon \in {"up", "down"} /\ quiet \in BOOLEAN
  /\ timer \in {"waiting", "notRunning", "notOpen", "exiting"}
  /\ conn \in [Conn -> {"none", "open", "closed"}]
  /\ pc \in [Conn -> {"ready", "claimed"}]
  /\ work \in [Conn -> 0 .. MaxRuns]
  /\ running \in BOOLEAN /\ runner \in 0 .. MaxRuns
  /\ lastExitCode \in BOOLEAN
  /\ observers \subseteq Conn /\ calls \subseteq Run
  /\ runs \in 0 .. MaxRuns
  /\ task \in [Run -> {"none", "claimed", "spawned", "verified", "running",
                       "exited", "finished", "lost"}]
  /\ proc \in [Run -> {"none", "up", "down"}]
  /\ signalled \in [Run -> BOOLEAN]

OutputType ==
  /\ history \in Seq(Messages) /\ Len(history) <= HistoryLimit
  /\ produced \in [Run -> 0 .. MaxLines] /\ held \in [Run -> 0 .. MaxLines]
  /\ casts \subseteq Casts
  /\ inbox \in [Conn -> Seq(Messages)]

\* Every variable has its type; the history never exceeds historyLimit.
TypeOK == ControlType /\ OutputType

\* The gpclients this daemon started that have not ended.
Live == {r \in Run : proc[r] = "up" /\ task[r] # "lost"}

\* "The helper's single tunnel": whatever the connections request, however
\* their calls interleave with a run that is ending, there are never two
\* gpclients of one daemon, and none once its run is reported as finished.
OneTunnel ==
  /\ \A r, s \in Live : r = s
  /\ \A r \in Live : task[r] = "running"

\* A gpclient that is up is always the one status() reports and the one
\* stop() and kill() reach, so a re-attaching app can disconnect it.
LiveIsReachable == \A r \in Live : running /\ runner = r

\* The promise as a specification of its own: one slot, one launch per run, the
\* slot given back only after gpclient has ended.
Slot == INSTANCE TunnelSlot WITH
  owner <- IF running THEN runs ELSE NoRun,
  live <- Live,
  used <- {r \in Run : task[r] # "none"},
  launched <- {r \in Run : proc[r] # "none"}

SlotSpec == Slot!Spec

\* The timer takes its three readings at different moments, yet when the last
\* one lets it exit all three hold at once: no tunnel, no client.
IdleDecisionSound ==
  [][timer # "exiting" /\ timer' = "exiting"
       => ~running /\ OpenConnections = {}]_vars

\* "Exits when idle" (OverlandApp/README.md): the daemon never exits while it
\* runs a tunnel.
ExitsOnlyWhenIdle == [][daemon = "up" /\ daemon' = "down" => ~running]_vars

\* The connection that started a tunnel hears of its end, unless it left or
\* the daemon went away: the client's run() resolves.
ExitAnnounced ==
  \A c \in Conn, r \in Run :
    (work[c] = r /\ conn[c] = "open" /\ proc[r] = "down")
      ~> (Told(c, Exit(r)) \/ conn[c] = "closed")

\* A stop or kill that found gpclient up is never lost on its way through the
\* runner: gpclient gets the signal, or has ended meanwhile and the slot is free.
SignalArrives ==
  \A r \in Run :
    (r \in Live /\ r \in calls)
      ~> (signalled[r] \/ task[r] \in {"finished", "lost"})

-----------------------------------------------------------------------------
(* The inductive invariant behind the proofs                               *)

\* The run that holds the slot is the last one accepted.
SlotInv ==
  /\ \A r \in Run : task[r] = "none" <=> r > runs
  /\ \A r \in Run : Active(r) <=> running /\ r = runs
  /\ running => runs > 0
  /\ runner # NoRun => running /\ runner = runs /\ task[runs] # "claimed"

\* How far a run's Task is tells where its gpclient is.
ProcInv ==
  /\ \A r \in Run : task[r] \in {"none", "claimed", "spawned", "verified"}
                       => proc[r] = "none"
  /\ \A r \in Run : task[r] = "running" => proc[r] # "none"
  /\ \A r \in Run : task[r] \in {"spawned", "verified", "running", "exited"}
                       => runner = r
  /\ \A r \in Run : task[r] \in {"exited", "finished"} => proc[r] # "up"

\* A call between its first two sections holds the slot.
CallInv ==
  \A c \in Conn : pc[c] = "claimed" =>
    /\ conn[c] = "open" /\ running /\ work[c] = runs
    /\ task[runs] = "claimed"
    /\ \A d \in Conn : pc[d] = "claimed" => d = c

\* What the timer's readings still say while nobody connected or left.
TimerInv ==
  /\ timer # "waiting" => daemon = "up"
  /\ daemon = "down" => ~running /\ OpenConnections = {}
  /\ timer = "notRunning" /\ quiet /\ running => OpenConnections # {}
  /\ timer = "notOpen" /\ quiet => ~running /\ OpenConnections = {}

\* The inductive invariant of the daemon.
IInv == TypeOK /\ SlotInv /\ ProcInv /\ CallInv /\ TimerInv
=============================================================================
