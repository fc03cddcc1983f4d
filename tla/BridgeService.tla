---------------------------- MODULE BridgeService ----------------------------
(***************************************************************************)
(* GpclientBridgeService, the actor of the macOS app that turns gpauth and *)
(* gpclient runs into one connection state.                                *)
(*                                                                         *)
(* An actor runs one piece of code at a time, from one await to the next:  *)
(* those pieces are the actions.  Every output line that changes the state *)
(* is handled by a Task of its own, and Tasks are not ordered.  The        *)
(* runners are modelled by what the service sees of them: isRunning, when  *)
(* a signal reaches gpclient and when run() resolves.  Status texts, logs  *)
(* and the contents of ConnectedDetails are left out.                      *)
(***************************************************************************)
EXTENDS Naturals, FiniteSets

CONSTANTS
  Caller,      \* the tasks of the view model that call the service
  NoCaller,
  Ops,         \* the operations they call in this instance
  MaxTunnels,  \* bound: calls of superviseTunnel
  MaxSinks     \* bound: stateSink Tasks pending at once

ASSUME ConstantsAssumption ==
  /\ NoCaller \notin Caller
  /\ Ops \subseteq {"connect", "disconnect", "discover", "adopt"}
  /\ MaxTunnels \in Nat \ {0}
  /\ MaxSinks \in Nat

Tunnel == 1 .. MaxTunnels
NoTunnel == 0
States == {"disconnected", "connecting", "connected", "disconnecting", "failed"}

VARIABLES
  currentState, authRunner, tunnelRunner, disconnectRequested,
  activeDetails,  \* is it non-nil
  pc,             \* [Caller -> the await its call is suspended at]
  previous,       \* [Caller -> States]: discoverGateways' local variable
  target,         \* [Caller -> tunnel]: disconnect's local variable runner
  auth,           \* [Caller -> "none" | "up" | "ended"]: its gpauth or gpclient
  terminating,    \* callers whose auth run disconnect is about to terminate
  terminated,     \* callers whose auth run has been sent SIGTERM
  sinks,          \* stateSink Tasks not run yet
  tunnels,        \* superviseTunnel calls so far
  tun,            \* [Tunnel -> stage of the supervising Task]
  adopted,        \* [Tunnel -> BOOLEAN]: gpclient was running before
  signal,         \* [Tunnel -> "none" | "int" | "term"]: what reached gpclient
  reported,       \* [Tunnel -> BOOLEAN]: gpclient logged that it is connected
  handlers,       \* handler Tasks not run yet: <<kind, tunnel>>
  launching       \* handleLaunch has not called the service yet

stateVars == <<currentState, activeDetails>>
callVars == <<pc, previous, target>>
authVars == <<authRunner, auth, terminating, terminated>>
tunVars == <<tunnelRunner, tunnels, tun, adopted>>
gpclientVars == <<signal, reported>>
vars == <<stateVars, disconnectRequested, callVars, authVars, sinks, tunVars,
          gpclientVars, handlers, launching>>

Busy == currentState \in {"connecting", "disconnecting"}

\* A tunnel is supervised from superviseTunnel to finishTunnel.  Its stages:
\* "starting": the Task has yet to run, or HelperProcessRunner.run is at
\*   checkVersion: the runner says it is not running;
\* "launching": it says it is running, gpclient is not up (admin dialog, XPC);
\* "up": gpclient runs; "ended": run() resolved, finishTunnel is pending.
Supervised == {t \in Tunnel : tun[t] \in {"starting", "launching", "up", "ended"}}

\* Faulty variant: a runner forgets its process once it has interrupted it.
IsRunningUntouched(t) == tun[t] \in {"launching", "up"} /\ signal[t] = "none"

IsRunning(t) == tun[t] \in {"launching", "up"}

SigningIn == {c \in Caller : pc[c] = "signIn"}
Discovering == {c \in Caller : pc[c] \in {"discoverSignIn", "discover"}}

-----------------------------------------------------------------------------
Init ==
  /\ currentState = "disconnected" /\ activeDetails = FALSE
  /\ authRunner = NoCaller /\ tunnelRunner = NoTunnel
  /\ disconnectRequested = FALSE
  /\ pc = [c \in Caller |-> "idle"]
  /\ previous = [c \in Caller |-> "disconnected"]
  /\ target = [c \in Caller |-> NoTunnel]
  /\ auth = [c \in Caller |-> "none"]
  /\ terminating = {} /\ terminated = {}
  /\ sinks = 0
  /\ tunnels = 0
  /\ tun = [t \in Tunnel |-> "none"]
  /\ adopted = [t \in Tunnel |-> FALSE]
  /\ signal = [t \in Tunnel |-> "none"]
  /\ reported = [t \in Tunnel |-> FALSE]
  /\ handlers = {}
  /\ launching = TRUE

-----------------------------------------------------------------------------
(* Building blocks                                                         *)

\* runUnprivileged up to its await; gpauth is launched before the actor that
\* runs it takes another call.
RunUnprivileged(c, at) ==
  /\ authRunner' = c
  /\ auth' = [auth EXCEPT ![c] = "up"]
  /\ pc' = [pc EXCEPT ![c] = at]
  /\ currentState' = "connecting"
  /\ terminating' = terminating \ {c}
  /\ terminated' = terminated \ {c}

\* runUnprivileged returning: whatever authRunner holds is cleared, and a
\* terminate() still on its way finds a process that has ended.
ReleaseAuth(c) ==
  /\ authRunner' = NoCaller
  /\ auth' = [auth EXCEPT ![c] = "none"]
  /\ terminating' = terminating \ {c}
  /\ terminated' = terminated \ {c}

\* superviseTunnel and what its callers set just before.  The guard that fails
\* without a runner is not taken: both the factory of the app (HelperManager) and
\* the default one always give a runner for the admin dialog, the fallback.
Supervise(isAdopted) ==
  /\ tunnels < MaxTunnels
  /\ tunnels' = tunnels + 1
  /\ tunnelRunner' = tunnels + 1
  /\ tun' = [tun EXCEPT ![tunnels + 1] = "starting"]
  /\ adopted' = [adopted EXCEPT ![tunnels + 1] = isAdopted]
  /\ activeDetails' = TRUE
  /\ currentState' = "connecting"

\* Bound: every attempt in progress may still start a tunnel.
Room == tunnels + Cardinality(SigningIn)
          + Cardinality({c \in Caller : pc[c] = "attach"}) < MaxTunnels

-----------------------------------------------------------------------------
(* connect                                                                 *)

\* Faulty variant: only a connected service refuses.
MayConnectWhileBusy == currentState # "connected"

MayConnect == ~Busy /\ currentState # "connected"

\* A password profile goes straight to the tunnel, an SSO one signs in first.
Connect(c) ==
  /\ "connect" \in Ops /\ pc[c] = "idle" /\ Room
  /\ MayConnect
  /\ disconnectRequested' = FALSE
  /\ \/ /\ Supervise(FALSE)
        /\ UNCHANGED <<pc, authVars>>
     \/ /\ RunUnprivileged(c, "signIn")
        /\ activeDetails' = FALSE
        /\ UNCHANGED tunVars
  /\ UNCHANGED <<previous, target, sinks, gpclientVars, handlers, launching>>

\* Faulty variant: a sign-in that succeeded goes on although it was cancelled.
ProceedOnSuccess(ok) == ok

Proceed(ok) == ok /\ ~disconnectRequested

\* The sign-in is over: gpauth printed a result (ok) or did not.
SignedIn(c) ==
  /\ pc[c] = "signIn" /\ auth[c] = "ended"
  /\ ReleaseAuth(c)
  /\ pc' = [pc EXCEPT ![c] = "idle"]
  /\ \E ok \in BOOLEAN :
       \/ Proceed(ok) /\ Supervise(FALSE)
       \/ /\ ~Proceed(ok)
          /\ currentState' = IF disconnectRequested THEN "disconnected" ELSE "failed"
          /\ UNCHANGED <<activeDetails, tunVars>>
  /\ UNCHANGED <<disconnectRequested, previous, target, sinks, gpclientVars,
                 handlers, launching>>

-----------------------------------------------------------------------------
(* discoverGateways                                                        *)

\* Faulty variant: the deferred block is missing.
RestoreNothing(c) == UNCHANGED currentState

\* defer { if !currentState.isConnected { setState(previous) } }
Restore(c) ==
  currentState' = IF currentState = "connected" THEN "connected" ELSE previous[c]

\* The view model starts no second discovery; a connected service takes one.
Discover(c) ==
  /\ "discover" \in Ops /\ pc[c] = "idle" /\ Discovering = {}
  /\ ~Busy
  /\ previous' = [previous EXCEPT ![c] = currentState]
  /\ disconnectRequested' = FALSE
  /\ \E at \in {"discoverSignIn", "discover"} : RunUnprivileged(c, at)
  /\ UNCHANGED <<activeDetails, target, sinks, tunVars, gpclientVars, handlers,
                 launching>>

\* After the sign-in the discovery command runs, unless it failed or was
\* cancelled: the runner is replaced without an await in between.
DiscoverySignedIn(c) ==
  /\ pc[c] = "discoverSignIn" /\ auth[c] = "ended"
  /\ \E ok \in BOOLEAN :
       \/ /\ Proceed(ok)
          /\ RunUnprivileged(c, "discover")
          /\ UNCHANGED previous
       \/ /\ ~Proceed(ok)
          /\ ReleaseAuth(c)
          /\ pc' = [pc EXCEPT ![c] = "idle"]
          /\ Restore(c)
          /\ previous' = [previous EXCEPT ![c] = "disconnected"]
  /\ UNCHANGED <<activeDetails, disconnectRequested, target, sinks, tunVars,
                 gpclientVars, handlers, launching>>

Discovered(c) ==
  /\ pc[c] = "discover" /\ auth[c] = "ended"
  /\ ReleaseAuth(c)
  /\ pc' = [pc EXCEPT ![c] = "idle"]
  /\ Restore(c)
  /\ previous' = [previous EXCEPT ![c] = "disconnected"]
  /\ UNCHANGED <<activeDetails, disconnectRequested, target, sinks, tunVars,
                 gpclientVars, handlers, launching>>

-----------------------------------------------------------------------------
(* adoptOrphanedSession                                                    *)

\* handleLaunch calls it once; the guard is evaluated before the await.
Adopt(c) ==
  /\ "adopt" \in Ops /\ pc[c] = "idle" /\ launching /\ Room
  /\ launching' = FALSE
  /\ currentState = "disconnected" /\ tunnelRunner = NoTunnel
  /\ pc' = [pc EXCEPT ![c] = "attach"]
  /\ UNCHANGED <<stateVars, disconnectRequested, previous, target, authVars,
                 sinks, tunVars, gpclientVars, handlers>>

\* A session of the helper or of the admin dialog's wrapper is found, or none.
Attached(c) ==
  /\ pc[c] = "attach"
  /\ pc' = [pc EXCEPT ![c] = "idle"]
  /\ \/ Supervise(TRUE) /\ disconnectRequested' = FALSE
     \/ UNCHANGED <<stateVars, disconnectRequested, tunVars>>
  /\ UNCHANGED <<previous, target, authVars, sinks, gpclientVars, handlers,
                 launching>>

-----------------------------------------------------------------------------
(* disconnect                                                              *)

SignInUnderWay == authRunner # NoCaller

Disconnect(c) ==
  /\ "disconnect" \in Ops /\ pc[c] = "idle"
  /\ disconnectRequested' = TRUE
  /\ \/ /\ SignInUnderWay
        /\ currentState' = "disconnecting"
        /\ terminating' = terminating \union {authRunner}
        /\ UNCHANGED <<pc, target>>
     \/ /\ ~SignInUnderWay /\ tunnelRunner = NoTunnel
        /\ currentState' = "disconnected"
        /\ UNCHANGED <<pc, target, terminating>>
     \/ /\ ~SignInUnderWay /\ tunnelRunner # NoTunnel
        /\ currentState' = "disconnecting"
        /\ pc' = [pc EXCEPT ![c] = "interrupt"]
        /\ target' = [target EXCEPT ![c] = tunnelRunner]
        /\ UNCHANGED terminating
  /\ UNCHANGED <<activeDetails, previous, authRunner, auth, terminated, sinks,
                 tunVars, gpclientVars, handlers, launching>>

\* Faulty variant: the runner's terminate does not signal its process.
TerminateNothing(c) ==
  /\ c \in terminating
  /\ terminating' = terminating \ {c}
  /\ UNCHANGED <<stateVars, disconnectRequested, callVars, authRunner, auth,
                 terminated, sinks, tunVars, gpclientVars, handlers, launching>>

\* auth.terminate(); the caller has nothing left to do.
TerminateAuth(c) ==
  /\ c \in terminating
  /\ terminating' = terminating \ {c}
  /\ terminated' = IF auth[c] = "up" THEN terminated \union {c} ELSE terminated
  /\ UNCHANGED <<stateVars, disconnectRequested, callVars, authRunner, auth, sinks,
                 tunVars, gpclientVars, handlers, launching>>

\* Can a signal sent now reach gpclient?  Not before it is up, except that a
\* stop sent while attaching finds the helper's gpclient (not the wrapper's).
Reaches(t) == IF tun[t] = "up" THEN {TRUE}
              ELSE IF tun[t] = "starting" /\ adopted[t] THEN BOOLEAN
              ELSE {FALSE}

SendSignal(t, s) ==
  \E reached \in Reaches(t) :
    signal' = [signal EXCEPT ![t] = IF reached /\ @ # "term" THEN s ELSE @]

Interrupt(c) ==
  /\ pc[c] = "interrupt"
  /\ SendSignal(target[c], "int")
  /\ pc' = [pc EXCEPT ![c] = "waiting"]
  /\ UNCHANGED <<stateVars, disconnectRequested, previous, target, authVars, sinks,
                 tunVars, reported, handlers, launching>>

\* The polling loop ends: the runner is not running, or the grace period is over.
Waited(c) ==
  /\ pc[c] = "waiting"
  /\ IF IsRunning(target[c])
       THEN /\ pc' = [pc EXCEPT ![c] = "terminate"]
            /\ UNCHANGED target
       ELSE /\ pc' = [pc EXCEPT ![c] = "idle"]
            /\ target' = [target EXCEPT ![c] = NoTunnel]
  /\ UNCHANGED <<stateVars, disconnectRequested, previous, authVars, sinks, tunVars,
                 gpclientVars, handlers, launching>>

Terminate(c) ==
  /\ pc[c] = "terminate"
  /\ SendSignal(target[c], "term")
  /\ pc' = [pc EXCEPT ![c] = "idle"]
  /\ target' = [target EXCEPT ![c] = NoTunnel]
  /\ UNCHANGED <<stateVars, disconnectRequested, previous, authVars, sinks, tunVars,
                 reported, handlers, launching>>

-----------------------------------------------------------------------------
(* The unprivileged runs                                                   *)

\* A line that reports the state of the sign-in.
AuthLine(c) ==
  /\ auth[c] = "up" /\ sinks < MaxSinks
  /\ sinks' = sinks + 1
  /\ UNCHANGED <<stateVars, disconnectRequested, callVars, authVars, tunVars,
                 gpclientVars, handlers, launching>>

AuthExit(c) ==
  /\ auth[c] = "up"
  /\ auth' = [auth EXCEPT ![c] = "ended"]
  /\ UNCHANGED <<stateVars, disconnectRequested, callVars, authRunner, terminating,
                 terminated, sinks, tunVars, gpclientVars, handlers, launching>>

\* stateSink's Task.
RunSink ==
  /\ sinks > 0
  /\ sinks' = sinks - 1
  /\ currentState' = "connecting"
  /\ UNCHANGED <<activeDetails, disconnectRequested, callVars, authVars, tunVars,
                 gpclientVars, handlers, launching>>

-----------------------------------------------------------------------------
(* The supervising Task and gpclient                                       *)

\* run() gets under way: the version check passed, the dialog is shown.
Launch(t) ==
  /\ tun[t] = "starting" /\ ~adopted[t]
  /\ tun' = [tun EXCEPT ![t] = "launching"]
  /\ UNCHANGED <<stateVars, disconnectRequested, callVars, authVars, sinks,
                 tunnelRunner, tunnels, adopted, gpclientVars, handlers, launching>>

\* gpclient is up, or was all along.
ComeUp(t) ==
  /\ tun[t] = "launching" \/ (tun[t] = "starting" /\ adopted[t])
  /\ tun' = [tun EXCEPT ![t] = "up"]
  /\ UNCHANGED <<stateVars, disconnectRequested, callVars, authVars, sinks,
                 tunnelRunner, tunnels, adopted, gpclientVars, handlers, launching>>

\* run() resolves: refused, cancelled in the dialog, or gpclient ended.
EndRun(t) ==
  /\ tun[t] \in {"starting", "launching", "up"}
  /\ tun' = [tun EXCEPT ![t] = "ended"]
  /\ UNCHANGED <<stateVars, disconnectRequested, callVars, authVars, sinks,
                 tunnelRunner, tunnels, adopted, gpclientVars, handlers, launching>>

\* gpclient selects a gateway, another one if that fails, and connects; the
\* lines of an adopted one are replayed.
TunnelLine(t, kind) ==
  /\ tun[t] = "up" /\ ~reported[t] /\ <<kind, t>> \notin handlers
  /\ handlers' = handlers \union {<<kind, t>>}
  /\ reported' = [reported EXCEPT ![t] = kind = "connected"]
  /\ UNCHANGED <<stateVars, disconnectRequested, callVars, authVars, sinks, tunVars,
                 signal, launching>>

\* handleGatewaySelected and handleTunnelConnected: no check which tunnel.  The
\* session's news only renews the details of a state that is connected.
HandleLine(t, kind) ==
  /\ <<kind, t>> \in handlers
  /\ handlers' = handlers \ {<<kind, t>>}
  /\ currentState' = IF ~activeDetails THEN currentState
                     ELSE IF kind = "connected" THEN "connected" ELSE "connecting"
  /\ UNCHANGED <<activeDetails, disconnectRequested, callVars, authVars, sinks,
                 tunVars, gpclientVars, launching>>

\* Faulty variant: the details are kept.
DetailsKept == activeDetails

DetailsAfterFinish == FALSE

\* finishTunnel: an exit code of 0 without a denial (clean) is no failure.
FinishTunnel(t) ==
  /\ tun[t] = "ended"
  /\ tun' = [tun EXCEPT ![t] = "done"]
  /\ tunnelRunner' = NoTunnel
  /\ activeDetails' = DetailsAfterFinish
  /\ \E clean \in BOOLEAN :
       currentState' = IF disconnectRequested \/ clean THEN "disconnected"
                       ELSE "failed"
  /\ UNCHANGED <<disconnectRequested, callVars, authVars, sinks, tunnels, adopted,
                 gpclientVars, handlers, launching>>

-----------------------------------------------------------------------------
Disconnecting(c) == TerminateAuth(c) \/ Interrupt(c) \/ Waited(c) \/ Terminate(c)

Resumes(c) == SignedIn(c) \/ DiscoverySignedIn(c) \/ Discovered(c) \/ Attached(c)

RunHandler == RunSink \/ \E h \in handlers : HandleLine(h[2], h[1])

Next ==
  \/ \E c \in Caller :
       \/ Connect(c) \/ Discover(c) \/ Adopt(c) \/ Disconnect(c)
       \/ Resumes(c) \/ Disconnecting(c)
       \/ AuthLine(c) \/ AuthExit(c)
  \/ \E t \in Tunnel :
       \/ Launch(t) \/ ComeUp(t) \/ EndRun(t) \/ FinishTunnel(t)
       \/ \E kind \in {"selected", "connected"} : TunnelLine(t, kind)
  \/ RunHandler

Spec == Init /\ [][Next]_vars

\* The actor and the Tasks are scheduled, the grace period passes, a gpauth that
\* was sent SIGTERM ends.  Nobody has to call anything, and no gpclient has to
\* end: it takes each signal once, possibly in an attempt that is over
\* (gateway.rs:404-409).
Fairness ==
  /\ \A c \in Caller : WF_vars(Resumes(c)) /\ WF_vars(Disconnecting(c))
  /\ \A c \in Caller : WF_vars(c \in terminated /\ AuthExit(c))
  /\ \A t \in Tunnel : WF_vars(FinishTunnel(t))
  /\ WF_vars(RunHandler)

FairSpec == Spec /\ Fairness

-----------------------------------------------------------------------------
(* Properties                                                              *)

StateType ==
  /\ currentState \in States
  /\ disconnectRequested \in BOOLEAN /\ activeDetails \in BOOLEAN
  /\ launching \in BOOLEAN

CallType ==
  /\ pc \in [Caller -> {"idle", "signIn", "discoverSignIn", "discover", "attach",
                        "interrupt", "waiting", "terminate"}]
  /\ previous \in [Caller -> States] /\ target \in [Caller -> 0 .. MaxTunnels]

AuthType ==
  /\ authRunner \in Caller \union {NoCaller}
  /\ auth \in [Caller -> {"none", "up", "ended"}]
  /\ terminating \subseteq Caller /\ terminated \subseteq Caller
  /\ sinks \in 0 .. MaxSinks

TunType ==
  /\ tunnels \in 0 .. MaxTunnels /\ tunnelRunner \in 0 .. MaxTunnels
  /\ tun \in [Tunnel -> {"none", "starting", "launching", "up", "ended", "done"}]
  /\ adopted \in [Tunnel -> BOOLEAN]

GpclientType ==
  /\ signal \in [Tunnel -> {"none", "int", "term"}]
  /\ reported \in [Tunnel -> BOOLEAN]
  /\ handlers \subseteq {"selected", "connected"} \X Tunnel

\* Every variable has its type.
TypeOK == StateType /\ CallType /\ AuthType /\ TunType /\ GpclientType

\* Disconnect can reach every tunnel there is: the one tunnelRunner names is
\* the only one supervised, whatever calls and Tasks were interleaved.
TunnelTracked == \A t \in Supervised : tunnelRunner = t

\* Disconnect can reach every sign-in and every discovery under way.
AuthTracked == \A c \in Caller : auth[c] # "none" => authRunner = c

\* The menu bar never shows a connection when no tunnel is supervised.
ConnectedHasTunnel == currentState = "connected" => Supervised # {}

\* connect and disconnect implement the one-attempt protocol.
Attempt == INSTANCE BridgeAttempt WITH
  signIns <- SigningIn, tunnels <- Supervised, cancelled <- disconnectRequested

AttemptSpec == Attempt!Spec

\* A Disconnect that finds gpclient up goes as far as it can, whatever calls are
\* made meanwhile: gpclient is sent SIGTERM, or has ended and the service has
\* reported it (disconnect's interrupt, grace period and terminate).
DisconnectEscalates ==
  \A t \in Tunnel :
    (tun[t] = "up" /\ \E c \in Caller : pc[c] = "interrupt" /\ target[c] = t)
      ~> (signal[t] = "term" \/ tun[t] = "done")

\* A sign-in that is cancelled comes to an end.
CancelEndsSignIn ==
  \A c \in Caller :
    (pc[c] = "signIn" /\ c \in terminating) ~> (pc[c] # "signIn")

\* "Disconnect sends SIGINT to gpclient [...] If it ignores the signal the app
\* terminates it after a grace period" (OverlandApp/README.md): once
\* disconnect() has returned, a tunnel it was asked to end was signalled.
DisconnectDelivered ==
  disconnectRequested /\ (\A c \in Caller : pc[c] = "idle") /\ terminating = {}
    => \A t \in Supervised : tun[t] = "ended" \/ signal[t] # "none"

\* Nothing is running, no Task is pending.
Quiescent ==
  /\ Supervised = {} /\ handlers = {} /\ sinks = 0
  /\ \A c \in Caller : pc[c] = "idle"

\* "The unprivileged caller observes disconnectRequested and settles the
\* state" (disconnect): when everything is over nobody is left looking at a
\* disconnect that no call works on, late state lines of a sign-in or not.
StateSettles == Quiescent => currentState # "disconnecting"

\* "Its log is replayed, so the parser recovers the gateway, connected state
\* [...]" (adoptOrphanedSession): once the replayed lines are handled an adopted
\* session that was connected is shown as such, unless someone disconnects it.
AdoptionRecovers ==
  \A t \in Supervised :
    (adopted[t] /\ reported[t] /\ tun[t] = "up" /\ handlers = {}
       /\ ~disconnectRequested)
      => currentState = "connected"

-----------------------------------------------------------------------------
(* The inductive invariant behind the proofs, for a service that is only   *)
(* asked to connect and to disconnect.                                     *)

OnlyConnect == Ops \subseteq {"connect", "disconnect"}

\* Which calls are suspended, and where.
CallInv ==
  /\ \A c \in Caller :
       pc[c] \in {"idle", "signIn", "interrupt", "waiting", "terminate"}
  /\ \A c \in Caller : pc[c] = "signIn" <=> authRunner = c
  /\ \A c \in Caller : auth[c] # "none" => pc[c] = "signIn"

\* The runner fields say which attempt is under way, and there is one at most.
RunnerInv ==
  /\ \A t \in Tunnel : t \in Supervised <=> tunnelRunner = t
  /\ \A t \in Tunnel : t > tunnels => tun[t] = "none"
  /\ authRunner # NoCaller => tunnelRunner = NoTunnel
  /\ activeDetails <=> tunnelRunner # NoTunnel

\* While an attempt is under way the state refuses another connect.
StateInv ==
  /\ authRunner # NoCaller => Busy
  /\ tunnelRunner # NoTunnel => Busy \/ currentState = "connected"
  /\ currentState = "connected" => tunnelRunner # NoTunnel

\* The inductive invariant: at most one attempt, and the fields say which.
ConnectInv == TypeOK /\ CallInv /\ RunnerInv /\ StateInv
=============================================================================
