------------------------ MODULE BridgeService_proofs ------------------------
(***************************************************************************)
(* Proofs about BridgeService for any number of callers, tunnels and       *)
(* pending Tasks.                                                          *)
(***************************************************************************)
EXTENDS BridgeService, TLAPS

USE ConstantsAssumption DEF ConstantsAssumption
USE DEF Tunnel, NoTunnel, stateVars, callVars, authVars, tunVars, gpclientVars

LEMMA TypeInit == Init => TypeOK
<1> SUFFICES ASSUME Init PROVE TypeOK
  OBVIOUS
<1>1. StateType
  BY DEF Init, StateType, States
<1>2. CallType
  BY DEF Init, CallType, States
<1>3. AuthType
  BY DEF Init, AuthType, States
<1>4. TunType
  BY DEF Init, TunType, States
<1>5. GpclientType
  BY DEF Init, GpclientType, States
<1>6. QED BY <1>1, <1>2, <1>3, <1>4, <1>5 DEF TypeOK

LEMMA StateTypeStep == TypeOK /\ [Next]_vars => StateType'
<1> SUFFICES ASSUME TypeOK, [Next]_vars PROVE StateType'
  OBVIOUS
<1> USE DEF TypeOK, StateType, States
<1>1. ASSUME NEW c \in Caller, Connect(c) PROVE StateType'
  BY <1>1 DEF Connect, Supervise, RunUnprivileged
<1>2. ASSUME NEW c \in Caller, SignedIn(c) PROVE StateType'
  BY <1>2 DEF SignedIn, ReleaseAuth, Supervise
<1>3. ASSUME NEW c \in Caller, Discover(c) PROVE StateType'
  BY <1>3 DEF Discover, RunUnprivileged
<1>4. ASSUME NEW c \in Caller, DiscoverySignedIn(c) PROVE StateType'
  <2>1. previous[c] \in States
    BY DEF CallType
  <2>2. QED BY <1>4, <2>1 DEF DiscoverySignedIn, RunUnprivileged, Restore
<1>5. ASSUME NEW c \in Caller, Discovered(c) PROVE StateType'
  <2>1. previous[c] \in States
    BY DEF CallType
  <2>2. QED BY <1>5, <2>1 DEF Discovered, Restore
<1>6. ASSUME NEW c \in Caller, Adopt(c) \/ Attached(c) PROVE StateType'
  BY <1>6 DEF Adopt, Attached, Supervise
<1>7. ASSUME NEW c \in Caller, Disconnect(c) PROVE StateType'
  BY <1>7 DEF Disconnect, SignInUnderWay
<1>8. ASSUME NEW c \in Caller, Disconnecting(c) PROVE StateType'
  BY <1>8 DEF Disconnecting, TerminateAuth, Interrupt, Waited, Terminate, SendSignal
<1>9. ASSUME NEW c \in Caller, AuthLine(c) \/ AuthExit(c) PROVE StateType'
  BY <1>9 DEF AuthLine, AuthExit
<1>10. ASSUME NEW t \in Tunnel, Launch(t) \/ ComeUp(t) \/ EndRun(t) PROVE StateType'
  BY <1>10 DEF Launch, ComeUp, EndRun
<1>11. ASSUME NEW t \in Tunnel, FinishTunnel(t) PROVE StateType'
  BY <1>11 DEF FinishTunnel, DetailsAfterFinish
<1>12. ASSUME NEW t \in Tunnel, NEW kind \in {"selected", "connected"}, TunnelLine(t, kind) PROVE StateType'
  BY <1>12 DEF TunnelLine
<1>13. CASE RunHandler
  BY <1>13 DEF RunHandler, RunSink, HandleLine
<1>14. CASE UNCHANGED vars
  BY <1>14 DEF vars
<1> QED
  BY <1>1, <1>2, <1>3, <1>4, <1>5, <1>6, <1>7, <1>8, <1>9, <1>10, <1>11, <1>12, <1>13, <1>14
     DEF Next, Resumes

LEMMA CallTypeStep == TypeOK /\ [Next]_vars => CallType'
<1> SUFFICES ASSUME TypeOK, [Next]_vars PROVE CallType'
  OBVIOUS
<1> USE DEF TypeOK, CallType, States
<1>1. ASSUME NEW c \in Caller, Connect(c) PROVE CallType'
  BY <1>1 DEF Connect, Supervise, RunUnprivileged
<1>2. ASSUME NEW c \in Caller, SignedIn(c) PROVE CallType'
  BY <1>2 DEF SignedIn, ReleaseAuth, Supervise
<1>3. ASSUME NEW c \in Caller, Discover(c) PROVE CallType'
  <2>1. currentState \in States
    BY DEF StateType
  <2>2. PICK at \in {"discoverSignIn", "discover"} : pc' = [pc EXCEPT ![c] = at]
    BY <1>3 DEF Discover, RunUnprivileged
  <2>3. previous' = [previous EXCEPT ![c] = currentState] /\ UNCHANGED target
    BY <1>3 DEF Discover
  <2>4. QED BY <2>1, <2>2, <2>3
<1>4. ASSUME NEW c \in Caller, DiscoverySignedIn(c) PROVE CallType'
  BY <1>4 DEF DiscoverySignedIn, RunUnprivileged, ReleaseAuth, Restore
<1>5. ASSUME NEW c \in Caller, Discovered(c) PROVE CallType'
  BY <1>5 DEF Discovered, ReleaseAuth, Restore
<1>6. ASSUME NEW c \in Caller, Adopt(c) \/ Attached(c) PROVE CallType'
  BY <1>6 DEF Adopt, Attached, Supervise
<1>7. ASSUME NEW c \in Caller, Disconnect(c) PROVE CallType'
  <2>1. tunnelRunner \in 0 .. MaxTunnels
    BY DEF TunType
  <2>2. QED BY <1>7, <2>1 DEF Disconnect
<1>8. ASSUME NEW c \in Caller, Disconnecting(c) PROVE CallType'
  BY <1>8 DEF Disconnecting, TerminateAuth, Interrupt, Waited, Terminate, SendSignal
<1>9. ASSUME NEW c \in Caller, AuthLine(c) \/ AuthExit(c) PROVE CallType'
  BY <1>9 DEF AuthLine, AuthExit
<1>10. ASSUME NEW t \in Tunnel, Launch(t) \/ ComeUp(t) \/ EndRun(t) PROVE CallType'
  BY <1>10 DEF Launch, ComeUp, EndRun
<1>11. ASSUME NEW t \in Tunnel, FinishTunnel(t) PROVE CallType'
  BY <1>11 DEF FinishTunnel, DetailsAfterFinish
<1>12. ASSUME NEW t \in Tunnel, NEW kind \in {"selected", "connected"}, TunnelLine(t, kind) PROVE CallType'
  BY <1>12 DEF TunnelLine
<1>13. CASE RunHandler
  BY <1>13 DEF RunHandler, RunSink, HandleLine
<1>14. CASE UNCHANGED vars
  BY <1>14 DEF vars
<1> QED
  BY <1>1, <1>2, <1>3, <1>4, <1>5, <1>6, <1>7, <1>8, <1>9, <1>10, <1>11, <1>12, <1>13, <1>14
     DEF Next, Resumes

LEMMA AuthTypeStep == TypeOK /\ [Next]_vars => AuthType'
<1> SUFFICES ASSUME TypeOK, [Next]_vars PROVE AuthType'
  OBVIOUS
<1> USE DEF TypeOK, AuthType, States
<1>1. ASSUME NEW c \in Caller, Connect(c) PROVE AuthType'
  BY <1>1 DEF Connect, Supervise, RunUnprivileged
<1>2. ASSUME NEW c \in Caller, SignedIn(c) PROVE AuthType'
  BY <1>2 DEF SignedIn, ReleaseAuth, Supervise
<1>3. ASSUME NEW c \in Caller, Discover(c) PROVE AuthType'
  BY <1>3 DEF Discover, RunUnprivileged
<1>4. ASSUME NEW c \in Caller, DiscoverySignedIn(c) PROVE AuthType'
  BY <1>4 DEF DiscoverySignedIn, RunUnprivileged, ReleaseAuth, Restore
<1>5. ASSUME NEW c \in Caller, Discovered(c) PROVE AuthType'
  BY <1>5 DEF Discovered, ReleaseAuth, Restore
<1>6. ASSUME NEW c \in Caller, Adopt(c) \/ Attached(c) PROVE AuthType'
  BY <1>6 DEF Adopt, Attached, Supervise
<1>7. ASSUME NEW c \in Caller, Disconnect(c) PROVE AuthType'
  BY <1>7 DEF Disconnect, SignInUnderWay
<1>8. ASSUME NEW c \in Caller, Disconnecting(c) PROVE AuthType'
  BY <1>8 DEF Disconnecting, TerminateAuth, Interrupt, Waited, Terminate, SendSignal
<1>9. ASSUME NEW c \in Caller, AuthLine(c) \/ AuthExit(c) PROVE AuthType'
  BY <1>9 DEF AuthLine, AuthExit
<1>10. ASSUME NEW t \in Tunnel, Launch(t) \/ ComeUp(t) \/ EndRun(t) PROVE AuthType'
  BY <1>10 DEF Launch, ComeUp, EndRun
<1>11. ASSUME NEW t \in Tunnel, FinishTunnel(t) PROVE AuthType'
  BY <1>11 DEF FinishTunnel, DetailsAfterFinish
<1>12. ASSUME NEW t \in Tunnel, NEW kind \in {"selected", "connected"}, TunnelLine(t, kind) PROVE AuthType'
  BY <1>12 DEF TunnelLine
<1>13. CASE RunHandler
  <2>1. CASE RunSink
    BY <2>1 DEF RunSink
  <2>2. CASE \E h \in handlers : HandleLine(h[2], h[1])
    BY <2>2 DEF HandleLine
  <2>3. QED BY <1>13, <2>1, <2>2 DEF RunHandler
<1>14. CASE UNCHANGED vars
  BY <1>14 DEF vars
<1> QED
  BY <1>1, <1>2, <1>3, <1>4, <1>5, <1>6, <1>7, <1>8, <1>9, <1>10, <1>11, <1>12, <1>13, <1>14
     DEF Next, Resumes

LEMMA SuperviseType ==
  ASSUME TunType, NEW b \in BOOLEAN, Supervise(b)
  PROVE  TunType'
<1>1. tunnels + 1 \in Tunnel /\ tunnels' = tunnels + 1 /\ tunnelRunner' = tunnels + 1
  BY DEF Supervise, TunType
<1>2. tun' \in [Tunnel -> {"none", "starting", "launching", "up", "ended", "done"}]
  BY DEF Supervise, TunType
<1>3. adopted' \in [Tunnel -> BOOLEAN]
  <2>1. adopted' = [adopted EXCEPT ![tunnels + 1] = b] /\ adopted \in [Tunnel -> BOOLEAN]
    BY DEF Supervise, TunType
  <2>2. QED BY <2>1
<1>4. QED BY <1>1, <1>2, <1>3 DEF TunType

LEMMA TunTypeStep == TypeOK /\ [Next]_vars => TunType'
<1> SUFFICES ASSUME TypeOK, [Next]_vars PROVE TunType'
  OBVIOUS
<1> USE DEF TypeOK, TunType, States
<1>1. ASSUME NEW c \in Caller, Connect(c) PROVE TunType'
  <2>1. CASE UNCHANGED tunVars
    BY <2>1
  <2>2. CASE \E b \in BOOLEAN : Supervise(b)
    BY <2>2, SuperviseType
  <2>3. QED BY <1>1, <2>1, <2>2 DEF Connect
<1>2. ASSUME NEW c \in Caller, SignedIn(c) PROVE TunType'
  <2>1. CASE UNCHANGED tunVars
    BY <2>1
  <2>2. CASE \E b \in BOOLEAN : Supervise(b)
    BY <2>2, SuperviseType
  <2>3. QED BY <1>2, <2>1, <2>2 DEF SignedIn
<1>3. ASSUME NEW c \in Caller, Discover(c) PROVE TunType'
  BY <1>3 DEF Discover, RunUnprivileged
<1>4. ASSUME NEW c \in Caller, DiscoverySignedIn(c) PROVE TunType'
  BY <1>4 DEF DiscoverySignedIn, RunUnprivileged, ReleaseAuth, Restore
<1>5. ASSUME NEW c \in Caller, Discovered(c) PROVE TunType'
  BY <1>5 DEF Discovered, ReleaseAuth, Restore
<1>6. ASSUME NEW c \in Caller, Adopt(c) \/ Attached(c) PROVE TunType'
  <2>1. CASE UNCHANGED tunVars
    BY <2>1
  <2>2. CASE \E b \in BOOLEAN : Supervise(b)
    BY <2>2, SuperviseType
  <2>3. QED BY <1>6, <2>1, <2>2 DEF Adopt, Attached
<1>7. ASSUME NEW c \in Caller, Disconnect(c) PROVE TunType'
  BY <1>7 DEF Disconnect, SignInUnderWay
<1>8. ASSUME NEW c \in Caller, Disconnecting(c) PROVE TunType'
  BY <1>8 DEF Disconnecting, TerminateAuth, Interrupt, Waited, Terminate, SendSignal
<1>9. ASSUME NEW c \in Caller, AuthLine(c) \/ AuthExit(c) PROVE TunType'
  BY <1>9 DEF AuthLine, AuthExit
<1>10. ASSUME NEW t \in Tunnel, Launch(t) \/ ComeUp(t) \/ EndRun(t) PROVE TunType'
  BY <1>10 DEF Launch, ComeUp, EndRun
<1>11. ASSUME NEW t \in Tunnel, FinishTunnel(t) PROVE TunType'
  BY <1>11 DEF FinishTunnel, DetailsAfterFinish
<1>12. ASSUME NEW t \in Tunnel, NEW kind \in {"selected", "connected"}, TunnelLine(t, kind) PROVE TunType'
  BY <1>12 DEF TunnelLine
<1>13. CASE RunHandler
  BY <1>13 DEF RunHandler, RunSink, HandleLine
<1>14. CASE UNCHANGED vars
  BY <1>14 DEF vars
<1> QED
  BY <1>1, <1>2, <1>3, <1>4, <1>5, <1>6, <1>7, <1>8, <1>9, <1>10, <1>11, <1>12, <1>13, <1>14
     DEF Next, Resumes

LEMMA GpclientTypeStep == TypeOK /\ [Next]_vars => GpclientType'
<1> SUFFICES ASSUME TypeOK, [Next]_vars PROVE GpclientType'
  OBVIOUS
<1> USE DEF TypeOK, GpclientType, States
<1>1. ASSUME NEW c \in Caller, Connect(c) PROVE GpclientType'
  BY <1>1 DEF Connect, Supervise, RunUnprivileged
<1>2. ASSUME NEW c \in Caller, SignedIn(c) PROVE GpclientType'
  BY <1>2 DEF SignedIn, ReleaseAuth, Supervise
<1>3. ASSUME NEW c \in Caller, Discover(c) PROVE GpclientType'
  BY <1>3 DEF Discover, RunUnprivileged
<1>4. ASSUME NEW c \in Caller, DiscoverySignedIn(c) PROVE GpclientType'
  BY <1>4 DEF DiscoverySignedIn, RunUnprivileged, ReleaseAuth, Restore
<1>5. ASSUME NEW c \in Caller, Discovered(c) PROVE GpclientType'
  BY <1>5 DEF Discovered, ReleaseAuth, Restore
<1>6. ASSUME NEW c \in Caller, Adopt(c) \/ Attached(c) PROVE GpclientType'
  BY <1>6 DEF Adopt, Attached, Supervise
<1>7. ASSUME NEW c \in Caller, Disconnect(c) PROVE GpclientType'
  BY <1>7 DEF Disconnect, SignInUnderWay
<1>8. ASSUME NEW c \in Caller, Disconnecting(c) PROVE GpclientType'
  BY <1>8 DEF Disconnecting, TerminateAuth, Interrupt, Waited, Terminate, SendSignal
<1>9. ASSUME NEW c \in Caller, AuthLine(c) \/ AuthExit(c) PROVE GpclientType'
  BY <1>9 DEF AuthLine, AuthExit
<1>10. ASSUME NEW t \in Tunnel, Launch(t) \/ ComeUp(t) \/ EndRun(t) PROVE GpclientType'
  BY <1>10 DEF Launch, ComeUp, EndRun
<1>11. ASSUME NEW t \in Tunnel, FinishTunnel(t) PROVE GpclientType'
  BY <1>11 DEF FinishTunnel, DetailsAfterFinish
<1>12. ASSUME NEW t \in Tunnel, NEW kind \in {"selected", "connected"}, TunnelLine(t, kind) PROVE GpclientType'
  BY <1>12 DEF TunnelLine
<1>13. CASE RunHandler
  BY <1>13 DEF RunHandler, RunSink, HandleLine
<1>14. CASE UNCHANGED vars
  BY <1>14 DEF vars
<1> QED
  BY <1>1, <1>2, <1>3, <1>4, <1>5, <1>6, <1>7, <1>8, <1>9, <1>10, <1>11, <1>12, <1>13, <1>14
     DEF Next, Resumes

LEMMA TypeStep == TypeOK /\ [Next]_vars => TypeOK'
  BY StateTypeStep, CallTypeStep, AuthTypeStep, TunTypeStep, GpclientTypeStep
     DEF TypeOK

-----------------------------------------------------------------------------
(* The invariant of a service that is asked to connect and disconnect only *)

LEMMA ConnectInit == Init => ConnectInv
  BY TypeInit
     DEF Init, ConnectInv, CallInv, RunnerInv, StateInv, Supervised, Busy

\* A caller that is not signing in moves among the steps of disconnect.
LEMMA CallMoves ==
  ASSUME ConnectInv, NEW c \in Caller, pc[c] # "signIn",
         NEW to \in {"idle", "interrupt", "waiting", "terminate"},
         pc' = [pc EXCEPT ![c] = to], UNCHANGED <<authRunner, auth>>
  PROVE  CallInv'
BY DEF ConnectInv, TypeOK, CallType, CallInv

LEMMA CallInvStep ==
  ASSUME OnlyConnect, ConnectInv, [Next]_vars
  PROVE  CallInv'
<1> USE DEF ConnectInv, TypeOK, StateType, CallType, AuthType, TunType,
            CallInv, RunnerInv, StateInv, Supervised, Busy
<1>1. ASSUME NEW c \in Caller, Connect(c) PROVE CallInv'
  <2>1. authRunner = NoCaller /\ pc[c] = "idle"
    BY <1>1 DEF Connect, MayConnect
  <2>2. CASE UNCHANGED <<pc, authVars>>
    BY <2>2
  <2>3. CASE RunUnprivileged(c, "signIn")
    <3>1. /\ pc' = [pc EXCEPT ![c] = "signIn"]
          /\ auth' = [auth EXCEPT ![c] = "up"]
          /\ authRunner' = c
      BY <2>3 DEF RunUnprivileged
    <3>2. \A d \in Caller : pc[d] # "signIn" /\ auth[d] = "none"
      BY <2>1
    <3>3. QED BY <3>1, <3>2
  <2>4. QED BY <1>1, <2>2, <2>3 DEF Connect
<1>2. ASSUME NEW c \in Caller, SignedIn(c) PROVE CallInv'
  BY <1>2 DEF SignedIn, ReleaseAuth, Supervise
<1>3. ASSUME NEW c \in Caller, Disconnect(c) PROVE CallInv'
  BY <1>3 DEF Disconnect, SignInUnderWay
<1>4. ASSUME NEW c \in Caller, Disconnecting(c) PROVE CallInv'
  <2>1. CASE TerminateAuth(c)
    BY <2>1 DEF TerminateAuth
  <2>2. CASE Interrupt(c)
    BY <2>2 DEF Interrupt
  <2>3. CASE Waited(c)
    <3>1. PICK to \in {"idle", "terminate"} : pc' = [pc EXCEPT ![c] = to]
      BY ONLY Waited(c) DEF Waited
    <3>2. pc[c] # "signIn" /\ UNCHANGED <<authRunner, auth>>
      BY ONLY Waited(c) DEF Waited, authVars
    <3>3. QED BY ONLY ConnectInv, <3>1, <3>2, CallMoves
  <2>4. CASE Terminate(c)
    BY <2>4 DEF Terminate
  <2>5. QED BY <1>4, <2>1, <2>2, <2>3, <2>4 DEF Disconnecting
<1>5. ASSUME NEW c \in Caller, AuthLine(c) \/ AuthExit(c) PROVE CallInv'
  BY <1>5 DEF AuthLine, AuthExit
<1>6. ASSUME NEW t \in Tunnel, Launch(t) \/ ComeUp(t) \/ EndRun(t) PROVE CallInv'
  BY <1>6 DEF Launch, ComeUp, EndRun
<1>7. ASSUME NEW t \in Tunnel, FinishTunnel(t) PROVE CallInv'
  BY <1>7 DEF FinishTunnel, DetailsAfterFinish
<1>8. ASSUME NEW t \in Tunnel, NEW kind \in {"selected", "connected"}, TunnelLine(t, kind) PROVE CallInv'
  BY <1>8 DEF TunnelLine
<1>9. CASE RunHandler
  <2>1. UNCHANGED <<pc, authVars>>
    BY <1>9 DEF RunHandler, RunSink, HandleLine, callVars
  <2>2. QED BY <2>1 DEF authVars
<1>10. CASE UNCHANGED vars
  BY <1>10 DEF vars
<1>11. ASSUME NEW c \in Caller PROVE ~Discover(c) /\ ~Adopt(c)
  BY DEF OnlyConnect, Discover, Adopt
<1>12. ASSUME NEW c \in Caller
       PROVE  ~DiscoverySignedIn(c) /\ ~Discovered(c) /\ ~Attached(c)
  BY DEF DiscoverySignedIn, Discovered, Attached
<1> QED
  BY <1>1, <1>2, <1>3, <1>4, <1>5, <1>6, <1>7, <1>8, <1>9, <1>10, <1>11, <1>12
     DEF Next, Resumes

LEMMA RunnerInvStep ==
  ASSUME OnlyConnect, ConnectInv, [Next]_vars
  PROVE  RunnerInv'
<1> USE DEF ConnectInv, TypeOK, StateType, CallType, AuthType, TunType,
            CallInv, RunnerInv, StateInv, Supervised, Busy
<1>1. ASSUME NEW c \in Caller, Connect(c) PROVE RunnerInv'
  BY <1>1 DEF Connect, MayConnect, Supervise, RunUnprivileged
<1>2. ASSUME NEW c \in Caller, SignedIn(c) PROVE RunnerInv'
  BY <1>2 DEF SignedIn, ReleaseAuth, Supervise
<1>3. ASSUME NEW c \in Caller, Disconnect(c) PROVE RunnerInv'
  BY <1>3 DEF Disconnect, SignInUnderWay
<1>4. ASSUME NEW c \in Caller, Disconnecting(c) PROVE RunnerInv'
  BY <1>4 DEF Disconnecting, TerminateAuth, Interrupt, Waited, Terminate
<1>5. ASSUME NEW c \in Caller, AuthLine(c) \/ AuthExit(c) PROVE RunnerInv'
  BY <1>5 DEF AuthLine, AuthExit
<1>6. ASSUME NEW t \in Tunnel, Launch(t) \/ ComeUp(t) \/ EndRun(t) PROVE RunnerInv'
  BY <1>6 DEF Launch, ComeUp, EndRun
<1>7. ASSUME NEW t \in Tunnel, FinishTunnel(t) PROVE RunnerInv'
  BY <1>7 DEF FinishTunnel, DetailsAfterFinish
<1>8. ASSUME NEW t \in Tunnel, NEW kind \in {"selected", "connected"}, TunnelLine(t, kind) PROVE RunnerInv'
  BY <1>8 DEF TunnelLine
<1>9. CASE RunHandler
  <2>1. CASE RunSink
    BY <2>1 DEF RunSink
  <2>2. CASE \E h \in handlers : HandleLine(h[2], h[1])
    BY <2>2 DEF HandleLine
  <2>3. QED BY <1>9, <2>1, <2>2 DEF RunHandler
<1>10. CASE UNCHANGED vars
  BY <1>10 DEF vars
<1>11. ASSUME NEW c \in Caller PROVE ~Discover(c) /\ ~Adopt(c)
  BY DEF OnlyConnect, Discover, Adopt
<1>12. ASSUME NEW c \in Caller
       PROVE  ~DiscoverySignedIn(c) /\ ~Discovered(c) /\ ~Attached(c)
  BY DEF DiscoverySignedIn, Discovered, Attached
<1> QED
  BY <1>1, <1>2, <1>3, <1>4, <1>5, <1>6, <1>7, <1>8, <1>9, <1>10, <1>11, <1>12
     DEF Next, Resumes

LEMMA StateInvStep ==
  ASSUME OnlyConnect, ConnectInv, [Next]_vars
  PROVE  StateInv'
<1> USE DEF ConnectInv, TypeOK, StateType, CallType, AuthType, TunType,
            CallInv, RunnerInv, StateInv, Supervised, Busy
<1>1. ASSUME NEW c \in Caller, Connect(c) PROVE StateInv'
  BY <1>1 DEF Connect, MayConnect, Supervise, RunUnprivileged
<1>2. ASSUME NEW c \in Caller, SignedIn(c) PROVE StateInv'
  BY <1>2 DEF SignedIn, ReleaseAuth, Supervise
<1>3. ASSUME NEW c \in Caller, Disconnect(c) PROVE StateInv'
  BY <1>3 DEF Disconnect, SignInUnderWay
<1>4. ASSUME NEW c \in Caller, Disconnecting(c) PROVE StateInv'
  BY <1>4 DEF Disconnecting, TerminateAuth, Interrupt, Waited, Terminate
<1>5. ASSUME NEW c \in Caller, AuthLine(c) \/ AuthExit(c) PROVE StateInv'
  BY <1>5 DEF AuthLine, AuthExit
<1>6. ASSUME NEW t \in Tunnel, Launch(t) \/ ComeUp(t) \/ EndRun(t) PROVE StateInv'
  BY <1>6 DEF Launch, ComeUp, EndRun
<1>7. ASSUME NEW t \in Tunnel, FinishTunnel(t) PROVE StateInv'
  BY <1>7 DEF FinishTunnel, DetailsAfterFinish
<1>8. ASSUME NEW t \in Tunnel, NEW kind \in {"selected", "connected"}, TunnelLine(t, kind) PROVE StateInv'
  BY <1>8 DEF TunnelLine
<1>9. CASE RunHandler
  BY <1>9 DEF RunHandler, RunSink, HandleLine
<1>10. CASE UNCHANGED vars
  BY <1>10 DEF vars
<1>11. ASSUME NEW c \in Caller PROVE ~Discover(c) /\ ~Adopt(c)
  BY DEF OnlyConnect, Discover, Adopt
<1>12. ASSUME NEW c \in Caller
       PROVE  ~DiscoverySignedIn(c) /\ ~Discovered(c) /\ ~Attached(c)
  BY DEF DiscoverySignedIn, Discovered, Attached
<1> QED
  BY <1>1, <1>2, <1>3, <1>4, <1>5, <1>6, <1>7, <1>8, <1>9, <1>10, <1>11, <1>12
     DEF Next, Resumes

LEMMA ConnectInductive == ASSUME OnlyConnect PROVE Spec => []ConnectInv
<1>1. ConnectInv /\ [Next]_vars => ConnectInv'
  <2> SUFFICES ASSUME ConnectInv, [Next]_vars PROVE ConnectInv'
    OBVIOUS
  <2>1. TypeOK'
    BY TypeStep DEF ConnectInv
  <2>2. QED BY <2>1, CallInvStep, RunnerInvStep, StateInvStep DEF ConnectInv
<1>2. QED BY ConnectInit, <1>1, PTL DEF Spec

-----------------------------------------------------------------------------
(* Theorems                                                                *)

\* The state of the service keeps its type, whatever it is asked to do.
THEOREM TypeCorrect == Spec => []TypeOK
  BY TypeInit, TypeStep, PTL DEF Spec

\* With connect and disconnect only, Disconnect can reach every tunnel.
THEOREM TunnelsTracked ==
  ASSUME OnlyConnect PROVE Spec => []TunnelTracked
<1>1. ConnectInv => TunnelTracked
  BY DEF ConnectInv, RunnerInv, TunnelTracked, Supervised
<1>2. QED BY <1>1, ConnectInductive, PTL

\* With connect and disconnect only, Disconnect can reach every sign-in.
THEOREM SignInsTracked ==
  ASSUME OnlyConnect PROVE Spec => []AuthTracked
<1>1. ConnectInv => AuthTracked
  BY DEF ConnectInv, CallInv, AuthTracked
<1>2. QED BY <1>1, ConnectInductive, PTL

\* With connect and disconnect only, a connection is shown only while a
\* tunnel is supervised, however late the handlers of earlier ones run.
THEOREM ConnectionShown ==
  ASSUME OnlyConnect PROVE Spec => []ConnectedHasTunnel
<1>1. ConnectInv => ConnectedHasTunnel
  BY DEF ConnectInv, TypeOK, TunType, RunnerInv, StateInv, ConnectedHasTunnel
<1>2. QED BY <1>1, ConnectInductive, PTL

-----------------------------------------------------------------------------
(* The refinement of BridgeAttempt                                         *)

\* No sign-in is under way exactly when authRunner is nil.
LEMMA AttemptSets ==
  ASSUME ConnectInv
  PROVE  /\ SigningIn = {c \in Caller : authRunner = c}
         /\ Supervised = {t \in Tunnel : tunnelRunner = t}
  BY DEF ConnectInv, CallInv, RunnerInv, SigningIn, Supervised

\* With connect and disconnect only, the service makes one attempt at a
\* time, and a cancelled sign-in never becomes a tunnel.
THEOREM ImplementsAttempt ==
  ASSUME OnlyConnect PROVE Spec => AttemptSpec
<1>1. Init => Attempt!Init
  BY DEF Init, Attempt!Init, Attempt!Idle, SigningIn, Supervised
<1>2. ASSUME ConnectInv, ConnectInv', [Next]_vars
      PROVE  [Attempt!Next]_(Attempt!vars)
  <2>1. /\ SigningIn' = {c \in Caller : authRunner' = c}
        /\ Supervised' = {t \in Tunnel : tunnelRunner' = t}
    BY <1>2 DEF ConnectInv, CallInv, RunnerInv, SigningIn, Supervised
  <2>2. SigningIn = {c \in Caller : authRunner = c}
        /\ Supervised = {t \in Tunnel : tunnelRunner = t}
    BY <1>2, AttemptSets
  <2>3. ASSUME NEW c \in Caller, Connect(c) PROVE Attempt!Next
    <3>1. authRunner = NoCaller /\ tunnelRunner = NoTunnel
      BY <1>2, <2>3 DEF Connect, MayConnect, ConnectInv, StateInv, TypeOK, AuthType
    <3>2. Attempt!Idle
      BY <2>2, <3>1 DEF Attempt!Idle
    <3>3. CASE Supervise(FALSE) /\ UNCHANGED <<pc, authVars>>
      <4>1. tunnelRunner' = tunnels + 1 /\ tunnels + 1 \in Tunnel /\ authRunner' = NoCaller
        BY <1>2, <3>1, <3>3 DEF Supervise, ConnectInv, TypeOK, TunType
      <4>2. SigningIn' = {} /\ Supervised' = {tunnels + 1} /\ ~disconnectRequested'
        BY <2>1, <2>3, <4>1 DEF Connect
      <4>3. \E t \in Tunnel : Supervised' = {t}
        BY <4>1, <4>2
      <4>4. QED BY <3>2, <4>2, <4>3 DEF Attempt!Next, Attempt!Start, Connect
    <3>4. CASE RunUnprivileged(c, "signIn") /\ UNCHANGED tunVars
      <4>1. SigningIn' = {c} /\ Supervised' = Supervised /\ ~disconnectRequested'
        BY <2>1, <2>2, <2>3, <3>4 DEF RunUnprivileged, Connect
      <4>2. QED BY <3>2, <4>1 DEF Attempt!Next, Attempt!SignIn, Connect
    <3>5. QED BY <2>3, <3>3, <3>4 DEF Connect
  <2>4. ASSUME NEW c \in Caller, SignedIn(c) PROVE Attempt!Next
    <3>1. authRunner = c /\ authRunner' = NoCaller /\ tunnelRunner = NoTunnel
      BY <1>2, <2>4 DEF SignedIn, ReleaseAuth, ConnectInv, CallInv, RunnerInv
    <3>2. SigningIn = {c} /\ SigningIn' = {} /\ UNCHANGED disconnectRequested
      BY <2>1, <2>2, <2>4, <3>1 DEF SignedIn
    <3>3. CASE Supervise(FALSE) /\ ~disconnectRequested
      <4>1. tunnelRunner' = tunnels + 1 /\ tunnels + 1 \in Tunnel
        BY <1>2, <3>3 DEF Supervise, ConnectInv, TypeOK, TunType
      <4>2. Supervised' = {tunnels + 1}
        BY <2>1, <4>1
      <4>3. \E t \in Tunnel : Supervised' = {t}
        BY <4>1, <4>2
      <4>4. QED BY <1>2, <3>2, <3>3, <4>3
            DEF Attempt!Next, Attempt!Start, ConnectInv, TypeOK, StateType
    <3>4. CASE UNCHANGED tunVars
      <4>1. Supervised' = {}
        BY <2>1, <3>1, <3>4
      <4>2. QED BY <3>2, <4>1 DEF Attempt!Next, Attempt!End
    <3>5. QED BY <2>4, <3>3, <3>4 DEF SignedIn, Proceed
  <2>5. ASSUME NEW c \in Caller, Disconnect(c) PROVE Attempt!Next
    <3>1. SigningIn' = SigningIn /\ Supervised' = Supervised
      BY <2>1, <2>2, <2>5 DEF Disconnect
    <3>2. QED BY <2>5, <3>1 DEF Disconnect, Attempt!Next, Attempt!Cancel
  <2>6. ASSUME NEW t \in Tunnel, FinishTunnel(t) PROVE Attempt!Next
    <3>1. tunnelRunner = t
      BY <1>2, <2>6 DEF FinishTunnel, ConnectInv, RunnerInv, Supervised
    <3>2. authRunner = NoCaller /\ authRunner' = NoCaller /\ tunnelRunner' = NoTunnel
      BY <1>2, <2>6, <3>1
         DEF FinishTunnel, ConnectInv, RunnerInv, TypeOK, AuthType
    <3>3. SigningIn' = {} /\ Supervised' = {}
      BY <2>1, <3>2
    <3>4. QED BY <2>6, <3>3 DEF FinishTunnel, Attempt!Next, Attempt!End
  <2>7. ASSUME UNCHANGED <<authRunner, tunnelRunner, disconnectRequested>>
        PROVE  UNCHANGED Attempt!vars
    BY <2>1, <2>2, <2>7 DEF Attempt!vars
  <2>8. ASSUME NEW c \in Caller,
               Disconnecting(c) \/ AuthLine(c) \/ AuthExit(c)
        PROVE  UNCHANGED <<authRunner, tunnelRunner, disconnectRequested>>
    BY <2>8 DEF Disconnecting, TerminateAuth, Interrupt, Waited, Terminate,
                AuthLine, AuthExit
  <2>9. ASSUME NEW t \in Tunnel,
               Launch(t) \/ ComeUp(t) \/ EndRun(t)
                 \/ \E kind \in {"selected", "connected"} : TunnelLine(t, kind)
        PROVE  UNCHANGED <<authRunner, tunnelRunner, disconnectRequested>>
    BY <2>9 DEF Launch, ComeUp, EndRun, TunnelLine
  <2>10. ASSUME RunHandler \/ UNCHANGED vars
         PROVE  UNCHANGED <<authRunner, tunnelRunner, disconnectRequested>>
    BY <2>10 DEF RunHandler, RunSink, HandleLine, vars
  <2>11. ASSUME NEW c \in Caller
         PROVE  /\ ~Discover(c) /\ ~Adopt(c) /\ ~DiscoverySignedIn(c)
                /\ ~Discovered(c) /\ ~Attached(c)
    BY <1>2 DEF OnlyConnect, Discover, Adopt, DiscoverySignedIn, Discovered,
                Attached, ConnectInv, CallInv
  <2>12. QED
    BY <1>2, <2>3, <2>4, <2>5, <2>6, <2>7, <2>8, <2>9, <2>10, <2>11
       DEF Next, Resumes
<1>3. QED
  BY <1>1, <1>2, ConnectInductive, PTL DEF Spec, AttemptSpec, Attempt!Spec

-----------------------------------------------------------------------------
(* The state settles, whatever the service is asked to do                  *)

\* A login or a discovery is under way.
InProgress(c) == pc[c] \in {"signIn", "discoverSignIn", "discover"}

\* What the fields name is under way, and so is something whenever the state is
\* a busy one: only a late line of a sign-in can say "connecting" afterwards.
WorkInv ==
  /\ authRunner # NoCaller => InProgress(authRunner)
  /\ tunnelRunner # NoTunnel => tunnelRunner \in Supervised
  /\ activeDetails => tunnelRunner # NoTunnel
  /\ \A c \in Caller : previous[c] \notin {"connecting", "disconnecting"}

SettleInv ==
  Busy => \/ Supervised # {} \/ \E c \in Caller : InProgress(c)
          \/ currentState = "connecting" /\ MaxSinks # 0

LEMMA SettleInit == Init => WorkInv /\ SettleInv
  BY DEF Init, WorkInv, SettleInv, Busy

\* A new tunnel is supervised, and the others stay so.
LEMMA SuperviseWorks ==
  ASSUME TypeOK, NEW isAdopted, Supervise(isAdopted)
  PROVE  tunnelRunner' \in Supervised' /\ tunnelRunner' # NoTunnel
<1>1. tunnels + 1 \in Tunnel /\ tunnels + 1 # 0
  BY DEF Supervise, TypeOK, TunType
<1>2. tun'[tunnels + 1] = "starting" /\ tunnelRunner' = tunnels + 1
  BY <1>1 DEF Supervise, TypeOK, TunType
<1>3. QED BY <1>1, <1>2 DEF Supervised

\* What any step does to the two lives that keep the service busy: of a caller's
\* login and of a supervised tunnel.
LEMMA WorkStep == TypeOK /\ WorkInv /\ [Next]_vars => WorkInv'
<1> SUFFICES ASSUME TypeOK, WorkInv, [Next]_vars PROVE WorkInv'
  OBVIOUS
<1> USE DEF WorkInv, InProgress, TypeOK, CallType, AuthType, TunType
<1>1. ASSUME NEW c \in Caller, Connect(c) PROVE WorkInv'
  <2>1. CASE Supervise(FALSE) /\ UNCHANGED <<pc, authVars>>
    <3>1. tunnelRunner' \in Supervised' /\ tunnelRunner' # NoTunnel
      BY <2>1, SuperviseWorks
    <3>2. QED BY <1>1, <2>1, <3>1 DEF Connect
  <2>2. CASE RunUnprivileged(c, "signIn") /\ activeDetails' = FALSE /\ UNCHANGED tunVars
    BY <1>1, <2>2 DEF Connect, RunUnprivileged, Supervised
  <2>3. QED BY <1>1, <2>1, <2>2 DEF Connect
<1>2. ASSUME NEW c \in Caller, SignedIn(c) PROVE WorkInv'
  <2>1. authRunner' = NoCaller /\ previous' = previous
    BY <1>2 DEF SignedIn, ReleaseAuth
  <2>2. CASE Supervise(FALSE)
    <3>1. tunnelRunner' \in Supervised' /\ tunnelRunner' # NoTunnel
      BY <2>2, SuperviseWorks
    <3>2. QED BY <2>1, <3>1
  <2>3. CASE UNCHANGED <<activeDetails, tunVars>>
    BY <2>1, <2>3 DEF Supervised
  <2>4. QED BY <1>2, <2>2, <2>3 DEF SignedIn
<1>3. ASSUME NEW c \in Caller, Discover(c) PROVE WorkInv'
  <2>1. authRunner' = c /\ pc'[c] \in {"discoverSignIn", "discover"}
    BY <1>3 DEF Discover, RunUnprivileged
  <2>2. \A d \in Caller : previous'[d] \notin {"connecting", "disconnecting"}
    BY <1>3 DEF Discover, Busy
  <2>3. UNCHANGED <<activeDetails, tunVars>>
    BY <1>3 DEF Discover
  <2>4. QED BY <2>1, <2>2, <2>3 DEF Supervised
<1>4. ASSUME NEW c \in Caller, DiscoverySignedIn(c) \/ Discovered(c) PROVE WorkInv'
  <2>1. authRunner' = NoCaller \/ (authRunner' = c /\ pc'[c] = "discover")
    BY <1>4 DEF DiscoverySignedIn, Discovered, RunUnprivileged, ReleaseAuth
  <2>2. \A d \in Caller : previous'[d] \notin {"connecting", "disconnecting"}
    BY <1>4 DEF DiscoverySignedIn, Discovered
  <2>3. UNCHANGED <<activeDetails, tunVars>>
    BY <1>4 DEF DiscoverySignedIn, Discovered
  <2>4. QED BY <2>1, <2>2, <2>3 DEF Supervised
<1>5. ASSUME NEW c \in Caller, Attached(c) PROVE WorkInv'
  <2>1. UNCHANGED <<previous, authRunner>> /\ \A d \in Caller \ {c} : pc'[d] = pc[d]
    BY <1>5 DEF Attached
  <2>2. authRunner # c
    BY <1>5 DEF Attached
  <2>3. CASE Supervise(TRUE)
    <3>1. tunnelRunner' \in Supervised' /\ tunnelRunner' # NoTunnel
      BY <2>3, SuperviseWorks
    <3>2. QED BY <2>1, <2>2, <3>1
  <2>4. CASE UNCHANGED <<stateVars, tunVars>>
    BY <2>1, <2>2, <2>4 DEF Supervised
  <2>5. QED BY <1>5, <2>3, <2>4 DEF Attached
<1>6. ASSUME NEW c \in Caller, Adopt(c) \/ Disconnect(c) \/ Disconnecting(c) PROVE WorkInv'
  <2>1. UNCHANGED <<previous, authRunner, activeDetails, tunVars>>
    BY <1>6 DEF Adopt, Disconnect, Disconnecting, TerminateAuth, Interrupt, Waited, Terminate
  <2>2. \A d \in Caller : InProgress(d) => pc'[d] = pc[d]
    BY <1>6 DEF Adopt, Disconnect, Disconnecting, TerminateAuth, Interrupt, Waited, Terminate
  <2>3. QED BY <2>1, <2>2 DEF Supervised
<1>7. ASSUME NEW t \in Tunnel, Launch(t) \/ ComeUp(t) \/ EndRun(t) PROVE WorkInv'
  <2>1. UNCHANGED <<previous, authRunner, pc, activeDetails, tunnelRunner>>
    BY <1>7 DEF Launch, ComeUp, EndRun
  <2>2. Supervised \subseteq Supervised'
    BY <1>7 DEF Launch, ComeUp, EndRun, Supervised
  <2>3. QED BY <2>1, <2>2
<1>8. ASSUME NEW t \in Tunnel, FinishTunnel(t) PROVE WorkInv'
  BY <1>8 DEF FinishTunnel, DetailsAfterFinish
<1>9. ASSUME UNCHANGED <<previous, authRunner, pc, activeDetails, tunVars>> PROVE WorkInv'
  BY <1>9 DEF Supervised
<1>10. QED
  BY <1>1, <1>2, <1>3, <1>4, <1>5, <1>6, <1>7, <1>8, <1>9
     DEF Next, Resumes, vars, AuthLine, AuthExit, TunnelLine, RunHandler, RunSink, HandleLine

\* Every end of what was under way leaves a state that is not busy, and every
\* step to a busy state has something under way.
LEMMA SettleStep == TypeOK /\ WorkInv /\ WorkInv' /\ SettleInv /\ [Next]_vars => SettleInv'
<1> SUFFICES ASSUME TypeOK, WorkInv, WorkInv', SettleInv, [Next]_vars PROVE SettleInv'
  OBVIOUS
<1> USE DEF SettleInv, Busy, InProgress
<1>1. ASSUME NEW c \in Caller, InProgress(c)' PROVE SettleInv'
  BY <1>1
<1>2. ASSUME tunnelRunner' # NoTunnel PROVE SettleInv'
  BY <1>2 DEF WorkInv
<1>3. ASSUME ~Busy' PROVE SettleInv'
  BY <1>3
<1>4. ASSUME currentState' = currentState, Supervised \subseteq Supervised',
             \A c \in Caller : InProgress(c) => InProgress(c)'
      PROVE  SettleInv'
  BY <1>4
<1>5. ASSUME NEW c \in Caller, Connect(c) PROVE SettleInv'
  <2>1. CASE Supervise(FALSE)
    BY <1>2, <2>1, SuperviseWorks
  <2>2. CASE RunUnprivileged(c, "signIn")
    BY <1>1, <2>2 DEF RunUnprivileged, TypeOK, CallType
  <2>3. QED BY <1>5, <2>1, <2>2 DEF Connect
<1>6. ASSUME NEW c \in Caller, SignedIn(c) PROVE SettleInv'
  <2>1. CASE Supervise(FALSE)
    BY <1>2, <2>1, SuperviseWorks
  <2>2. CASE currentState' \in {"disconnected", "failed"}
    BY <1>3, <2>2
  <2>3. QED BY <1>6, <2>1, <2>2 DEF SignedIn
<1>7. ASSUME NEW c \in Caller, Discover(c) PROVE SettleInv'
  <2>1. pc'[c] \in {"discoverSignIn", "discover"}
    BY <1>7 DEF Discover, RunUnprivileged, TypeOK, CallType
  <2>2. QED BY <1>1, <2>1
<1>8. ASSUME NEW c \in Caller, DiscoverySignedIn(c) \/ Discovered(c) PROVE SettleInv'
  <2>1. CASE RunUnprivileged(c, "discover")
    BY <1>1, <2>1 DEF RunUnprivileged, TypeOK, CallType
  <2>2. CASE Restore(c)
    BY <1>3, <2>2 DEF Restore, WorkInv
  <2>3. QED BY <1>8, <2>1, <2>2 DEF DiscoverySignedIn, Discovered
<1>9. ASSUME NEW c \in Caller, Attached(c) PROVE SettleInv'
  <2>1. CASE Supervise(TRUE)
    BY <1>2, <2>1, SuperviseWorks
  <2>2. CASE UNCHANGED <<stateVars, tunVars>>
    BY <1>4, <1>9, <2>2 DEF Attached, TypeOK, CallType, Supervised
  <2>3. QED BY <1>9, <2>1, <2>2 DEF Attached
<1>10. ASSUME NEW c \in Caller, Disconnect(c) PROVE SettleInv'
  <2>1. CASE SignInUnderWay
    <3>1. authRunner' = authRunner /\ authRunner \in Caller /\ authRunner # NoCaller
      BY <1>10, <2>1 DEF Disconnect, SignInUnderWay, TypeOK, AuthType
    <3>2. QED BY <1>1, <3>1 DEF WorkInv
  <2>2. CASE tunnelRunner # NoTunnel
    BY <1>2, <1>10, <2>2 DEF Disconnect
  <2>3. CASE currentState' = "disconnected"
    BY <1>3, <2>3
  <2>4. QED BY <1>10, <2>1, <2>2, <2>3 DEF Disconnect
<1>11. ASSUME NEW c \in Caller, Adopt(c) \/ Disconnecting(c) PROVE SettleInv'
  <2>1. currentState' = currentState /\ Supervised' = Supervised
    BY <1>11 DEF Adopt, Disconnecting, TerminateAuth, Interrupt, Waited, Terminate, Supervised
  <2>2. \A d \in Caller : InProgress(d) => pc'[d] = pc[d]
    BY <1>11 DEF Adopt, Disconnecting, TerminateAuth, Interrupt, Waited, Terminate, TypeOK, CallType
  <2>3. QED BY <1>4, <2>1, <2>2
<1>12. ASSUME NEW t \in Tunnel, Launch(t) \/ ComeUp(t) \/ EndRun(t) PROVE SettleInv'
  <2>1. currentState' = currentState /\ pc' = pc
    BY <1>12 DEF Launch, ComeUp, EndRun
  <2>2. Supervised \subseteq Supervised'
    BY <1>12 DEF Launch, ComeUp, EndRun, Supervised, TypeOK, TunType
  <2>3. QED BY <1>4, <2>1, <2>2
<1>13. ASSUME NEW t \in Tunnel, FinishTunnel(t) PROVE SettleInv'
  BY <1>3, <1>13 DEF FinishTunnel
<1>14. CASE RunSink
  <2>1. currentState' = "connecting" /\ MaxSinks # 0
    BY <1>14 DEF RunSink, TypeOK, AuthType
  <2>2. QED BY <2>1
<1>15. ASSUME NEW t, NEW kind, HandleLine(t, kind) PROVE SettleInv'
  <2>1. CASE activeDetails
    BY <1>2, <1>15, <2>1 DEF HandleLine, WorkInv
  <2>2. CASE ~activeDetails
    BY <1>4, <1>15, <2>2 DEF HandleLine, Supervised
  <2>3. QED BY <2>1, <2>2
<1>16. CASE UNCHANGED <<stateVars, pc, tunVars>>
  BY <1>4, <1>16 DEF Supervised
<1>17. QED
  BY <1>5, <1>6, <1>7, <1>8, <1>9, <1>10, <1>11, <1>12, <1>13, <1>14, <1>15, <1>16
     DEF Next, Resumes, vars, AuthLine, AuthExit, TunnelLine, RunHandler

LEMMA SettleInductive == Spec => [](TypeOK /\ WorkInv /\ SettleInv)
<1>1. TypeOK /\ WorkInv /\ SettleInv /\ [Next]_vars => (TypeOK /\ WorkInv /\ SettleInv)'
  BY TypeStep, WorkStep, SettleStep
<1>2. QED BY TypeInit, SettleInit, <1>1, PTL DEF Spec

\* With any number of late lines "disconnecting" still settles: whoever asked
\* for a disconnect is never left looking at one that nobody works on.
THEOREM DisconnectSettles ==
  Spec => []StateSettles
<1>1. WorkInv /\ SettleInv => StateSettles
  BY DEF WorkInv, SettleInv, StateSettles, Busy, Quiescent, InProgress
<1>2. QED BY <1>1, SettleInductive, PTL

-----------------------------------------------------------------------------
(* What was begun goes on, whatever the service is asked to do             *)

\* A tunnel number is new when it is taken, and gpauth is there while a call waits
\* for it.
FreshInv ==
  /\ \A t \in Tunnel : t > tunnels => tun[t] = "none"
  /\ \A c \in Caller : pc[c] = "signIn" => auth[c] # "none"

LEMMA SupervisesNew ==
  ASSUME TypeOK, FreshInv, NEW isAdopted, Supervise(isAdopted)
  PROVE  /\ \A t \in Tunnel : tun[t] # "none" => tun'[t] = tun[t]
         /\ \A t \in Tunnel : t > tunnels' => tun'[t] = "none"
<1>1. tunnels + 1 \in Tunnel /\ tunnels' = tunnels + 1 /\ tunnels \in Nat
  BY DEF Supervise, TypeOK, TunType
<1>2. tun[tunnels + 1] = "none"
  BY <1>1 DEF FreshInv
<1>3. \A t \in Tunnel : t # tunnels + 1 => tun'[t] = tun[t]
  BY <1>1 DEF Supervise, TypeOK, TunType
<1>4. QED BY <1>1, <1>2, <1>3 DEF FreshInv

LEMMA FreshStep == TypeOK /\ FreshInv /\ [Next]_vars => FreshInv'
<1> SUFFICES ASSUME TypeOK, FreshInv, [Next]_vars PROVE FreshInv'
  OBVIOUS
<1> DEFINE New == \A t \in Tunnel : t > tunnels => tun[t] = "none"
           There == \A c \in Caller : pc[c] = "signIn" => auth[c] # "none"
<1> USE DEF TypeOK, CallType, AuthType
<1>1. ASSUME NEW c \in Caller, Connect(c) \/ Resumes(c) PROVE New'
  <2>1. (\E isAdopted \in BOOLEAN : Supervise(isAdopted)) \/ UNCHANGED tunVars
    BY <1>1 DEF Connect, Resumes, SignedIn, DiscoverySignedIn, Discovered, Attached
  <2>2. QED BY <2>1, SupervisesNew DEF FreshInv
<1>2. ASSUME NEW t \in Tunnel, Launch(t) \/ ComeUp(t) \/ EndRun(t) \/ FinishTunnel(t) PROVE New'
  <2>1. tun[t] # "none" /\ tunnels' = tunnels /\ \A s \in Tunnel : s # t => tun'[s] = tun[s]
    BY <1>2 DEF Launch, ComeUp, EndRun, FinishTunnel, TunType
  <2>2. QED BY <2>1 DEF FreshInv
<1>3. ASSUME NEW c \in Caller, Connect(c) \/ Discover(c) \/ Resumes(c) PROVE There'
  <2>1. \A d \in Caller : d # c => pc'[d] = pc[d] /\ auth'[d] = auth[d]
    BY <1>3 DEF Connect, Discover, Resumes, SignedIn, DiscoverySignedIn, Discovered, Attached,
                RunUnprivileged, ReleaseAuth, Supervise
  <2>2. pc'[c] = "signIn" => auth'[c] # "none"
    BY <1>3 DEF Connect, Discover, Resumes, SignedIn, DiscoverySignedIn, Discovered, Attached,
                RunUnprivileged, ReleaseAuth, FreshInv
  <2>3. QED BY <2>1, <2>2 DEF FreshInv
<1>4. ASSUME NEW c \in Caller, Adopt(c) \/ Disconnect(c) \/ Disconnecting(c) PROVE There'
  <2>1. auth' = auth /\ \A d \in Caller : pc'[d] = "signIn" => pc[d] = "signIn"
    BY <1>4 DEF Adopt, Disconnect, Disconnecting, TerminateAuth, Interrupt, Waited, Terminate
  <2>2. QED BY <2>1 DEF FreshInv
<1>5. ASSUME NEW c \in Caller, AuthExit(c) PROVE There'
  BY <1>5 DEF AuthExit, FreshInv
<1>6. ASSUME UNCHANGED tunVars PROVE New'
  BY <1>6 DEF FreshInv
<1>7. ASSUME UNCHANGED <<pc, auth>> PROVE There'
  BY <1>7 DEF FreshInv
<1>8. QED
  BY <1>1, <1>2, <1>3, <1>4, <1>5, <1>6, <1>7
     DEF FreshInv, Next, vars, Discover, Adopt, Disconnect, Disconnecting, TerminateAuth,
         Interrupt, Waited, Terminate, AuthLine, AuthExit, Launch, ComeUp, EndRun,
         FinishTunnel, TunnelLine, RunHandler, RunSink, HandleLine

LEMMA FreshInductive == Spec => [](TypeOK /\ FreshInv)
<1>1. Init => TypeOK /\ FreshInv
  BY TypeInit DEF Init, FreshInv
<1>2. QED BY <1>1, TypeStep, FreshStep, PTL DEF Spec

\* A disconnect that found gpclient up sees it through: until its run resolves it
\* was sent SIGTERM, or the call that will send it is still at work, whatever else is
\* called meanwhile (disconnect, the polling loop).  DisconnectEscalates adds
\* that these steps are taken.
Stops(c, t) == target[c] = t /\ pc[c] \in {"interrupt", "waiting", "terminate"}

Stopping(t) ==
  \/ tun[t] \in {"ended", "done"}
  \/ tun[t] = "up" /\ (signal[t] = "term" \/ \E c \in Caller : Stops(c, t))

DisconnectGoesOn == [][\A t \in Tunnel : Stopping(t) => Stopping(t)']_vars

\* A step that signals nobody and takes no stopping call further.
LEMMA StopsOn ==
  ASSUME NEW t \in Tunnel, Stopping(t),
         tun[t] \in {"up", "ended", "done"} =>
           tun'[t] = tun[t] \/ tun'[t] \in {"ended", "done"},
         signal'[t] = signal[t] \/ signal'[t] = "term",
         \A c \in Caller : Stops(c, t) => Stops(c, t)'
  PROVE  Stopping(t)'
  BY DEF Stopping

\* A tunnel that a disconnect has begun to stop keeps somebody who stops it, or has
\* its SIGTERM, or is over, whatever is called meanwhile (disconnect).
THEOREM DisconnectIsOnItsWay == Spec => DisconnectGoesOn
<1> DEFINE A == \A t \in Tunnel : Stopping(t) => Stopping(t)'
<1>1. TypeOK /\ FreshInv /\ [Next]_vars => [A]_vars
  <2> SUFFICES ASSUME TypeOK, FreshInv, Next, NEW t \in Tunnel, Stopping(t)
               PROVE  Stopping(t)'
    BY DEF vars
  <2> USE DEF TypeOK, CallType, TunType, GpclientType
  <2>0. tun[t] \in {"up", "ended", "done"}
    BY DEF Stopping
  <2>1. ASSUME NEW c \in Caller, Connect(c) \/ Resumes(c) PROVE Stopping(t)'
    <3>1. (\E isAdopted \in BOOLEAN : Supervise(isAdopted)) \/ UNCHANGED tunVars
      BY <2>1 DEF Connect, Resumes, SignedIn, DiscoverySignedIn, Discovered, Attached
    <3>2. tun'[t] = tun[t]
      BY <2>0, <3>1, SupervisesNew
    <3>3. UNCHANGED <<target, signal>>
      BY <2>1 DEF Connect, Resumes, SignedIn, DiscoverySignedIn, Discovered, Attached
    <3>4. pc[c] \in {"idle", "signIn", "discoverSignIn", "discover", "attach"}
          /\ \A d \in Caller : d # c => pc'[d] = pc[d]
      BY <2>1 DEF Connect, Resumes, SignedIn, DiscoverySignedIn, Discovered, Attached,
                  RunUnprivileged
    <3>5. \A d \in Caller : Stops(d, t) => Stops(d, t)'
      BY <3>3, <3>4 DEF Stops
    <3>6. QED BY <3>2, <3>3, <3>5, StopsOn
  <2>2. ASSUME NEW c \in Caller, Discover(c) \/ Adopt(c) \/ Disconnect(c) PROVE Stopping(t)'
    <3>1. UNCHANGED <<tun, signal>> /\ pc[c] = "idle"
          /\ \A d \in Caller : d # c => pc'[d] = pc[d] /\ target'[d] = target[d]
      BY <2>2 DEF Discover, Adopt, Disconnect, RunUnprivileged
    <3>2. \A d \in Caller : Stops(d, t) => Stops(d, t)'
      BY <3>1 DEF Stops
    <3>3. QED BY <3>1, <3>2, StopsOn
  <2>3. ASSUME NEW c \in Caller, Interrupt(c) PROVE Stopping(t)'
    <3>1. tun' = tun /\ target' = target
          /\ \A d \in Caller : pc'[d] = pc[d] \/ (d = c /\ pc'[d] = "waiting")
      BY <2>3 DEF Interrupt
    <3>2. signal'[t] = signal[t] \/ signal[t] # "term"
      BY <2>3 DEF Interrupt, SendSignal
    <3>3. \A d \in Caller : Stops(d, t) => Stops(d, t)'
      BY <3>1 DEF Stops
    <3>4. QED BY <3>1, <3>2, <3>3 DEF Stopping
  <2>4. ASSUME NEW c \in Caller, Waited(c) PROVE Stopping(t)'
    <3>1. UNCHANGED <<tun, signal>>
          /\ \A d \in Caller : d # c => pc'[d] = pc[d] /\ target'[d] = target[d]
      BY <2>4 DEF Waited
    <3>2. Stops(c, t) /\ tun[t] = "up" => Stops(c, t)'
      BY <2>4 DEF Waited, Stops, IsRunning
    <3>3. \A d \in Caller : Stops(d, t) /\ tun[t] = "up" => Stops(d, t)'
      BY <3>1, <3>2 DEF Stops
    <3>4. QED BY <3>1, <3>3 DEF Stopping
  <2>5. ASSUME NEW c \in Caller, Terminate(c) PROVE Stopping(t)'
    <3>1. tun' = tun /\ \A d \in Caller : d # c => pc'[d] = pc[d] /\ target'[d] = target[d]
      BY <2>5 DEF Terminate
    <3>2. signal'[t] = signal[t] \/ signal'[t] = "term"
      BY <2>5 DEF Terminate, SendSignal
    <3>3. Stops(c, t) /\ tun[t] = "up" => signal'[t] = "term"
      BY <2>5 DEF Terminate, SendSignal, Reaches, Stops
    <3>4. \A d \in Caller : d # c /\ Stops(d, t) => Stops(d, t)'
      BY <3>1 DEF Stops
    <3>5. QED BY <3>1, <3>2, <3>3, <3>4 DEF Stopping
  <2>6. ASSUME NEW s \in Tunnel, Launch(s) \/ ComeUp(s) \/ EndRun(s) \/ FinishTunnel(s)
        PROVE  Stopping(t)'
    <3>1. UNCHANGED <<pc, target, signal>>
      BY <2>6 DEF Launch, ComeUp, EndRun, FinishTunnel
    <3>2. tun'[t] = tun[t] \/ tun'[t] \in {"ended", "done"}
      BY <2>0, <2>6 DEF Launch, ComeUp, EndRun, FinishTunnel
    <3>3. \A d \in Caller : Stops(d, t) => Stops(d, t)'
      BY <3>1 DEF Stops
    <3>4. QED BY <3>1, <3>2, <3>3, StopsOn
  <2>7. ASSUME UNCHANGED <<pc, target, tun, signal>> PROVE Stopping(t)'
    BY <2>7 DEF Stopping, Stops
  <2>8. QED
    BY <2>1, <2>2, <2>3, <2>4, <2>5, <2>6, <2>7
       DEF Next, Disconnecting, TerminateAuth, AuthLine, AuthExit, TunnelLine, RunHandler,
           RunSink, HandleLine
<1>2. QED BY <1>1, FreshInductive, PTL DEF Spec, DisconnectGoesOn

\* A sign-in that was cancelled sees its gpauth end, whatever else is called
\* meanwhile: the signal is on its way, was sent, or is not needed any more.
\* CancelEndsSignIn adds that these steps are taken.
Cancelled(c) ==
  pc[c] = "signIn" /\ (c \in terminating \cup terminated \/ auth[c] = "ended")

CancelGoesOn == [][\A c \in Caller : Cancelled(c) => Cancelled(c)' \/ pc'[c] = "idle"]_vars

\* The sign-in of a cancelled call stays cancelled until the call returns, whatever
\* is called meanwhile (disconnect, which terminates gpauth).
THEOREM CancelIsOnItsWay == Spec => CancelGoesOn
<1> DEFINE A == \A c \in Caller : Cancelled(c) => Cancelled(c)' \/ pc'[c] = "idle"
<1>1. TypeOK /\ FreshInv /\ [Next]_vars => [A]_vars
  <2> SUFFICES ASSUME TypeOK, FreshInv, Next, NEW c \in Caller, Cancelled(c)
               PROVE  Cancelled(c)' \/ pc'[c] = "idle"
    BY DEF vars
  <2> USE DEF TypeOK, CallType, AuthType
  <2>0. pc[c] = "signIn" /\ auth[c] \in {"up", "ended"}
    BY DEF Cancelled, FreshInv
  <2>1. ASSUME NEW d \in Caller, Connect(d) \/ Discover(d) \/ DiscoverySignedIn(d) \/ Discovered(d)
        PROVE  Cancelled(c)'
    <3>1. d # c
      BY <2>0, <2>1 DEF Connect, Discover, DiscoverySignedIn, Discovered
    <3>2. pc'[c] = pc[c] /\ auth'[c] = auth[c]
          /\ (c \in terminating' <=> c \in terminating)
          /\ (c \in terminated' <=> c \in terminated)
      BY <2>1, <3>1 DEF Connect, Discover, DiscoverySignedIn, Discovered, RunUnprivileged,
                        ReleaseAuth
    <3>3. QED BY <3>2 DEF Cancelled
  <2>2. ASSUME NEW d \in Caller, SignedIn(d) PROVE Cancelled(c)' \/ pc'[c] = "idle"
    <3>1. CASE d = c
      BY <2>2, <3>1 DEF SignedIn
    <3>2. CASE d # c
      BY <2>2, <3>2 DEF SignedIn, ReleaseAuth, Cancelled
    <3>3. QED BY <3>1, <3>2
  <2>3. ASSUME NEW d \in Caller, TerminateAuth(d) PROVE Cancelled(c)'
    BY <2>0, <2>3 DEF TerminateAuth, Cancelled
  <2>4. ASSUME NEW d \in Caller,
               Adopt(d) \/ Attached(d) \/ Disconnect(d) \/ Interrupt(d) \/ Waited(d)
                 \/ Terminate(d)
        PROVE  Cancelled(c)'
    <3>1. pc'[c] = pc[c]
      BY <2>0, <2>4 DEF Adopt, Attached, Disconnect, Interrupt, Waited, Terminate
    <3>2. UNCHANGED <<auth, terminated>> /\ terminating \subseteq terminating'
      BY <2>4 DEF Adopt, Attached, Disconnect, Interrupt, Waited, Terminate
    <3>3. QED BY <3>1, <3>2 DEF Cancelled
  <2>5. ASSUME NEW d \in Caller, AuthExit(d) PROVE Cancelled(c)'
    BY <2>0, <2>5 DEF AuthExit, Cancelled
  <2>6. ASSUME UNCHANGED <<pc, authVars>> PROVE Cancelled(c)'
    BY <2>6 DEF Cancelled
  <2>7. QED
    BY <2>1, <2>2, <2>3, <2>4, <2>5, <2>6
       DEF Next, Resumes, Disconnecting, AuthLine, Launch, ComeUp, EndRun, FinishTunnel,
           TunnelLine, RunHandler, RunSink, HandleLine
<1>2. QED BY <1>1, FreshInductive, PTL DEF Spec, CancelGoesOn
=============================================================================
