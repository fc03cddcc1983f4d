----------------------- MODULE GpclientConnect_proofs -----------------------
(***************************************************************************)
(* Proofs about GpclientConnect for any number of gateways.                *)
(***************************************************************************)
EXTENDS GpclientConnect, TLAPS

LEMMA MaxType == MaxGateways \in Nat \ {0}
  BY GatewaysAssumption DEF GatewaysAssumption

USE MaxType
USE DEF Attempt, Flags, Ended, LoggingIn, InAttempt, Alive, Move, End,
        loginVars, attemptVars, signalVars, fileVars

LEMMA InitIInv == Init => IInv
<1> SUFFICES ASSUME Init PROVE IInv
  OBVIOUS
<1>1. TypeOK
  BY DEF Init, TypeOK
<1>2. RouteInv /\ CleanInv /\ SignalInv
  BY DEF Init, RouteInv, CleanInv, SignalInv
<1>3. OkOnlyOnRequest /\ LogoutIsNoError
  BY DEF Init, OkOnlyOnRequest, LogoutIsNoError
<1>4. QED BY <1>1, <1>2, <1>3 DEF IInv

\* What the callers of connect_gateway do with a result.
LEMMA ConcludeMoves ==
  ASSUME TypeOK, NEW result, Conclude(result), pc \in {"login", "attempt", "unlink", "classify"},
         route \in {"auto", "selected"} => 1 <= gw /\ gw <= gateways
  PROVE  /\ pc' \in {"portal", "login", "ended"}
         /\ pc' = "ended" => status' \in Ended \ {"killed"} /\ UNCHANGED <<route, gw, rc>>
         /\ pc' # "ended" => UNCHANGED status /\ rc' = "none"
         /\ pc' = "portal" => route = "cached" /\ route' = "portal" /\ gw' = gw
         /\ pc' = "login" => /\ route = "auto" /\ route' = "auto" /\ result = "before"
                             /\ gw' = gw + 1 /\ gw' <= gateways
         /\ pc' = "ended" /\ status' = "ok" => result = "ok"
         /\ pc' = "ended" /\ status' = "error" => result \notin {"ok", "lock"}
  BY DEF TypeOK, Conclude, MayTryNext

\* The places of the callers fit the bound.
LEMMA AttemptFits ==
  ASSUME TypeOK, RouteInv, pc = "attempt"
  PROVE  attempt + 1 \in Attempt
<1>1. CASE route \in {"auto", "selected"}
  BY <1>1 DEF TypeOK, RouteInv, Places
<1>2. CASE route \in {"cached", "direct"}
  BY <1>2 DEF TypeOK, RouteInv, Places
<1>3. QED BY <1>1, <1>2 DEF RouteInv

LEMMA TypeStep == TypeOK /\ RouteInv /\ [Next]_vars => TypeOK'
<1> SUFFICES ASSUME TypeOK, RouteInv, [Next]_vars PROVE TypeOK'
  OBVIOUS
<1>0. route \in {"auto", "selected"} => 1 <= gw /\ gw <= gateways
  BY DEF RouteInv
<1>1. CASE Start
  BY <1>1 DEF TypeOK, Start
<1>2. CASE ChooseRoute
  BY <1>2 DEF TypeOK, ChooseRoute, FirstRoute
<1>3. CASE CachedLogin
  BY <1>3 DEF TypeOK, CachedLogin
<1>4. CASE PortalLogin
  BY <1>4 DEF TypeOK, PortalLogin
<1>5. CASE DirectLogin
  BY <1>5 DEF TypeOK, DirectLogin
<1>6. CASE UnlockKey
  BY <1>6 DEF TypeOK, UnlockKey
<1>7. CASE GatewayLogin
  <2>1. CASE Conclude("before") /\ UNCHANGED cookie
    BY <1>0, <1>7, <2>1, ConcludeMoves DEF TypeOK, GatewayLogin
  <2>2. CASE ~(Conclude("before") /\ UNCHANGED cookie)
    BY <1>7, <2>2 DEF TypeOK, GatewayLogin
  <2>3. QED BY <2>1, <2>2
<1>8. CASE BeginAttempt
  <2>1. ASSUME NEW result, Conclude(result), UNCHANGED <<attempt, watcher>> PROVE TypeOK'
    BY <1>0, <1>8, <2>1, ConcludeMoves DEF TypeOK, BeginAttempt
  <2>2. CASE pc' = "opening"
    BY <1>8, <2>2, AttemptFits DEF TypeOK, BeginAttempt, Conclude
  <2>3. QED BY <1>8, <2>1, <2>2 DEF BeginAttempt
<1>9. CASE OpenPipe \/ CstpUp
  <2>1. CASE OpenPipe
    BY <2>1 DEF TypeOK, OpenPipe
  <2>2. CASE CstpUp
    BY <2>2 DEF TypeOK, CstpUp
  <2>3. QED BY <1>9, <2>1, <2>2
<1>10. CASE OnConnected
  BY <1>10 DEF TypeOK, RouteInv, OnConnected
<1>11. CASE Fail \/ Interrupted
  <2>1. PICK from \in {"opening", "cstp", "mainloop", "tunnel"}, 
                 code \in {"failed", "interrupted"} : Return(from, code)
    BY <1>11 DEF Fail, Interrupted
  <2>2. QED BY <2>1 DEF TypeOK, Return
<1>12. CASE AbortSession
  BY <1>12 DEF TypeOK, AbortSession, AbortedSessions
<1>13. CASE RemovePidFile
  <2>1. CASE Conclude("lock") /\ UNCHANGED pidFile
    BY <1>0, <1>13, <2>1, ConcludeMoves DEF TypeOK, RemovePidFile
  <2>2. CASE pc' = "classify"
    BY <1>13, <2>2 DEF TypeOK, RemovePidFile, Conclude
  <2>3. QED BY <1>13, <2>1, <2>2 DEF RemovePidFile
<1>14. CASE Classify
  BY <1>0, <1>14, ConcludeMoves DEF TypeOK, Classify
<1>15. CASE Signal
  BY <1>15 DEF TypeOK, Signal
<1>16. CASE SignalKills
  BY <1>16 DEF TypeOK, SignalKills
<1>17. ASSUME NEW n \in Attempt, SignalTask(n) PROVE TypeOK'
  <2>1. CASE Listen(n)
    BY <2>1 DEF TypeOK, Listen
  <2>2. CASE RequestDisconnect(n)
    BY <2>2 DEF TypeOK, RequestDisconnect
  <2>3. CASE WriteCancel(n)
    BY <2>3 DEF TypeOK, RouteInv, WriteCancel, PipeOpen
  <2>4. QED BY <1>17, <2>1, <2>2, <2>3 DEF SignalTask
<1>18. CASE Peer
  BY <1>18 DEF TypeOK, Peer, PeerStarts, PeerConnects, PeerEnds, PeerDies
<1>19. CASE UNCHANGED vars
  BY <1>19 DEF TypeOK, vars
<1>20. QED
  BY <1>1, <1>2, <1>3, <1>4, <1>5, <1>6, <1>7, <1>8, <1>9, <1>10, <1>11, <1>12, <1>13,
     <1>14, <1>15, <1>16, <1>17, <1>18, <1>19 DEF Next, Login, VpnConnect, AfterReturn

LEMMA RouteStep == TypeOK /\ RouteInv /\ CleanInv /\ [Next]_vars => RouteInv'
<1> SUFFICES ASSUME TypeOK, RouteInv, CleanInv, [Next]_vars PROVE RouteInv'
  OBVIOUS
<1>0. route \in {"auto", "selected"} => 1 <= gw /\ gw <= gateways
  BY DEF RouteInv
<1> USE DEF TypeOK, RouteInv, Places
<1>1. CASE Start
  BY <1>1 DEF Start
<1>2. CASE ChooseRoute
  BY <1>2 DEF ChooseRoute, FirstRoute
<1>3. CASE CachedLogin
  BY <1>3 DEF CachedLogin
<1>4. CASE PortalLogin
  BY <1>4 DEF PortalLogin
<1>5. CASE DirectLogin
  BY <1>5 DEF DirectLogin
<1>6. CASE UnlockKey
  BY <1>6 DEF UnlockKey
<1>7. CASE GatewayLogin
  <2>1. CASE Conclude("before") /\ UNCHANGED cookie
    BY <1>0, <1>7, <2>1, ConcludeMoves DEF GatewayLogin
  <2>2. CASE ~(Conclude("before") /\ UNCHANGED cookie)
    BY <1>7, <2>2 DEF GatewayLogin
  <2>3. QED BY <2>1, <2>2
<1>8. CASE BeginAttempt
  <2>1. ASSUME NEW result, Conclude(result), UNCHANGED <<attempt, watcher>> PROVE RouteInv'
    BY <1>0, <1>8, <2>1, ConcludeMoves DEF BeginAttempt
  <2>2. CASE pc' = "opening"
    <3>1. attempt' = attempt + 1 /\ UNCHANGED <<key, route, gateways, gw>> /\ key = "fine"
      BY <1>8, <2>2 DEF BeginAttempt, Conclude
    <3>2. QED BY <2>2, <3>1, <1>8 DEF BeginAttempt
  <2>3. QED BY <1>8, <2>1, <2>2 DEF BeginAttempt
<1>9. CASE OpenPipe \/ CstpUp
  BY <1>9 DEF OpenPipe, CstpUp
<1>10. CASE OnConnected
  BY <1>10 DEF OnConnected
<1>11. CASE Fail \/ Interrupted
  BY <1>11 DEF Fail, Interrupted, Return
<1>12. CASE AbortSession
  BY <1>12 DEF AbortSession
<1>13. CASE RemovePidFile
  <2>1. CASE Conclude("lock") /\ UNCHANGED pidFile
    BY <1>0, <1>13, <2>1, ConcludeMoves DEF RemovePidFile
  <2>2. CASE pc' = "classify"
    BY <1>13, <2>2 DEF RemovePidFile, Conclude
  <2>3. QED BY <1>13, <2>1, <2>2 DEF RemovePidFile
<1>14. CASE Classify
  BY <1>0, <1>14, ConcludeMoves DEF Classify
<1>15. CASE Signal \/ SignalKills
  BY <1>15 DEF Signal, SignalKills
<1>16. ASSUME NEW n \in Attempt, SignalTask(n) PROVE RouteInv'
  BY <1>16 DEF SignalTask, Listen, RequestDisconnect, WriteCancel
<1>17. CASE Peer \/ UNCHANGED vars
  BY <1>17 DEF Peer, vars
<1>18. QED
  BY <1>1, <1>2, <1>3, <1>4, <1>5, <1>6, <1>7, <1>8, <1>9, <1>10, <1>11, <1>12, <1>13,
     <1>14, <1>15, <1>16, <1>17 DEF Next, Login, VpnConnect, AfterReturn

LEMMA CleanStep == TypeOK /\ RouteInv /\ CleanInv /\ [Next]_vars => CleanInv'
<1> SUFFICES ASSUME TypeOK, RouteInv, CleanInv, [Next]_vars PROVE CleanInv'
  OBVIOUS
<1>0. route \in {"auto", "selected"} => 1 <= gw /\ gw <= gateways
  BY DEF RouteInv
<1> USE DEF TypeOK, CleanInv
<1>1. CASE Start \/ ChooseRoute
  BY <1>1 DEF Start, ChooseRoute, FirstRoute
<1>2. CASE CachedLogin \/ PortalLogin
  BY <1>2 DEF CachedLogin, PortalLogin
<1>3. CASE DirectLogin \/ UnlockKey
  BY <1>3 DEF DirectLogin, UnlockKey
<1>4. CASE GatewayLogin
  <2>1. CASE Conclude("before") /\ UNCHANGED cookie
    BY <1>0, <1>4, <2>1, ConcludeMoves DEF GatewayLogin
  <2>2. CASE ~(Conclude("before") /\ UNCHANGED cookie)
    BY <1>4, <2>2 DEF GatewayLogin
  <2>3. QED BY <2>1, <2>2
<1>5. CASE BeginAttempt
  <2>1. ASSUME NEW result, Conclude(result), UNCHANGED <<attempt, watcher>> PROVE CleanInv'
    BY <1>0, <1>5, <2>1, ConcludeMoves DEF BeginAttempt
  <2>2. CASE pc' = "opening"
    BY <1>5, <2>2 DEF BeginAttempt, Conclude
  <2>3. QED BY <1>5, <2>1, <2>2 DEF BeginAttempt
<1>6. CASE OpenPipe \/ CstpUp
  BY <1>6 DEF OpenPipe, CstpUp
<1>7. CASE OnConnected
  BY <1>7 DEF OnConnected
<1>8. CASE Fail \/ Interrupted
  BY <1>8 DEF Fail, Interrupted, Return
<1>9. CASE AbortSession
  BY <1>9 DEF AbortSession, AbortedSessions
<1>10. CASE RemovePidFile
  <2>1. CASE "root" \in args /\ pidFile # "none"
    BY <1>10, <2>1 DEF RemovePidFile
  <2>2. CASE ~("root" \in args /\ pidFile # "none")
    BY <1>0, <1>10, <2>2, ConcludeMoves DEF RemovePidFile
  <2>3. QED BY <2>1, <2>2
<1>11. CASE Classify
  BY <1>0, <1>11, ConcludeMoves DEF Classify
<1>12. CASE Signal \/ SignalKills
  BY <1>12 DEF Signal, SignalKills
<1>13. ASSUME NEW n \in Attempt, SignalTask(n) PROVE CleanInv'
  BY <1>13 DEF SignalTask, Listen, RequestDisconnect, WriteCancel
<1>14. CASE Peer
  BY <1>14 DEF Peer, PeerStarts, PeerConnects, PeerEnds, PeerDies
<1>15. CASE UNCHANGED vars
  BY <1>15 DEF vars
<1>16. QED
  BY <1>1, <1>2, <1>3, <1>4, <1>5, <1>6, <1>7, <1>8, <1>9, <1>10, <1>11, <1>12, <1>13,
     <1>14, <1>15 DEF Next, Login, VpnConnect, AfterReturn

LEMMA SignalStep == TypeOK /\ RouteInv /\ SignalInv /\ [Next]_vars => SignalInv'
<1> SUFFICES ASSUME TypeOK, RouteInv, SignalInv, [Next]_vars PROVE SignalInv'
  OBVIOUS
<1>0. route \in {"auto", "selected"} => 1 <= gw /\ gw <= gateways
  BY DEF RouteInv
<1> USE DEF TypeOK, SignalInv
<1>1. CASE Start \/ ChooseRoute
  BY <1>1 DEF Start, ChooseRoute, FirstRoute
<1>2. CASE CachedLogin \/ PortalLogin
  BY <1>2 DEF CachedLogin, PortalLogin
<1>3. CASE DirectLogin \/ UnlockKey
  BY <1>3 DEF DirectLogin, UnlockKey
<1>4. CASE GatewayLogin
  <2>1. CASE Conclude("before") /\ UNCHANGED cookie
    BY <1>0, <1>4, <2>1, ConcludeMoves DEF GatewayLogin
  <2>2. CASE ~(Conclude("before") /\ UNCHANGED cookie)
    BY <1>4, <2>2 DEF GatewayLogin
  <2>3. QED BY <2>1, <2>2
<1>5. CASE BeginAttempt
  <2>1. ASSUME NEW result, Conclude(result), UNCHANGED <<attempt, watcher>> PROVE SignalInv'
    BY <1>0, <1>5, <2>1, ConcludeMoves DEF BeginAttempt
  <2>2. CASE pc' = "opening"
    <3>1. /\ attempt' = attempt + 1 /\ UNCHANGED <<rc, requested, cancelled>> /\ rc = "none"
          /\ watcher' = [watcher EXCEPT ![attempt + 1] = "spawned"]
      BY <1>5, <2>2 DEF BeginAttempt, Conclude
    <3>2. QED BY <2>2, <3>1
  <2>3. QED BY <1>5, <2>1, <2>2 DEF BeginAttempt
<1>6. CASE OpenPipe \/ CstpUp
  BY <1>6 DEF OpenPipe, CstpUp
<1>7. CASE OnConnected
  BY <1>7 DEF OnConnected
<1>8. CASE Fail \/ Interrupted
  BY <1>8 DEF Fail, Interrupted, Return
<1>9. CASE AbortSession
  BY <1>9 DEF AbortSession
<1>10. CASE RemovePidFile
  <2>1. CASE "root" \in args /\ pidFile # "none"
    BY <1>10, <2>1 DEF RemovePidFile
  <2>2. CASE ~("root" \in args /\ pidFile # "none")
    BY <1>0, <1>10, <2>2, ConcludeMoves DEF RemovePidFile
  <2>3. QED BY <2>1, <2>2
<1>11. CASE Classify
  BY <1>0, <1>11, ConcludeMoves DEF Classify
<1>12. CASE Signal
  BY <1>12 DEF Signal
<1>13. CASE SignalKills
  BY <1>13 DEF SignalKills
<1>14. ASSUME NEW n \in Attempt, SignalTask(n) PROVE SignalInv'
  <2>1. CASE Listen(n)
    BY <2>1 DEF Listen
  <2>2. CASE RequestDisconnect(n)
    BY <2>2 DEF RequestDisconnect
  <2>3. CASE WriteCancel(n)
    <3>1. n <= attempt /\ n \in requested
      BY <2>3 DEF WriteCancel, ReadyToCancel
    <3>2. 1 \in cancelled' => 1 \in requested'
      BY <2>3, <3>1 DEF WriteCancel
    <3>3. QED BY <2>3, <3>1, <3>2 DEF WriteCancel
  <2>4. QED BY <1>14, <2>1, <2>2, <2>3 DEF SignalTask
<1>15. CASE Peer \/ UNCHANGED vars
  BY <1>15 DEF Peer, vars
<1>16. QED
  BY <1>1, <1>2, <1>3, <1>4, <1>5, <1>6, <1>7, <1>8, <1>9, <1>10, <1>11, <1>12, <1>13,
     <1>14, <1>15 DEF Next, Login, VpnConnect, AfterReturn

\* What the process reports is decided by the step that ends it.
LEMMA StatusStep ==
  TypeOK /\ RouteInv /\ CleanInv /\ SignalInv /\ OkOnlyOnRequest /\ LogoutIsNoError /\ [Next]_vars
    => OkOnlyOnRequest' /\ LogoutIsNoError'
<1> SUFFICES ASSUME TypeOK, RouteInv, CleanInv, SignalInv, OkOnlyOnRequest, LogoutIsNoError,
                    [Next]_vars
             PROVE  OkOnlyOnRequest' /\ LogoutIsNoError'
  OBVIOUS
<1>0. /\ route \in {"auto", "selected"} => 1 <= gw /\ gw <= gateways
      /\ (status = "none") = (pc # "ended")
      /\ rc # "none" => pc \in {"returned", "unlink", "classify", "ended"}
  BY DEF RouteInv, CleanInv, SignalInv
<1> USE DEF TypeOK, OkOnlyOnRequest, LogoutIsNoError
<1>1. CASE Start \/ ChooseRoute \/ CachedLogin \/ PortalLogin
  BY <1>0, <1>1 DEF Start, ChooseRoute, FirstRoute, CachedLogin, PortalLogin
<1>2. CASE DirectLogin \/ UnlockKey
  <2>1. key # "fine" => attempt = 0
    BY DEF RouteInv
  <2>2. QED BY <1>0, <1>2, <2>1 DEF DirectLogin, UnlockKey
<1>3. CASE GatewayLogin
  <2>1. CASE Conclude("before") /\ UNCHANGED cookie
    BY <1>0, <1>3, <2>1, ConcludeMoves DEF GatewayLogin
  <2>2. CASE ~(Conclude("before") /\ UNCHANGED cookie)
    BY <1>0, <1>3, <2>2 DEF GatewayLogin
  <2>3. QED BY <2>1, <2>2
<1>4. CASE BeginAttempt
  <2>1. CASE Conclude("ok") /\ "cookieOnly" \in args
    BY <1>0, <1>4, <2>1, ConcludeMoves DEF BeginAttempt
  <2>2. CASE Conclude("before")
    BY <1>0, <1>4, <2>2, ConcludeMoves DEF BeginAttempt
  <2>3. CASE pc' = "opening" /\ UNCHANGED status
    BY <1>0, <1>4, <2>3 DEF BeginAttempt
  <2>4. QED BY <1>4, <2>1, <2>2, <2>3 DEF BeginAttempt
<1>5. CASE VpnConnect
  BY <1>0, <1>5 DEF VpnConnect, OpenPipe, CstpUp, OnConnected, Fail, Interrupted, Return
<1>6. CASE AbortSession
  BY <1>0, <1>6 DEF AbortSession
<1>7. CASE RemovePidFile
  <2>1. CASE "root" \in args /\ pidFile # "none"
    BY <1>0, <1>7, <2>1 DEF RemovePidFile
  <2>2. CASE ~("root" \in args /\ pidFile # "none")
    BY <1>0, <1>7, <2>2, ConcludeMoves DEF RemovePidFile
  <2>3. QED BY <2>1, <2>2
<1>8. CASE Classify
  <2>1. Classified = "ok" => attempt \in requested
    BY DEF Classified
  <2>2. rc = "interrupted" /\ Classified # "ok" => attempt > 1
    BY <1>8 DEF Classify, Classified, SignalInv, RouteInv
  <2>3. UNCHANGED <<args, attempt, requested>> /\ status = "none"
    BY <1>0, <1>8 DEF Classify
  <2>4. QED BY <1>0, <1>8, <2>1, <2>2, <2>3, ConcludeMoves DEF Classify
<1>9. CASE Signal \/ SignalKills
  BY <1>0, <1>9 DEF Signal, SignalKills
<1>10. ASSUME NEW n \in Attempt, SignalTask(n) PROVE OkOnlyOnRequest' /\ LogoutIsNoError'
  BY <1>0, <1>10 DEF SignalTask, Listen, RequestDisconnect, WriteCancel
<1>11. CASE Peer \/ UNCHANGED vars
  BY <1>11 DEF Peer, vars
<1>12. QED
  BY <1>1, <1>2, <1>3, <1>4, <1>5, <1>6, <1>7, <1>8, <1>9, <1>10, <1>11
     DEF Next, Login, AfterReturn

\* The invariant that the theorems below are read off.
THEOREM Inductive == Spec => []IInv
<1>1. Init => IInv
  BY InitIInv
<1>2. IInv /\ [Next]_vars => IInv'
  BY TypeStep, RouteStep, CleanStep, SignalStep, StatusStep DEF IInv
<1>3. QED BY <1>1, <1>2, PTL DEF Spec

\* The variables keep their types; attempts never exceed the bound, which no
\* guard enforces: it follows from the routes.
THEOREM TypeCorrect == Spec => []TypeOK
<1>1. IInv => TypeOK
  BY DEF IInv
<1>2. QED BY <1>1, Inductive, PTL

\* Success is reported for a cookie, for a disconnect that was asked for, or for a
\* certificate without a private key before anything was attempted.
THEOREM SuccessWasRequested == Spec => []OkOnlyOnRequest
<1>1. IInv => OkOnlyOnRequest
  BY DEF IInv
<1>2. QED BY <1>1, Inductive, PTL

\* Between attempts and at the end no session task and no PID file of ours is left.
THEOREM CleanedUp == Spec => []NothingLeftBehind
<1>1. IInv => NothingLeftBehind
  BY DEF IInv, TypeOK, CleanInv, NothingLeftBehind
<1>2. QED BY <1>1, Inductive, PTL

\* The first attempt's logout is reported as one.
THEOREM LogoutReported == Spec => []LogoutIsNoError
<1>1. IInv => LogoutIsNoError
  BY DEF IInv
<1>2. QED BY <1>1, Inductive, PTL

\* A tunnel that was up is never followed by another gateway.
THEOREM NoGatewayAfterTunnel == Spec => StopsAfterTunnel
<1> DEFINE A == (pc \in InAttempt /\ attempt \in established /\ route # "cached")
                  => pc' \notin LoggingIn
<1>1. IInv /\ [Next]_vars => [A]_vars
  <2> SUFFICES ASSUME IInv, Next, pc \in InAttempt, attempt \in established, route # "cached"
               PROVE  pc' \notin LoggingIn
    BY DEF vars
  <2>0. TypeOK /\ (route \in {"auto", "selected"} => 1 <= gw /\ gw <= gateways)
    BY DEF IInv, RouteInv
  <2>1. CASE Login
    BY <2>1 DEF Login, Start, ChooseRoute, CachedLogin, PortalLogin, DirectLogin, UnlockKey,
                GatewayLogin, BeginAttempt
  <2>2. CASE VpnConnect
    BY <2>2 DEF VpnConnect, OpenPipe, CstpUp, OnConnected, Fail, Interrupted, Return
  <2>3. CASE AbortSession
    BY <2>3 DEF AbortSession
  <2>4. CASE RemovePidFile
    BY <2>0, <2>4, ConcludeMoves DEF RemovePidFile
  <2>5. CASE Classify
    <3>1. Classified # "before"
      BY DEF Classified
    <3>2. QED BY <2>0, <2>5, <3>1, ConcludeMoves DEF Classify
  <2>6. CASE Signal \/ SignalKills \/ Peer
    BY <2>6 DEF Signal, SignalKills, Peer
  <2>7. ASSUME NEW n \in Attempt, SignalTask(n) PROVE pc' \notin LoggingIn
    BY <2>7 DEF SignalTask, Listen, RequestDisconnect, WriteCancel
  <2>8. QED BY <2>1, <2>2, <2>3, <2>4, <2>5, <2>6, <2>7 DEF Next, AfterReturn
<1>2. QED BY <1>1, Inductive, PTL DEF Spec, StopsAfterTunnel

TunnelWasUp == pc = "tunnel" => attempt \in established

LEMMA TunnelKnown == Spec => []TunnelWasUp
<1>1. Init => TunnelWasUp
  BY DEF Init, TunnelWasUp
<1>2. IInv /\ TunnelWasUp /\ [Next]_vars => TunnelWasUp'
  <2> SUFFICES ASSUME IInv, TunnelWasUp, [Next]_vars, pc' = "tunnel"
               PROVE  attempt' \in established'
    BY DEF TunnelWasUp
  <2>0. TypeOK /\ (route \in {"auto", "selected"} => 1 <= gw /\ gw <= gateways)
    BY DEF IInv, RouteInv
  <2>1. CASE Login
    <3>1. CASE BeginAttempt \/ GatewayLogin
      BY <2>0, <3>1, ConcludeMoves DEF BeginAttempt, GatewayLogin
    <3>2. CASE ~(BeginAttempt \/ GatewayLogin)
      BY <2>1, <3>2 DEF Login, Start, ChooseRoute, FirstRoute, CachedLogin, PortalLogin,
                        DirectLogin, UnlockKey
    <3>3. QED BY <3>1, <3>2
  <2>2. CASE VpnConnect
    BY <2>2 DEF VpnConnect, OpenPipe, CstpUp, OnConnected, Fail, Interrupted, Return
  <2>3. CASE AfterReturn
    BY <2>0, <2>3, ConcludeMoves DEF AfterReturn, AbortSession, RemovePidFile, Classify
  <2>4. CASE Signal \/ SignalKills \/ Peer \/ UNCHANGED vars
    BY <2>4 DEF TunnelWasUp, Signal, SignalKills, Peer, vars
  <2>5. ASSUME NEW n \in Attempt, SignalTask(n) PROVE attempt' \in established'
    BY <2>5 DEF TunnelWasUp, SignalTask, Listen, RequestDisconnect, WriteCancel
  <2>6. QED BY <2>1, <2>2, <2>3, <2>4, <2>5 DEF Next
<1>3. QED BY <1>1, <1>2, Inductive, PTL DEF Spec

\* A logout once begun goes on to the end of the process: the task that was woken
\* keeps its signal until it has cancelled the tunnel, whichever attempt it was
\* spawned for, the cancellation stays in the pipe until vpn.connect() returns, and
\* what runs after it tries no other gateway (gateway.rs, the signal task and
\* connect_gateway).  LogoutEndsProcess adds that these steps are taken.
Leaving ==
  /\ route # "cached"
  /\ \/ /\ pc = "tunnel"
        /\ attempt \in cancelled \/ \E n \in Attempt : watcher[n] \in {"woken", "flagged"}
     \/ pc \in {"returned", "unlink", "classify"} /\ attempt \in established

LogoutGoesOn == [][Leaving => Leaving' \/ pc' = "ended"]_vars

\* Once a tunnel that was up is asked to end, gpclient tries no other gateway and
\* waits for nothing else before its logout.
THEOREM LogoutIsOnItsWay == Spec => LogoutGoesOn
<1> DEFINE A == Leaving => Leaving' \/ pc' = "ended"
<1>1. IInv /\ TunnelWasUp /\ [Next]_vars => [A]_vars
  <2> SUFFICES ASSUME IInv, TunnelWasUp, Next, Leaving PROVE Leaving' \/ pc' = "ended"
    BY DEF vars
  <2>0. /\ TypeOK /\ (route \in {"auto", "selected"} => 1 <= gw /\ gw <= gateways)
        /\ attempt \in established /\ route # "cached"
        /\ pc \in {"tunnel", "returned", "unlink", "classify"}
    BY DEF IInv, RouteInv, Leaving, TunnelWasUp
  <2>1. CASE Login
    BY <2>0, <2>1 DEF Login, Start, ChooseRoute, CachedLogin, PortalLogin, DirectLogin,
                      UnlockKey, GatewayLogin, BeginAttempt
  <2>2. CASE VpnConnect
    BY <2>0, <2>2 DEF VpnConnect, OpenPipe, CstpUp, OnConnected, Fail, Interrupted, Return,
                      Leaving
  <2>3. CASE AbortSession
    BY <2>0, <2>3 DEF AbortSession, Leaving
  <2>4. CASE RemovePidFile
    <3>1. CASE Conclude("lock")
      BY <2>0, <2>4, <3>1, ConcludeMoves DEF RemovePidFile
    <3>2. CASE ~Conclude("lock")
      BY <2>0, <2>4, <3>2 DEF RemovePidFile, Leaving
    <3>3. QED BY <3>1, <3>2
  <2>5. CASE Classify
    <3>1. Classified # "before"
      BY <2>0 DEF Classified
    <3>2. QED BY <2>0, <2>5, <3>1, ConcludeMoves DEF Classify
  <2>6. CASE Signal
    <3>1. UNCHANGED <<pc, route, attempt, established, cancelled>>
      BY <2>6 DEF Signal
    <3>2. \A n \in Attempt : watcher'[n] = watcher[n] \/ watcher'[n] = "woken"
      BY <2>0, <2>6 DEF Signal, TypeOK
    <3>3. QED BY <3>1, <3>2 DEF Leaving
  <2>7. CASE SignalKills
    BY <2>7 DEF SignalKills
  <2>8. ASSUME NEW n \in Attempt, SignalTask(n) PROVE Leaving'
    <3>1. UNCHANGED <<pc, route, attempt, established>>
      BY <2>8 DEF SignalTask, Listen, RequestDisconnect, WriteCancel
    <3>2. \A m \in Attempt : m # n => watcher'[m] = watcher[m]
      BY <2>0, <2>8 DEF SignalTask, Listen, RequestDisconnect, WriteCancel, TypeOK
    <3>3. CASE Listen(n)
      BY <2>0, <3>1, <3>2, <3>3 DEF Listen, Leaving
    <3>4. CASE RequestDisconnect(n)
      <4>1. watcher'[n] = "flagged" /\ cancelled' = cancelled
        BY <2>0, <3>4 DEF RequestDisconnect, TypeOK
      <4>2. QED BY <3>1, <4>1 DEF Leaving
    <3>5. CASE WriteCancel(n)
      <4>1. pc = "tunnel" => attempt \in cancelled'
        BY <3>5 DEF WriteCancel, PipeOpen
      <4>2. QED BY <2>0, <3>1, <4>1 DEF Leaving
    <3>6. QED BY <2>8, <3>3, <3>4, <3>5 DEF SignalTask
  <2>9. CASE Peer
    BY <2>9 DEF Peer, Leaving
  <2>10. QED
    BY <2>1, <2>2, <2>3, <2>4, <2>5, <2>6, <2>7, <2>8, <2>9 DEF Next, AfterReturn
<1>2. QED BY <1>1, Inductive, TunnelKnown, PTL DEF Spec, LogoutGoesOn
=============================================================================
