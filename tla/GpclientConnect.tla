-------------------------- MODULE GpclientConnect --------------------------
(***************************************************************************)
(* One `gpclient connect` process: portal login with its fallbacks, the    *)
(* loop over gateways, the signal task each attempt spawns, libopenconnect *)
(* behind vpn_connect, and the PID file it shares with a second gpclient.  *)
(*                                                                         *)
(* The main thread is in one place, pc.  Signal tasks are one-shot and are *)
(* never cancelled: that of a failed attempt still waits in the next one,  *)
(* and all of them write to the same global command pipe.                  *)
(* libopenconnect, the servers, the prompts and the second gpclient (its   *)
(* use of the PID file) are external.                                      *)
(***************************************************************************)
EXTENDS Naturals

CONSTANT MaxGateways   \* bound: gateways in a portal's configuration

ASSUME GatewaysAssumption == MaxGateways \in Nat \ {0}

Attempt == 1 .. MaxGateways + 1   \* connect_gateway calls that reach the VPN
Flags == {"asGateway", "auto", "cache", "cookieOnly", "stdin", "root"}

VARIABLES
  args,       \* the flags given on the command line, and whether it is root
  key,        \* the client key: "fine", "locked" (no passphrase), "missing"
  pc, route,  \* where the main thread is, and which caller it returns to
  gateways, gw,  \* the portal's gateways and the one being tried
  attempt,    \* the last attempt that reached the VPN, 0 before the first
  watcher,    \* [Attempt -> state of the attempt's signal task]
  requested,  \* attempts whose disconnect_requested is true
  established,   \* attempts whose tunnel_established is true
  cancelled,  \* attempts whose command pipe holds OC_CMD_CANCEL
  sessions,   \* attempts whose session task runs
  rc,         \* what vpn.connect() returned
  cookie,     \* the cookie cache: "none" or "stored"
  pidFile,    \* whose pid GP_CLIENT_LOCK_FILE holds: "none", "self", "peer"
  peer,       \* the other gpclient; with "peer" in the file and no peer
              \* connected the file is stale
  status      \* how the process ended, "none" while it runs

loginVars == <<key, route, gateways, gw, cookie>>
attemptVars == <<attempt, established, sessions, rc>>
signalVars == <<watcher, requested, cancelled>>
fileVars == <<pidFile, peer>>
vars == <<args, pc, loginVars, attemptVars, signalVars, fileVars, status>>

Alive == pc # "ended"
Move(from, to) == pc = from /\ pc' = to
End(how) == pc' = "ended" /\ status' = how
Ended == {"ok", "error", "lockError", "refused", "killed"}

Init ==
  /\ args \in SUBSET Flags /\ key \in {"fine", "locked", "missing"}
  /\ pc = "start" /\ route = "none" /\ status = "none"
  /\ gateways = 0 /\ gw = 0 /\ attempt = 0 /\ rc = "none"
  /\ watcher = [n \in Attempt |-> "none"]
  /\ requested = {} /\ established = {} /\ cancelled = {} /\ sessions = {}
  /\ cookie \in {"none", "stored"}
  /\ pidFile \in {"none", "peer"} /\ peer \in {"absent", "connected"}

-----------------------------------------------------------------------------
(* Logins.                                                                 *)

AnotherRuns == pidFile = "peer" /\ peer = "connected"

Start ==
  /\ pc = "start"
  /\ IF AnotherRuns THEN End("refused") ELSE pc' = "route" /\ UNCHANGED status
  /\ UNCHANGED <<args, loginVars, attemptVars, signalVars, fileVars>>

\* handle_impl picks a way in; what it needs from stdin may be unreadable.
FirstRoute ==
  IF "asGateway" \in args THEN "direct"
  ELSE IF "cache" \in args /\ cookie = "stored" /\ "stdin" \notin args THEN "cached"
  ELSE "portal"

ChooseRoute ==
  /\ pc = "route"
  /\ \/ pc' = FirstRoute /\ route' = FirstRoute /\ UNCHANGED status
     \/ "stdin" \in args /\ End("error") /\ UNCHANGED route
  /\ UNCHANGED <<args, key, gateways, gw, cookie, attemptVars, signalVars, fileVars>>

\* Every failure of the login drops the cookie, an unusable key included.
CachedLogin ==
  /\ \/ key = "fine" /\ Move("cached", "attempt") /\ UNCHANGED <<route, cookie>>
     \/ Move("cached", "portal") /\ route' = "portal" /\ cookie' = "none"
  /\ UNCHANGED <<args, key, gateways, gw, attemptVars, signalVars, fileVars, status>>

\* A PortalError makes handle_impl treat the server as a gateway.
PortalLogin ==
  /\ pc = "portal"
  /\ \/ /\ key = "fine"
        /\ gateways' \in 1 .. MaxGateways /\ gw' = 1
        /\ route' = IF "auto" \in args THEN "auto" ELSE "selected"
        /\ pc' = "login" /\ UNCHANGED status
     \/ key # "fine" /\ pc' = "identity" /\ UNCHANGED <<route, gateways, gw, status>>
     \/ /\ key = "fine" /\ pc' = "direct" /\ route' = "direct"
        /\ UNCHANGED <<gateways, gw, status>>
     \/ key = "fine" /\ End("error") /\ UNCHANGED <<route, gateways, gw>>
  /\ UNCHANGED <<args, key, cookie, attemptVars, signalVars, fileVars>>

DirectLogin ==
  /\ pc = "direct"
  /\ \/ key = "fine" /\ pc' = "attempt" /\ UNCHANGED status
     \/ key # "fine" /\ pc' = "identity" /\ UNCHANGED status
     \/ key = "fine" /\ End("error")
  /\ UNCHANGED <<args, loginVars, attemptVars, signalVars, fileVars>>

\* handle's loop: ask for the passphrase and begin again.  A certificate without
\* a private key is reported and handle returns Ok(()).
UnlockKey ==
  /\ pc = "identity"
  /\ \/ key = "missing" /\ End("ok") /\ UNCHANGED key
     \/ key = "locked" /\ key' \in {"fine", "locked"} /\ pc' = "route" /\ UNCHANGED status
     \/ key = "locked" /\ End("error") /\ UNCHANGED key
  /\ UNCHANGED <<args, route, gateways, gw, cookie, attemptVars, signalVars, fileVars>>

-----------------------------------------------------------------------------
(* How an attempt ends, by the caller it returns to.                       *)

\* Faulty variant: the stage of the failure is not looked at.
MayTryNextAlways(failure) == gw < gateways

MayTryNext(failure) == failure = "before" /\ gw < gateways

Conclude(result) ==
  \/ result = "ok" /\ End("ok") /\ UNCHANGED <<route, gw, rc>>
  \/ /\ result # "ok" /\ route = "cached"
     /\ pc' = "portal" /\ route' = "portal" /\ rc' = "none" /\ UNCHANGED <<gw, status>>
  \/ /\ result # "ok" /\ route = "auto" /\ MayTryNext(result)
     /\ pc' = "login" /\ gw' = gw + 1 /\ rc' = "none" /\ UNCHANGED <<route, status>>
  \/ /\ result # "ok" /\ route # "cached" /\ ~(route = "auto" /\ MayTryNext(result))
     /\ End(IF result = "lock" THEN "lockError" ELSE "error") /\ UNCHANGED <<route, gw, rc>>

\* connect_gateway_with_fallback: portal cookies first, then the gateway's own
\* prelogin.  In the auto loop the error loses its type.
GatewayLogin ==
  /\ pc = "login"
  /\ \/ /\ pc' = "attempt"
        /\ cookie' \in {cookie} \cup (IF "cache" \in args THEN {"stored"} ELSE {})
        /\ UNCHANGED <<route, gw, rc, status>>
     \/ Conclude("before") /\ UNCHANGED cookie
     \/ /\ route = "selected" /\ pc' = "direct" /\ route' = "direct"
        /\ UNCHANGED <<gw, rc, cookie, status>>
  /\ UNCHANGED <<args, key, gateways, attempt, established, sessions, signalVars, fileVars>>

\* connect_gateway up to the spawned signal task.
BeginAttempt ==
  /\ pc = "attempt"
  /\ \/ /\ "cookieOnly" \in args /\ Conclude("ok") /\ UNCHANGED <<attempt, watcher>>
     \/ /\ "cookieOnly" \notin args /\ Conclude("before") /\ UNCHANGED <<attempt, watcher>>
     \/ /\ "cookieOnly" \notin args
        /\ pc' = "opening" /\ attempt' = attempt + 1
        /\ watcher' = [watcher EXCEPT ![attempt + 1] = "spawned"]
        /\ UNCHANGED <<route, gw, rc, status>>
  /\ UNCHANGED <<args, key, gateways, cookie, established, sessions, requested, cancelled, fileVars>>

-----------------------------------------------------------------------------
(* vpn_connect, and what connect_gateway does when it returns.             *)

\* Faulty variant: the descriptor is lost when the tunnel comes up.
PipeForgotten == pc \in {"cstp", "mainloop"}

\* The attempt's command pipe has a reader.  Before, g_cmd_pipe_fd is that of an
\* earlier attempt, or 0; after, it is closed.
PipeOpen == pc \in {"cstp", "mainloop", "tunnel"}

OpenPipe ==
  /\ Move("opening", "cstp")
  /\ UNCHANGED <<args, loginVars, attemptVars, signalVars, fileVars, status>>

CstpUp ==
  /\ Move("cstp", "mainloop")
  /\ UNCHANGED <<args, loginVars, attemptVars, signalVars, fileVars, status>>

OnConnected ==
  /\ Move("mainloop", "tunnel")
  /\ established' = established \cup {attempt}
  /\ sessions' = sessions \cup {attempt}
  /\ pidFile' = IF "root" \in args THEN "self" ELSE pidFile
  /\ UNCHANGED <<args, loginVars, attempt, rc, signalVars, peer, status>>

Return(from, code) ==
  /\ Move(from, "returned") /\ rc' = code
  /\ UNCHANGED <<args, loginVars, attempt, established, sessions, signalVars, fileVars, status>>

\* A pipe that cannot be made, a connection refused or cancelled (both return
\* 1), a device that cannot be set up, a tunnel that ends by itself.
Fail == \E from \in {"opening", "cstp", "mainloop", "tunnel"} : Return(from, "failed")
Interrupted ==
  /\ attempt \in cancelled
  /\ \E from \in {"mainloop", "tunnel"} : Return(from, "interrupted")

\* Faulty variant: the session task is left running.
NoneAborted == sessions

AbortedSessions == sessions \ {attempt}

AbortSession ==
  /\ Move("returned", IF pidFile = "none" THEN "classify" ELSE "unlink")
  /\ sessions' = AbortedSessions
  /\ UNCHANGED <<args, loginVars, attempt, established, rc, signalVars, fileVars, status>>

\* The file may be gone since metadata() saw it.
RemovePidFile ==
  /\ pc = "unlink"
  /\ IF "root" \in args /\ pidFile # "none"
     THEN pc' = "classify" /\ pidFile' = "none" /\ UNCHANGED <<route, gw, rc, status>>
     ELSE Conclude("lock") /\ UNCHANGED pidFile
  /\ UNCHANGED <<args, key, gateways, cookie, attempt, established, sessions, signalVars, peer>>

\* Faulty variant: an interrupted exit is taken for a requested one.
ClassifiedByCode ==
  IF rc = "interrupted" THEN "ok"
  ELSE IF attempt \in established THEN "after" ELSE "before"

\* classify_openconnect_result; vpn_connect never returns 0.
Classified ==
  IF rc = "interrupted" /\ attempt \in requested THEN "ok"
  ELSE IF attempt \in established THEN "after" ELSE "before"

Classify ==
  /\ pc = "classify" /\ Conclude(Classified)
  /\ UNCHANGED <<args, key, gateways, cookie, attempt, established, sessions, signalVars, fileVars>>

-----------------------------------------------------------------------------
(* Signal tasks.  Any listener registered replaces SIGINT's default action *)
(* for the rest of the process's life; a signal wakes every task that      *)
(* waits, and none is kept for a task that begins to wait later.           *)

Listening == {n \in Attempt : watcher[n] \notin {"none", "spawned"}}

Listen(n) ==
  /\ Alive /\ watcher[n] = "spawned"
  /\ watcher' = [watcher EXCEPT ![n] = "waiting"]
  /\ UNCHANGED <<args, pc, loginVars, attemptVars, requested, cancelled, fileVars, status>>

\* SIGINT from the terminal, the app or `gpclient disconnect`.
Signal ==
  /\ Alive /\ \E n \in Attempt : watcher[n] = "waiting"
  /\ watcher' = [n \in Attempt |-> IF watcher[n] = "waiting" THEN "woken" ELSE watcher[n]]
  /\ UNCHANGED <<args, pc, loginVars, attemptVars, requested, cancelled, fileVars, status>>

SignalKills ==
  /\ Alive /\ Listening = {} /\ End("killed")
  /\ UNCHANGED <<args, loginVars, attemptVars, signalVars, fileVars>>

RequestDisconnect(n) ==
  /\ Alive /\ watcher[n] = "woken"
  /\ watcher' = [watcher EXCEPT ![n] = "flagged"]
  /\ requested' = requested \cup {n}
  /\ UNCHANGED <<args, pc, loginVars, attemptVars, cancelled, fileVars, status>>

\* Faulty variant: the tunnel is cancelled before the request is noted.
ReadyBeforeFlag(n) == watcher[n] \in {"woken", "flagged"}

ReadyToCancel(n) == watcher[n] = "flagged"

WriteCancel(n) ==
  /\ Alive /\ ReadyToCancel(n)
  /\ watcher' = [watcher EXCEPT ![n] = "done"]
  /\ cancelled' = IF PipeOpen THEN cancelled \cup {attempt} ELSE cancelled
  /\ UNCHANGED <<args, pc, loginVars, attemptVars, requested, fileVars, status>>

SignalTask(n) == Listen(n) \/ RequestDisconnect(n) \/ WriteCancel(n)

-----------------------------------------------------------------------------
(* The other gpclient.                                                     *)

PeerStarts ==
  /\ peer = "absent" /\ ~(pidFile = "self" /\ Alive)
  /\ peer' = "starting" /\ UNCHANGED pidFile

PeerConnects == peer = "starting" /\ peer' = "connected" /\ pidFile' = "peer"
PeerEnds == peer = "connected" /\ peer' = "gone" /\ pidFile' = "none"
PeerDies == peer \in {"starting", "connected"} /\ peer' = "gone" /\ UNCHANGED pidFile

Peer ==
  /\ PeerStarts \/ PeerConnects \/ PeerEnds \/ PeerDies
  /\ UNCHANGED <<args, pc, loginVars, attemptVars, signalVars, status>>

-----------------------------------------------------------------------------
Login == Start \/ ChooseRoute \/ CachedLogin \/ PortalLogin \/ DirectLogin
         \/ UnlockKey \/ GatewayLogin \/ BeginAttempt
VpnConnect == OpenPipe \/ CstpUp \/ OnConnected \/ Fail \/ Interrupted
AfterReturn == AbortSession \/ RemovePidFile \/ Classify

Next ==
  \/ Login \/ VpnConnect \/ AfterReturn
  \/ Signal \/ SignalKills
  \/ \E n \in Attempt : SignalTask(n)
  \/ Peer

Spec == Init /\ [][Next]_vars

\* Tasks run, a main loop that read the cancel command returns, and the code
\* after vpn.connect() runs on.  Nothing makes a login or a tunnel end.
FairSpec ==
  /\ Spec
  /\ \A n \in Attempt : WF_vars(SignalTask(n))
  /\ WF_vars(Interrupted)
  /\ WF_vars(AfterReturn)

-----------------------------------------------------------------------------
TypeOK ==
  /\ args \in SUBSET Flags /\ key \in {"fine", "locked", "missing"}
  /\ pc \in {"start", "route", "cached", "portal", "direct", "identity", "login", "attempt",
             "opening", "cstp", "mainloop", "tunnel", "returned", "unlink", "classify", "ended"}
  /\ route \in {"none", "cached", "portal", "auto", "selected", "direct"}
  /\ gateways \in 0 .. MaxGateways /\ gw \in 0 .. MaxGateways
  /\ attempt \in 0 .. MaxGateways + 1
  /\ watcher \in [Attempt -> {"none", "spawned", "waiting", "woken", "flagged", "done"}]
  /\ requested \subseteq Attempt /\ established \subseteq Attempt
  /\ cancelled \subseteq Attempt /\ sessions \subseteq Attempt
  /\ rc \in {"none", "failed", "interrupted"}
  /\ cookie \in {"none", "stored"}
  /\ pidFile \in {"none", "self", "peer"}
  /\ peer \in {"absent", "starting", "connected", "gone"}
  /\ status \in {"none"} \cup Ended

\* A process that reports success was asked for the cookie alone, or its last
\* attempt was asked to disconnect, or it found no private key before any attempt:
\* never because a tunnel or a connection merely ended (gateway.rs,
\* classify_openconnect_result; mod.rs, the Ok(()) of RequestIdentityError::NoKey).
OkOnlyOnRequest ==
  status = "ok" =>
    "cookieOnly" \in args \/ attempt \in requested \/ (key = "missing" /\ attempt = 0)

LoggingIn == {"start", "route", "cached", "portal", "direct", "identity", "login", "attempt"}
InAttempt == {"opening", "cstp", "mainloop", "tunnel", "returned", "unlink", "classify"}

\* Once the tunnel of an attempt was up, however it ended, no other gateway and
\* no other login is tried; only a cached cookie's attempt falls back to the
\* portal (mod.rs, is_before_tunnel in the loop over gateways).
StopsAfterTunnel ==
  [][(pc \in InAttempt /\ attempt \in established /\ route # "cached")
       => pc' \notin LoggingIn]_vars

\* Between attempts and after the last nothing of an attempt is left: no session
\* task that would extend the previous tunnel's session, and no PID file that
\* leads `gpclient disconnect` to a process without a tunnel (gateway.rs, the
\* clean-up after vpn.connect()).  The default action of SIGINT cleans nothing.
NothingLeftBehind ==
  pc \in LoggingIn \/ (pc = "ended" /\ status # "killed") =>
    sessions = {} /\ pidFile # "self"

\* The logout of a first attempt that libopenconnect reports as interrupted is
\* not an error: the task sets its flag before it cancels (changelog.md, 2.6.3).
\* Only a PID file that cannot be removed may still get in the way.
LogoutIsNoError ==
  status = "error" /\ rc = "interrupted" => attempt > 1

-----------------------------------------------------------------------------
\* The inductive invariant behind the safety properties.  Every attempt used up
\* one of the places its route has: one for a cached cookie, one per gateway.
Places ==
  CASE route = "cached" -> 0 [] route \in {"auto", "selected"} -> gw [] OTHER -> 1

RouteInv ==
  /\ (key # "fine" \/ pc \in {"start", "route", "cached", "identity"}) => attempt = 0
  /\ pc \in {"login", "attempt"} \cup InAttempt => key = "fine"
  /\ pc = "cached" => route = "cached"
  /\ pc = "portal" => route = "portal" /\ attempt <= 1
  /\ pc = "direct" => route = "direct" /\ attempt <= 1
  /\ pc = "login" => route \in {"auto", "selected"}
  /\ pc \in {"attempt"} \cup InAttempt => route \in {"cached", "auto", "selected", "direct"}
  /\ route \in {"auto", "selected"} => 1 <= gw /\ gw <= gateways
  /\ route = "selected" => gw = 1
  /\ pc \in {"login", "attempt"} => attempt <= Places
  /\ pc \in InAttempt => 1 <= attempt /\ attempt <= Places + 1

\* What an attempt leaves to be cleaned up, and how long.
CleanInv ==
  /\ (status = "none") = (pc # "ended")
  /\ status # "killed" => sessions \subseteq {attempt}
  /\ status # "killed" /\ pc \notin {"tunnel", "returned"} => sessions = {}
  /\ pidFile = "self" => "root" \in args
                         /\ (status = "killed" \/ pc \in {"tunnel", "returned", "unlink"})

\* Only tasks of attempts made so far exist, and whoever cancels said so first.
SignalInv ==
  /\ \A n \in Attempt : n > attempt => watcher[n] = "none"
  /\ \A n \in Attempt : watcher[n] \in {"flagged", "done"} => n \in requested
  /\ 1 \in cancelled => 1 \in requested
  /\ rc # "none" => pc \in {"returned", "unlink", "classify", "ended"}
  /\ rc = "interrupted" => attempt \in cancelled

IInv == TypeOK /\ RouteInv /\ CleanInv /\ SignalInv /\ OkOnlyOnRequest /\ LogoutIsNoError

-----------------------------------------------------------------------------
\* A signal that reaches a tunnel ends the process, unless the tunnel belongs to
\* a cached cookie and drops at that moment.
LogoutEndsProcess ==
  (pc = "tunnel" /\ route # "cached" /\ \E n \in Attempt : watcher[n] = "woken")
    ~> pc = "ended"

\* Refuted: once a signal task has said it is disconnecting no further gateway
\* is tried (gateway.rs, the signal task of connect_gateway).
NoAttemptAfterSignal == [][attempt' > attempt => requested = {}]_vars
=============================================================================
