--------------------------- MODULE SessionExtension ---------------------------
(***************************************************************************)
(* The session runtime of gpclient: what it makes of the times the gateway *)
(* announces, the task that sleeps until a warning is due and asks the     *)
(* gateway to extend the session, and connect_gateway, which spawns the    *)
(* task when the tunnel is up and aborts it when vpn.connect() is over.    *)
(*                                                                         *)
(* Time is counted in units, from the login on.  Seconds are u32 with      *)
(* saturating arithmetic; an optional u32 that positive_i64_to_u32 makes   *)
(* is never 0, which stands for None here.                                 *)
(***************************************************************************)
EXTENDS Integers

CONSTANTS
  MaxU32,      \* the largest u32
  MaxTime,     \* bound: of the wall clock
  Latency,     \* what a request, or bringing up the tunnel, takes at most
  MaxNaps,     \* bound: how often the machine sleeps
  Lifetimes,   \* lifetime_secs of the gateway
  Expiries,    \* user_expires and auth_expiration of the gateway
  Priors       \* lifetime_warning_prior of the gateway

ASSUME SessionAssumption ==
  /\ {MaxU32, MaxTime, Latency, MaxNaps} \subseteq Nat
  /\ Lifetimes \cup Expiries \cup Priors \subseteq Int

None == 0
Never == -1
U32 == 0 .. MaxU32
Raw == [lifetime : Lifetimes, userExpires : Expiries, authExpiration : Expiries,
        prior : Priors, message : {"", "expiring"}]

VARIABLES
  now,       \* unix_timestamp()
  raw,       \* VpnSessionInfoRaw, what the gateway announces
  allowed,   \* allow_extend_session, of the portal
  tunnel,    \* "connecting", "up", "over" (vpn.connect returned), "closed"
  task,      \* the session task: "none", "sleep", "login", "message", "done", or
             \* "adrift": it is gone, the login it sent still on its way
  abort,     \* JoinHandle::abort: "no", "called", or "noted" by the runtime
  info,      \* its session_info
  left,      \* what is left of its sleep, or of the time its request may take
  asked,     \* when it last asked for an extension
  deadline,  \* when the gateway ends the session
  naps       \* how often the machine slept

vars == <<now, raw, allowed, tunnel, task, abort, info, left, asked, deadline, naps>>
givenVars == <<raw, allowed>>

-----------------------------------------------------------------------------
(* Arithmetic and schedules                                                *)

PositiveU32(v) == IF v \in 1 .. MaxU32 THEN v ELSE None
OrElse(a, b) == IF a # None THEN a ELSE b
SatSub(a, b) == IF a > b THEN a - b ELSE 0
SatAdd(a, b) == IF a + b > MaxU32 THEN MaxU32 ELSE a + b

\* A warning needs its time and its text.
SessionInfo(r) ==
  [lifetime |-> PositiveU32(r.lifetime),
   expires |-> OrElse(PositiveU32(r.userExpires), PositiveU32(r.authExpiration)),
   prior |-> IF r.message = "" THEN None ELSE PositiveU32(r.prior)]

\* build_session_warning_schedule yields a schedule, and after what delay.
HasSchedule(s) == s.prior # None /\ OrElse(s.expires, s.lifetime) # None

\* Faulty variant: the prior time is forgotten.
DelayToExpiry(s, t) ==
  IF s.expires # None THEN SatSub(s.expires, t) ELSE s.lifetime

Delay(s, t) ==
  IF s.expires # None THEN SatSub(SatSub(s.expires, s.prior), t)
                      ELSE SatSub(s.lifetime, s.prior)

\* Faulty variant: the old expiry is kept.
NotRescheduled(s, t) == s

Rescheduled(s, t) == [s EXCEPT !.expires = SatAdd(t, s.lifetime)]

\* The gateway means what it announces; without an announcement the session
\* has no end that matters.
Announced(r) ==
  OrElse(OrElse(SessionInfo(r).expires, SessionInfo(r).lifetime), MaxTime + 1)

-----------------------------------------------------------------------------
Init ==
  /\ now = 0 /\ naps = 0
  /\ raw \in Raw /\ allowed \in {"yes", "no"}
  /\ tunnel = "connecting"
  /\ task = "none" /\ abort = "no" /\ info = SessionInfo(raw) /\ left = Latency /\ asked = Never
  /\ deadline = Announced(raw)

\* The task sleeps until its next warning, or has none to give.
Sleep(s) ==
  /\ task' = IF HasSchedule(s) THEN "sleep" ELSE "done"
  /\ info' = s
  /\ left' = Delay(s, now)

\* The callback of vpn.connect; the context it takes makes it spawn once.
OnConnected ==
  /\ tunnel = "connecting" /\ tunnel' = "up"
  /\ Sleep(info)
  /\ UNCHANGED <<now, givenVars, abort, asked, deadline, naps>>

\* A task that is to be aborted goes on to the next await of the poll under way
\* (a request, or a sleep that is not over) and is not polled again.
Polled(suspends) ==
  /\ abort # "noted"
  /\ abort' = IF suspends /\ abort = "called" THEN "noted" ELSE abort

\* The sleep is over: the warning is printed, and the first of the two
\* requests of extend_session sent.
Wake ==
  /\ task = "sleep" /\ left = 0 /\ Polled(TRUE)
  /\ task' = IF allowed = "yes" THEN "login" ELSE "done"
  /\ asked' = IF allowed = "yes" THEN now ELSE asked
  /\ left' = Latency
  /\ UNCHANGED <<now, givenVars, tunnel, info, deadline, naps>>

\* The gateway accepts the login with extend-lifetime: the session is longer
\* from now on.  Then agentmessage.esp is told.
LoginOk ==
  /\ task = "login" /\ task' = "message" /\ left' = Latency /\ Polled(TRUE)
  /\ deadline' = IF info.lifetime = None THEN deadline ELSE now + info.lifetime
  /\ UNCHANGED <<now, givenVars, tunnel, info, asked, naps>>

MessageOk ==
  /\ task = "message"
  /\ IF info.lifetime = None THEN task' = "done" /\ UNCHANGED <<info, left>>
     ELSE Sleep(Rescheduled(info, now))
  /\ Polled(left' > 0)
  /\ UNCHANGED <<now, givenVars, tunnel, asked, deadline, naps>>

\* Any error of either request, an MFA challenge or a status that is not
\* "success" ends the task for good.
ExtendFails ==
  /\ task \in {"login", "message"} /\ task' = "done" /\ Polled(TRUE)
  /\ UNCHANGED <<now, givenVars, tunnel, info, left, asked, deadline, naps>>

\* The session expires, or the tunnel ends for another reason.
TunnelEnds ==
  /\ tunnel \in {"connecting", "up"} /\ tunnel' = "over"
  /\ UNCHANGED <<now, givenVars, task, abort, info, left, asked, deadline, naps>>

\* Faulty variant: the task is left alone.
Kept == "no"

Aborted == IF task = "none" THEN "no" ELSE "called"

\* abort() only marks the task, whatever it is at; connect_gateway does not wait.
AbortTask ==
  /\ tunnel = "over" /\ tunnel' = "closed"
  /\ abort' = Aborted
  /\ UNCHANGED <<now, givenVars, task, info, left, asked, deadline, naps>>

\* The runtime drops the task at its await.  A login that was sent is not recalled.
DropTask ==
  /\ abort # "no" /\ task \in {"sleep", "login", "message"}
  /\ task' = IF task = "login" THEN "adrift" ELSE "done"
  /\ abort' = "noted"
  /\ UNCHANGED <<now, givenVars, tunnel, info, left, asked, deadline, naps>>

\* The gateway still accepts that login, or never sees it.
LateLogin ==
  /\ task = "adrift" /\ task' = "done"
  /\ deadline' \in {deadline, IF info.lifetime = None THEN deadline ELSE now + info.lifetime}
  /\ UNCHANGED <<now, givenVars, tunnel, abort, info, left, asked, naps>>

\* Nothing that is due waits for time to pass.
Waiting == tunnel = "connecting" \/ task \in {"sleep", "login", "message", "adrift"}

Tick ==
  /\ now < MaxTime /\ now' = now + 1
  /\ tunnel = "over" => task = "none"
  /\ Waiting => left > 0
  /\ left' = IF Waiting THEN left - 1 ELSE left
  /\ UNCHANGED <<givenVars, tunnel, task, abort, info, asked, deadline, naps>>

\* The machine is suspended: tokio's clock stands still, the others do not.
Nap ==
  /\ naps < MaxNaps /\ naps' = naps + 1
  /\ now < MaxTime /\ now' = now + 1
  /\ UNCHANGED <<givenVars, tunnel, task, abort, info, left, asked, deadline>>

Next ==
  \/ OnConnected \/ Wake \/ LoginOk \/ MessageOk \/ ExtendFails
  \/ TunnelEnds \/ AbortTask \/ DropTask \/ LateLogin \/ Tick \/ Nap

Spec == Init /\ [][Next]_vars

-----------------------------------------------------------------------------
\* The types of the variables; every time of the task is a u32.
TypeOK ==
  /\ now \in 0 .. MaxTime /\ naps \in 0 .. MaxNaps
  /\ raw \in Raw /\ allowed \in {"yes", "no"}
  /\ tunnel \in {"connecting", "up", "over", "closed"}
  /\ task \in {"none", "sleep", "login", "message", "done", "adrift"}
  /\ abort \in {"no", "called", "noted"}
  /\ info \in [lifetime : U32, expires : U32, prior : U32]
  /\ left \in Nat /\ asked \in {Never} \cup 0 .. MaxTime
  /\ deadline \in Nat

\* The warning's time is enough for two requests and fits into the session.
Reasonable(s) ==
  /\ s.prior >= 2 * Latency
  /\ s.lifetime # None => s.lifetime >= s.prior
  /\ s.expires # None => s.expires >= s.prior

\* While the machine does not sleep the task is ahead of the gateway: its
\* warning comes by the announced time before the session's end, and an
\* extension reaches a session that still lives, although the task counts its
\* new lifetime from the second answer and the gateway from the first request.
AheadOfDeadline ==
  (naps = 0 /\ tunnel = "up" /\ Reasonable(info)) =>
    /\ task = "sleep" => now <= deadline - info.prior + Latency
    /\ task = "login" => now <= deadline

\* The gateway is not asked again before the lifetime that it granted, less
\* the warning's time, is over; sleeping only delays.  (Nothing keeps the task
\* from asking without a pause when the warning's time is the longer one.)
ExtensionsSpaced ==
  [][(asked # Never /\ asked' # asked) => asked' - asked >= info.lifetime - info.prior]_vars

\* connect_gateway leaves nothing behind that keeps a session alive.  abort() is
\* not waited for and recalls no login, so one more extension may be granted; it
\* is the last one: only the poll that abort() interrupted may still ask, once,
\* and what is granted afterwards was asked by then (gateway.rs, task.abort()).
NoExtensionAfterwards ==
  [][tunnel = "closed" =>
       /\ asked' # asked => abort = "called"
       /\ asked' # asked \/ deadline' # deadline => abort' = "noted"
       /\ deadline' # deadline => task' \in {"message", "done"}
       /\ abort = "noted" => abort' = "noted"]_vars
=============================================================================
