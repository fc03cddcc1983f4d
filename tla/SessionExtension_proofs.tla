----------------------- MODULE SessionExtension_proofs -----------------------
(***************************************************************************)
(* Proofs about SessionExtension for any times a gateway may announce, any *)
(* width of an integer and any number of suspensions.                      *)
(***************************************************************************)
EXTENDS SessionExtension, TLAPS

LEMMA ConstantTypes ==
  /\ MaxU32 \in Nat /\ MaxTime \in Nat /\ Latency \in Nat /\ MaxNaps \in Nat
  /\ Lifetimes \subseteq Int /\ Expiries \subseteq Int /\ Priors \subseteq Int
  BY SessionAssumption DEF SessionAssumption

USE ConstantTypes
USE DEF None, Never, U32, givenVars, Polled

Info == [lifetime : U32, expires : U32, prior : U32]

\* What the gateway announces becomes u32, in whatever range it is.
LEMMA SessionInfoType == ASSUME NEW r \in Raw PROVE SessionInfo(r) \in Info
<1>1. \A v : PositiveU32(v) \in U32
  BY DEF PositiveU32
<1>2. \A a, b \in U32 : OrElse(a, b) \in U32
  BY DEF OrElse
<1>3. 0 \in U32
  OBVIOUS
<1>4. QED BY ONLY <1>1, <1>2, <1>3 DEF SessionInfo, Info, None

LEMMA DelayType ==
  ASSUME NEW s \in Info, NEW t \in Nat
  PROVE  Delay(s, t) \in Nat
  BY DEF Info, Delay, SatSub

LEMMA RescheduledType ==
  ASSUME NEW s \in Info, NEW t \in Nat
  PROVE  /\ Rescheduled(s, t) \in Info
         /\ Rescheduled(s, t).lifetime = s.lifetime
         /\ Rescheduled(s, t).prior = s.prior
         /\ Rescheduled(s, t).expires = SatAdd(t, s.lifetime)
  BY DEF Info, Rescheduled, SatAdd

LEMMA AnnouncedType == ASSUME NEW r \in Raw PROVE Announced(r) \in Nat
<1>1. SessionInfo(r).expires \in U32 /\ SessionInfo(r).lifetime \in U32
  BY SessionInfoType DEF Info
<1>2. QED BY <1>1 DEF Announced, OrElse

-----------------------------------------------------------------------------
\* The variables keep their types: no time of the task leaves u32, whatever
\* the gateway announces.
LEMMA InitType == Init => TypeOK
<1> SUFFICES ASSUME Init PROVE TypeOK
  OBVIOUS
<1>1. info \in Info /\ deadline \in Nat
  BY SessionInfoType, AnnouncedType DEF Init
<1>2. QED BY <1>1 DEF Init, TypeOK, Info

LEMMA TypeStep == TypeOK /\ [Next]_vars => TypeOK'
<1> SUFFICES ASSUME TypeOK, [Next]_vars PROVE TypeOK'
  OBVIOUS
<1>0. info \in Info /\ now \in Nat
  BY DEF TypeOK, Info
<1>1. ASSUME NEW s \in Info, Sleep(s) PROVE info' \in Info /\ left' \in Nat /\ task' \in {"sleep", "done"}
  BY <1>0, <1>1, DelayType DEF Sleep
<1>2. CASE OnConnected
  BY <1>0, <1>1, <1>2 DEF TypeOK, OnConnected, Info
<1>3. CASE Wake
  BY <1>3 DEF TypeOK, Wake
<1>4. CASE LoginOk
  BY <1>4 DEF TypeOK, LoginOk
<1>5. CASE MessageOk
  <2>1. CASE info.lifetime = None
    BY <1>5, <2>1 DEF TypeOK, MessageOk
  <2>2. CASE info.lifetime # None
    BY <1>0, <1>1, <1>5, <2>2, RescheduledType DEF TypeOK, MessageOk, Info
  <2>3. QED BY <2>1, <2>2
<1>6. CASE ExtendFails \/ TunnelEnds
  BY <1>6 DEF TypeOK, ExtendFails, TunnelEnds
<1>7. CASE AbortTask \/ DropTask
  BY <1>7 DEF TypeOK, AbortTask, Aborted, DropTask
<1>12. CASE LateLogin
  BY <1>0, <1>12 DEF TypeOK, LateLogin, Info
<1>8. CASE Tick
  BY <1>8 DEF TypeOK, Tick, Waiting
<1>9. CASE Nap
  BY <1>9 DEF TypeOK, Nap
<1>10. CASE UNCHANGED vars
  BY <1>10 DEF TypeOK, vars
<1>11. QED BY <1>2, <1>3, <1>4, <1>5, <1>6, <1>7, <1>8, <1>9, <1>10, <1>12 DEF Next

\* Every variable keeps its type; what the task knows of the session are u32s.
THEOREM TypeCorrect == Spec => []TypeOK
<1>1. QED BY InitType, TypeStep, PTL DEF Spec

-----------------------------------------------------------------------------
(* The task and the tunnel                                                 *)

\* There is no task before the tunnel is up, every task is aborted when
\* connect_gateway is through, and only a login of a dropped task is adrift.
TaskInv ==
  /\ tunnel = "connecting" => task = "none" /\ asked = Never
  /\ abort # "no" => tunnel = "closed"
  /\ tunnel = "closed" /\ abort = "no" => task = "none"
  /\ task = "adrift" => abort = "noted"

LEMMA TaskStep == TypeOK /\ TaskInv /\ [Next]_vars => TaskInv'
<1> SUFFICES ASSUME TypeOK, TaskInv, [Next]_vars PROVE TaskInv'
  OBVIOUS
<1>1. CASE OnConnected
  BY <1>1 DEF TaskInv, OnConnected, Sleep
<1>2. CASE Wake \/ LoginOk \/ ExtendFails
  BY <1>2 DEF TaskInv, Wake, LoginOk, ExtendFails
<1>3. CASE MessageOk
  BY <1>3 DEF TypeOK, TaskInv, MessageOk, Sleep
<1>4. CASE TunnelEnds
  BY <1>4 DEF TaskInv, TunnelEnds
<1>5. CASE AbortTask
  BY <1>5 DEF TypeOK, TaskInv, AbortTask, Aborted
<1>8. CASE DropTask \/ LateLogin
  BY <1>8 DEF TaskInv, DropTask, LateLogin
<1>6. CASE Tick \/ Nap \/ UNCHANGED vars
  BY <1>6 DEF TaskInv, Tick, Nap, vars
<1>7. QED BY <1>1, <1>2, <1>3, <1>4, <1>5, <1>6, <1>8 DEF Next

LEMMA TaskAlways == Spec => []TaskInv
<1>1. Init => TaskInv
  BY DEF Init, TaskInv
<1>2. QED BY <1>1, TypeCorrect, TaskStep, PTL DEF Spec

\* After the end of connect_gateway one more request is sent at most, by the poll
\* that abort() interrupted, and one more extension granted: that of the login
\* under way when the task is dropped.  None is asked for once the abort is noted.
THEOREM NothingAfterwards == Spec => NoExtensionAfterwards
<1> DEFINE A == tunnel = "closed" =>
                  /\ asked' # asked => abort = "called"
                  /\ asked' # asked \/ deadline' # deadline => abort' = "noted"
                  /\ deadline' # deadline => task' \in {"message", "done"}
                  /\ abort = "noted" => abort' = "noted"
<1>1. TypeOK /\ TaskInv /\ [Next]_vars => [A]_vars
  <2> SUFFICES ASSUME TypeOK, TaskInv, Next PROVE A
    BY DEF vars
  <2>1. CASE Wake \/ LoginOk
    BY <2>1 DEF TypeOK, TaskInv, Wake, LoginOk
  <2>2. CASE MessageOk \/ ExtendFails
    BY <2>2 DEF MessageOk, ExtendFails
  <2>3. CASE DropTask \/ LateLogin
    BY <2>3 DEF TaskInv, DropTask, LateLogin
  <2>4. CASE OnConnected \/ TunnelEnds \/ AbortTask \/ Tick \/ Nap
    BY <2>4 DEF OnConnected, TunnelEnds, AbortTask, Tick, Nap
  <2>5. QED BY <2>1, <2>2, <2>3, <2>4 DEF Next
<1>2. QED BY <1>1, TypeCorrect, TaskAlways, PTL DEF Spec, NoExtensionAfterwards

-----------------------------------------------------------------------------
(* The pace of the requests                                                *)

\* The clock, and a lifetime more, is still a u32: until 2106 for seconds.
ClockFits == \A l \in Lifetimes : MaxTime + l <= MaxU32

\* Once it has asked, the task sleeps until the lifetime that it was granted,
\* less the warning's time, is over.
PaceInv ==
  /\ asked <= now
  /\ info.lifetime = None \/ info.lifetime \in Lifetimes
  /\ task = "sleep" /\ asked # Never =>
       now + left >= asked + info.lifetime - info.prior

LEMMA PaceInit == Init => PaceInv
<1> SUFFICES ASSUME Init PROVE PaceInv
  OBVIOUS
<1>1. raw.lifetime \in Lifetimes
  BY DEF Init, Raw
<1>2. info.lifetime = None \/ info.lifetime = raw.lifetime
  BY DEF Init, SessionInfo, PositiveU32
<1>3. QED BY <1>1, <1>2 DEF Init, PaceInv

\* A schedule made at t does not warn before t plus the lifetime, less the
\* warning's time.
LEMMA NextWarning ==
  ASSUME ClockFits, NEW s \in Info, NEW t \in 0 .. MaxTime,
         s.lifetime # None, s.lifetime \in Lifetimes
  PROVE  t + Delay(Rescheduled(s, t), t) >= t + s.lifetime - s.prior
<1>1. SatAdd(t, s.lifetime) = t + s.lifetime
  BY DEF ClockFits, Info, SatAdd
<1>2. Rescheduled(s, t).expires = t + s.lifetime
  BY <1>1, RescheduledType DEF Info
<1>3. \A r \in Info : r.expires = t + s.lifetime /\ r.prior = s.prior
         => t + Delay(r, t) >= t + s.lifetime - s.prior
  BY DEF Info, Delay, SatSub
<1>4. Rescheduled(s, t) \in Info /\ Rescheduled(s, t).prior = s.prior
  BY RescheduledType
<1>5. QED BY <1>2, <1>3, <1>4

LEMMA PaceStep == ClockFits /\ TypeOK /\ TaskInv /\ PaceInv /\ [Next]_vars => PaceInv'
<1> SUFFICES ASSUME ClockFits, TypeOK, TaskInv, PaceInv, [Next]_vars PROVE PaceInv'
  OBVIOUS
<1>0. info \in Info /\ now \in 0 .. MaxTime
  BY DEF TypeOK, Info
<1>1. CASE OnConnected
  BY <1>1 DEF TypeOK, TaskInv, PaceInv, OnConnected, Sleep
<1>2. CASE Wake
  BY <1>2 DEF TypeOK, PaceInv, Wake
<1>3. CASE MessageOk
  <2>1. CASE info.lifetime = None
    BY <1>3, <2>1 DEF TypeOK, PaceInv, MessageOk
  <2>2. CASE info.lifetime # None
    <3>1. left' >= info.lifetime - info.prior
      <4>1. now + Delay(Rescheduled(info, now), now) >= now + info.lifetime - info.prior
        BY <1>0, <2>2, NextWarning DEF PaceInv
      <4>2. left' = Delay(Rescheduled(info, now), now)
        BY <1>3, <2>2 DEF MessageOk, Sleep
      <4>3. left' \in Nat
        BY <1>0, <4>2, RescheduledType, DelayType
      <4>4. QED BY <1>0, <4>1, <4>2, <4>3 DEF Info
    <3>2. info'.lifetime = info.lifetime /\ info'.prior = info.prior
      BY <1>0, <1>3, <2>2, RescheduledType DEF MessageOk, Sleep
    <3>3. left' \in Nat
      BY <1>0, <1>3, <2>2, RescheduledType, DelayType DEF MessageOk, Sleep
    <3>4. QED BY <1>0, <1>3, <3>1, <3>2, <3>3 DEF TypeOK, PaceInv, MessageOk, Info
  <2>3. QED BY <2>1, <2>2
<1>4. CASE LoginOk \/ ExtendFails \/ TunnelEnds
  BY <1>4 DEF TypeOK, PaceInv, LoginOk, ExtendFails, TunnelEnds
<1>5. CASE AbortTask
  BY <1>5 DEF TypeOK, PaceInv, AbortTask, Aborted
<1>10. CASE DropTask \/ LateLogin
  BY <1>10 DEF TypeOK, PaceInv, DropTask, LateLogin
<1>6. CASE Tick
  BY <1>6 DEF TypeOK, PaceInv, Tick, Waiting
<1>7. CASE Nap
  BY <1>7 DEF TypeOK, PaceInv, Nap
<1>8. CASE UNCHANGED vars
  BY <1>8 DEF PaceInv, vars
<1>9. QED BY <1>1, <1>2, <1>3, <1>4, <1>5, <1>6, <1>7, <1>8, <1>10 DEF Next

\* As long as the clock fits into a u32 the gateway is asked no earlier than
\* the lifetime it granted, less the warning's time, after it was asked last.
THEOREM Spaced == ASSUME ClockFits PROVE Spec => ExtensionsSpaced
<1>1. TypeOK /\ PaceInv /\ [Next]_vars =>
        ((asked # Never /\ asked' # asked) => asked' - asked >= info.lifetime - info.prior)
  BY DEF TypeOK, PaceInv, Next, OnConnected, Wake, LoginOk, MessageOk, ExtendFails,
         TunnelEnds, AbortTask, DropTask, LateLogin, Tick, Nap, vars
<1>2. PaceInv /\ TypeOK /\ TaskInv /\ [Next]_vars => PaceInv'
  BY PaceStep
<1>3. QED BY <1>1, <1>2, PaceInit, TypeCorrect, TaskAlways, PTL DEF Spec, ExtensionsSpaced

-----------------------------------------------------------------------------
(* The deadline                                                            *)

\* Without suspension the clock and what is left of the wait name a moment
\* that is early enough.
DeadlineInv ==
  naps = 0 =>
    /\ tunnel = "connecting" =>
         now + left <= Latency /\ info = SessionInfo(raw) /\ deadline = Announced(raw)
    /\ tunnel = "up" /\ task = "sleep" /\ Reasonable(info) =>
         now + left <= deadline - info.prior + Latency
    /\ tunnel = "up" /\ task = "login" /\ Reasonable(info) => now + left <= deadline
    /\ tunnel = "up" /\ task = "message" /\ info.lifetime # None =>
         now + left <= deadline - info.lifetime + Latency

\* The first warning, when bringing up the tunnel took t.
LEMMA FirstWarning ==
  ASSUME NEW s \in Info, NEW t \in 0 .. Latency, HasSchedule(s), Reasonable(s)
  PROVE  t + Delay(s, t) <= OrElse(s.expires, s.lifetime) - s.prior + Latency
<1>1. CASE s.expires # None
  BY <1>1 DEF Info, HasSchedule, Reasonable, OrElse, Delay, SatSub
<1>2. CASE s.expires = None
  BY <1>2 DEF Info, HasSchedule, Reasonable, OrElse, Delay, SatSub
<1>3. QED BY <1>1, <1>2

\* A later one: saturating u32 can only make it earlier.
LEMMA LaterWarning ==
  ASSUME NEW s \in Info, NEW t \in Nat, s.lifetime # None, Reasonable(Rescheduled(s, t))
  PROVE  t + Delay(Rescheduled(s, t), t) <= t + s.lifetime - s.prior
<1>1. SatAdd(t, s.lifetime) <= t + s.lifetime /\ SatAdd(t, s.lifetime) \in Nat
  BY DEF Info, SatAdd
<1>2. \A r \in Info :
        /\ r.expires <= t + s.lifetime /\ r.prior = s.prior
        /\ r.lifetime = s.lifetime /\ Reasonable(r)
        => t + Delay(r, t) <= t + s.lifetime - s.prior
  BY DEF Info, Delay, SatSub, Reasonable
<1>3. /\ Rescheduled(s, t) \in Info /\ Rescheduled(s, t).prior = s.prior
      /\ Rescheduled(s, t).lifetime = s.lifetime
      /\ Rescheduled(s, t).expires = SatAdd(t, s.lifetime)
  BY RescheduledType
<1>4. QED BY <1>1, <1>2, <1>3

LEMMA DeadlineInit == Init => DeadlineInv
  BY DEF Init, DeadlineInv

LEMMA DeadlineStep ==
  TypeOK /\ TypeOK' /\ TaskInv /\ DeadlineInv /\ [Next]_vars => DeadlineInv'
<1> SUFFICES ASSUME TypeOK, TypeOK', TaskInv, DeadlineInv, [Next]_vars, naps' = 0
             PROVE  DeadlineInv'
  BY DEF DeadlineInv
<1>0. /\ info \in Info /\ now \in Nat /\ naps = 0
      /\ left \in Nat /\ left' \in Nat /\ deadline \in Nat /\ info' \in Info
  BY DEF TypeOK, Info, Next, OnConnected, Wake, LoginOk, MessageOk, ExtendFails,
         TunnelEnds, AbortTask, DropTask, LateLogin, Tick, Nap, vars
<1>1. CASE OnConnected
  <2>1. now \in 0 .. Latency /\ deadline = Announced(raw) /\ info = SessionInfo(raw)
    BY <1>0, <1>1 DEF DeadlineInv, OnConnected
  <2>2. CASE HasSchedule(info) /\ Reasonable(info)
    <3>1. Announced(raw) = OrElse(info.expires, info.lifetime)
      BY <2>1, <2>2 DEF Announced, HasSchedule, OrElse
    <3>2. now + Delay(info, now) <= deadline - info.prior + Latency
      BY <1>0, <2>1, <2>2, <3>1, FirstWarning
    <3>3. QED BY <1>0, <1>1, <2>2, <3>2 DEF DeadlineInv, OnConnected, Sleep
  <2>3. CASE ~HasSchedule(info)
    BY <1>1, <2>3 DEF DeadlineInv, OnConnected, Sleep
  <2>4. CASE ~Reasonable(info)
    BY <1>1, <2>4 DEF DeadlineInv, OnConnected, Sleep
  <2>5. QED BY <2>2, <2>3, <2>4
<1>2. CASE Wake
  BY <1>0, <1>2 DEF TaskInv, DeadlineInv, Wake, Reasonable, Info
<1>3. CASE LoginOk
  BY <1>0, <1>3 DEF TaskInv, DeadlineInv, LoginOk, Info
<1>4. CASE MessageOk
  <2>1. CASE info.lifetime = None
    BY <1>4, <2>1 DEF TaskInv, DeadlineInv, MessageOk
  <2>2. CASE info.lifetime # None /\ tunnel = "up" /\ Reasonable(info')
    <3>1. now + left <= deadline - info.lifetime + Latency
      BY <1>0, <1>4, <2>2 DEF DeadlineInv, MessageOk
    <3>2. info' = Rescheduled(info, now) /\ left' = Delay(info', now)
      BY <1>4, <2>2 DEF MessageOk, Sleep
    <3>3. now + left' <= now + info.lifetime - info.prior /\ info'.prior = info.prior
      BY <1>0, <2>2, <3>2, LaterWarning, RescheduledType
    <3>4. now + left' <= deadline - info'.prior + Latency
      BY <1>0, <3>1, <3>3 DEF Info
    <3>5. task' \in {"sleep", "done"} /\ UNCHANGED <<now, deadline, tunnel>>
      BY <1>4, <2>2 DEF MessageOk, Sleep
    <3>6. QED BY <2>2, <3>4, <3>5 DEF DeadlineInv
  <2>3. CASE info.lifetime # None /\ tunnel = "up" /\ ~Reasonable(info')
    BY <1>4, <2>3 DEF DeadlineInv, MessageOk, Sleep
  <2>4. CASE tunnel # "up"
    BY <1>4, <2>4 DEF TaskInv, DeadlineInv, MessageOk
  <2>5. QED BY <2>1, <2>2, <2>3, <2>4
<1>5. CASE ExtendFails
  BY <1>5 DEF TaskInv, DeadlineInv, ExtendFails
<1>6. CASE TunnelEnds \/ AbortTask \/ DropTask \/ LateLogin
  BY <1>6 DEF DeadlineInv, TaskInv, TunnelEnds, AbortTask, DropTask, LateLogin
<1>7. CASE Tick
  <2>1. CASE Waiting
    BY <1>0, <1>7, <2>1 DEF DeadlineInv, Tick, Reasonable, Info
  <2>2. CASE ~Waiting
    BY <1>7, <2>2 DEF DeadlineInv, Tick, Waiting
  <2>3. QED BY <2>1, <2>2
<1>8. CASE Nap
  BY <1>0, <1>8 DEF TypeOK, Nap
<1>9. CASE UNCHANGED vars
  BY <1>9 DEF DeadlineInv, Reasonable, vars
<1>10. QED BY <1>1, <1>2, <1>3, <1>4, <1>5, <1>6, <1>7, <1>8, <1>9 DEF Next

\* While the machine is not suspended, the warning comes by its time before
\* the session's end, and the extension is asked of a session that still lives.
THEOREM Ahead == Spec => []AheadOfDeadline
<1>1. TypeOK /\ DeadlineInv => AheadOfDeadline
  BY DEF TypeOK, DeadlineInv, AheadOfDeadline
<1>2. TypeOK /\ TypeOK' /\ TaskInv /\ DeadlineInv /\ [Next]_vars => DeadlineInv'
  BY DeadlineStep
<1>3. QED BY <1>1, <1>2, DeadlineInit, TypeCorrect, TaskAlways, PTL DEF Spec

=============================================================================
