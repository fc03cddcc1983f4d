------------------------ MODULE HelperTunnel_proofs ------------------------
(***************************************************************************)
(* Proofs about HelperTunnel for every set of connections and every bound: *)
(* the inductive invariant IInv, the safety properties it implies, and the *)
(* refinement of TunnelSlot.                                               *)
(***************************************************************************)
EXTENDS HelperTunnel, SequenceTheorems, TLAPS

USE BoundsAssumption
USE DEF Run, NoRun, listenerVars, callVars, managerVars, processVars, outputVars

\* Trimming a sequence of messages yields one within the limit.
LEMMA TrimmedType ==
  ASSUME NEW s \in Seq(Messages)
  PROVE  Trimmed(s) \in Seq(Messages) /\ Len(Trimmed(s)) <= HistoryLimit
<1>1. CASE Len(s) > HistoryLimit
  <2>1. Len(s) - HistoryLimit + 1 \in 1 .. Len(s) + 1 /\ Len(s) \in Nat
    BY <1>1
  <2>2. SubSeq(s, Len(s) - HistoryLimit + 1, Len(s)) \in Seq(Messages)
    BY <2>1, SubSeqProperties
  <2>3. Len(SubSeq(s, Len(s) - HistoryLimit + 1, Len(s))) = HistoryLimit
    BY <2>1, <1>1, SubSeqProperties
  <2>4. QED BY <1>1, <2>2, <2>3 DEF Trimmed, LastOf
<1>2. CASE ~(Len(s) > HistoryLimit)
  <2>1. Len(s) \in Nat /\ Len(s) <= HistoryLimit
    BY <1>2
  <2>2. SubSeq(s, 1, Len(s)) \in Seq(Messages) /\ Len(SubSeq(s, 1, Len(s))) = Len(s)
    BY <2>1, SubSeqProperties
  <2>3. QED BY <1>2, <2>1, <2>2 DEF Trimmed, LastOf
<1>3. QED BY <1>1, <1>2

\* A notification of a well-formed message is a well-formed cast.
LEMMA CastType ==
  ASSUME TypeOK, NEW r \in Run, NEW n \in Nat,
         NEW src \in {"reader", "drain", "finish"}
  PROVE  /\ Line(r, n) \in Messages
         /\ Exit(r) \in Messages
         /\ \A m \in Messages : Notifying(src, m) \subseteq Casts
<1>1. Line(r, n) \in Messages /\ Exit(r) \in Messages
  BY DEF Line, Exit, Messages
<1>2. Targets \in SUBSET Conn /\ casts \subseteq Casts
  BY DEF TypeOK, ControlType, OutputType, Targets
<1>3. ASSUME NEW m \in Messages PROVE Cast(src, m, Targets) \in Casts
  BY <1>2 DEF Cast, Casts
<1>4. QED BY <1>1, <1>2, <1>3 DEF Notifying

-----------------------------------------------------------------------------
(* Each part of IInv is preserved by every step                            *)

LEMMA InitIInv == Init => IInv
<1> SUFFICES ASSUME Init PROVE IInv
  OBVIOUS
<1>1. ControlType
  <2>1. /\ daemon \in {"up", "down"} /\ quiet \in BOOLEAN
        /\ timer \in {"waiting", "notRunning", "notOpen", "exiting"}
        /\ conn \in [Conn -> {"none", "open", "closed"}]
        /\ pc \in [Conn -> {"ready", "claimed"}]
    BY DEF Init
  <2>2. running \in BOOLEAN /\ lastExitCode \in BOOLEAN
    BY DEF Init
  <2>6. /\ work \in [Conn -> 0 .. MaxRuns]
        /\ runner \in 0 .. MaxRuns /\ runs \in 0 .. MaxRuns
        /\ observers \subseteq Conn /\ calls \subseteq Run
    BY DEF Init
  <2>3. task \in [Run -> {"none", "claimed", "spawned", "verified", "running",
                         "exited", "finished", "lost"}]
    BY DEF Init
  <2>4. /\ proc \in [Run -> {"none", "up", "down"}]
        /\ signalled \in [Run -> BOOLEAN]
    BY DEF Init
  <2>5. QED BY <2>1, <2>2, <2>3, <2>4, <2>6 DEF ControlType
<1>2. OutputType
  BY EmptySeq DEF Init, OutputType
<1>3. SlotInv /\ ProcInv /\ CallInv
  BY DEF Init, SlotInv, ProcInv, CallInv, Active
<1>4. TimerInv
  BY DEF Init, TimerInv
<1>5. QED BY <1>1, <1>2, <1>3, <1>4 DEF IInv, TypeOK

LEMMA ControlTypeStep ==
  ASSUME TypeOK, [Next]_vars
  PROVE  ControlType'
<1>1. ASSUME NEW c \in Conn, Accept(c) PROVE ControlType'
  BY <1>1 DEF Accept, TypeOK, ControlType
<1>2. ASSUME NEW c \in Conn, Invalidate(c) PROVE ControlType'
  <2>1. conn' \in [Conn -> {"none", "open", "closed"}]
    BY <1>2 DEF Invalidate, Forget, TypeOK, ControlType
  <2>2. work' \in [Conn -> 0 .. MaxRuns]
    BY <1>2 DEF Invalidate, Forget, TypeOK, ControlType
  <2>3. QED BY <1>2, <2>1, <2>2 DEF Invalidate, Forget, TypeOK, ControlType
<1>3. ASSUME NEW c \in Conn, Claim(c) PROVE ControlType'
  <2>1. runs' \in 0 .. MaxRuns
    BY <1>3 DEF Claim, TypeOK, ControlType
  <2>2. task' \in [Run -> {"none", "claimed", "spawned", "verified", "running",
                         "exited", "finished", "lost"}]
    BY <1>3 DEF Claim, TypeOK, ControlType
  <2>3. pc' \in [Conn -> {"ready", "claimed"}]
    BY <1>3 DEF Claim, TypeOK, ControlType
  <2>4. work' \in [Conn -> 0 .. MaxRuns]
    BY <1>3 DEF Claim, TypeOK, ControlType
  <2>5. QED BY <1>3, <2>1, <2>2, <2>3, <2>4 DEF Claim, TypeOK, ControlType
<1>4. ASSUME NEW c \in Conn, SetRunner(c) PROVE ControlType'
  BY <1>4 DEF SetRunner, TypeOK, ControlType
<1>5. ASSUME NEW c \in Conn, Signal(c) PROVE ControlType'
  BY <1>5 DEF Signal, TypeOK, ControlType
<1>6. ASSUME NEW r \in Run, DeliverSignal(r) PROVE ControlType'
  BY <1>6 DEF DeliverSignal, TypeOK, ControlType
<1>7. ASSUME NEW r \in Run, VerifyOk(r) PROVE ControlType'
  BY <1>7 DEF VerifyOk, TypeOK, ControlType
<1>8. ASSUME NEW r \in Run, VerifyFail(r) PROVE ControlType'
  <2>1. task' \in [Run -> {"none", "claimed", "spawned", "verified", "running",
                         "exited", "finished", "lost"}]
    BY <1>8 DEF VerifyFail, Finish, TypeOK, ControlType
  <2>2. /\ daemon' \in {"up", "down"} /\ quiet' \in BOOLEAN
        /\ timer' \in {"waiting", "notRunning", "notOpen", "exiting"}
        /\ conn' \in [Conn -> {"none", "open", "closed"}]
        /\ pc' \in [Conn -> {"ready", "claimed"}]
        /\ work' \in [Conn -> 0 .. MaxRuns]
    BY <1>8 DEF VerifyFail, Finish, TypeOK, ControlType
  <2>3. running' \in BOOLEAN /\ lastExitCode' \in BOOLEAN
    BY <1>8 DEF VerifyFail, Finish
  <2>6. runner' \in 0 .. MaxRuns /\ runs' \in 0 .. MaxRuns
    BY <1>8 DEF VerifyFail, Finish, TypeOK, ControlType
  <2>4. /\ observers' \subseteq Conn /\ calls' \subseteq Run
        /\ proc' \in [Run -> {"none", "up", "down"}]
        /\ signalled' \in [Run -> BOOLEAN]
    BY <1>8 DEF VerifyFail, Finish, TypeOK, ControlType
  <2>5. QED BY <2>1, <2>2, <2>3, <2>4, <2>6 DEF ControlType
<1>9. ASSUME NEW r \in Run, Launch(r) PROVE ControlType'
  BY <1>9 DEF Launch, TypeOK, ControlType
<1>10. ASSUME NEW r \in Run, LaunchFail(r) PROVE ControlType'
  <2>1. task' \in [Run -> {"none", "claimed", "spawned", "verified", "running",
                         "exited", "finished", "lost"}]
    BY <1>10 DEF LaunchFail, Finish, TypeOK, ControlType
  <2>2. /\ daemon' \in {"up", "down"} /\ quiet' \in BOOLEAN
        /\ timer' \in {"waiting", "notRunning", "notOpen", "exiting"}
        /\ conn' \in [Conn -> {"none", "open", "closed"}]
        /\ pc' \in [Conn -> {"ready", "claimed"}]
        /\ work' \in [Conn -> 0 .. MaxRuns]
    BY <1>10 DEF LaunchFail, Finish, TypeOK, ControlType
  <2>3. running' \in BOOLEAN /\ lastExitCode' \in BOOLEAN
    BY <1>10 DEF LaunchFail, Finish
  <2>6. runner' \in 0 .. MaxRuns /\ runs' \in 0 .. MaxRuns
    BY <1>10 DEF LaunchFail, Finish, TypeOK, ControlType
  <2>4. /\ observers' \subseteq Conn /\ calls' \subseteq Run
        /\ proc' \in [Run -> {"none", "up", "down"}]
        /\ signalled' \in [Run -> BOOLEAN]
    BY <1>10 DEF LaunchFail, Finish, TypeOK, ControlType
  <2>5. QED BY <2>1, <2>2, <2>3, <2>4, <2>6 DEF ControlType
<1>11. ASSUME NEW r \in Run, Resume(r) PROVE ControlType'
  BY <1>11 DEF Resume, TypeOK, ControlType
<1>12. ASSUME NEW r \in Run, FinishRun(r) PROVE ControlType'
  <2>1. task' \in [Run -> {"none", "claimed", "spawned", "verified", "running",
                         "exited", "finished", "lost"}]
    BY <1>12 DEF FinishRun, Finish, TypeOK, ControlType
  <2>2. /\ daemon' \in {"up", "down"} /\ quiet' \in BOOLEAN
        /\ timer' \in {"waiting", "notRunning", "notOpen", "exiting"}
        /\ conn' \in [Conn -> {"none", "open", "closed"}]
        /\ pc' \in [Conn -> {"ready", "claimed"}]
        /\ work' \in [Conn -> 0 .. MaxRuns]
    BY <1>12 DEF FinishRun, Finish, TypeOK, ControlType
  <2>3. running' \in BOOLEAN /\ lastExitCode' \in BOOLEAN
    BY <1>12 DEF FinishRun, Finish
  <2>6. runner' \in 0 .. MaxRuns /\ runs' \in 0 .. MaxRuns
    BY <1>12 DEF FinishRun, Finish, TypeOK, ControlType
  <2>4. /\ observers' \subseteq Conn /\ calls' \subseteq Run
        /\ proc' \in [Run -> {"none", "up", "down"}]
        /\ signalled' \in [Run -> BOOLEAN]
    BY <1>12 DEF FinishRun, Finish, TypeOK, ControlType
  <2>5. QED BY <2>1, <2>2, <2>3, <2>4, <2>6 DEF ControlType
<1>13. ASSUME NEW r \in Run, ProcessExit(r) PROVE ControlType'
  BY <1>13 DEF ProcessExit, TypeOK, ControlType
<1>14. ASSUME NEW r \in Run, ReadLine(r) PROVE ControlType'
  BY <1>14 DEF ReadLine, TypeOK, ControlType
<1>15. ASSUME NEW r \in Run, RecordHeld(r) PROVE ControlType'
  BY <1>15 DEF RecordHeld, Record, TypeOK, ControlType
<1>16. ASSUME NEW r \in Run, Drain(r) PROVE ControlType'
  BY <1>16 DEF Drain, Record, TypeOK, ControlType
<1>17. ASSUME NEW b \in casts, NEW c \in b.to, Notify(b, c) PROVE ControlType'
  BY <1>17 DEF Notify, TypeOK, ControlType
<1>18. CASE Elapse
  BY <1>18 DEF Elapse, TypeOK, ControlType
<1>19. CASE CheckRunning
  BY <1>19 DEF CheckRunning, TimerStep, TypeOK, ControlType
<1>20. CASE CheckOpen
  BY <1>20 DEF CheckOpen, TimerStep, TypeOK, ControlType
<1>21. CASE CheckQuiet
  BY <1>21 DEF CheckQuiet, TimerStep, TypeOK, ControlType
<1>22. CASE ExitDaemon
  <2>1. task' \in [Run -> {"none", "claimed", "spawned", "verified", "running",
                         "exited", "finished", "lost"}]
    BY <1>22 DEF ExitDaemon, TypeOK, ControlType
  <2>2. conn' \in [Conn -> {"none", "open", "closed"}]
    BY <1>22 DEF ExitDaemon, TypeOK, ControlType
  <2>3. proc' \in [Run -> {"none", "up", "down"}]
    BY <1>22 DEF ExitDaemon, TypeOK, ControlType
  <2>4. /\ pc' \in [Conn -> {"ready", "claimed"}]
        /\ work' \in [Conn -> 0 .. MaxRuns]
    BY <1>22 DEF ExitDaemon, TypeOK, ControlType
  <2>5. /\ daemon' \in {"up", "down"} /\ quiet' \in BOOLEAN
        /\ timer' \in {"waiting", "notRunning", "notOpen", "exiting"}
    BY <1>22 DEF ExitDaemon, TypeOK, ControlType
  <2>6. running' \in BOOLEAN /\ lastExitCode' \in BOOLEAN
    BY <1>22 DEF ExitDaemon
  <2>9. runner' \in 0 .. MaxRuns /\ runs' \in 0 .. MaxRuns
    BY <1>22 DEF ExitDaemon, TypeOK, ControlType
  <2>7. /\ observers' \subseteq Conn /\ calls' \subseteq Run
        /\ signalled' \in [Run -> BOOLEAN]
    BY <1>22 DEF ExitDaemon, TypeOK, ControlType
  <2>8. QED BY <2>1, <2>2, <2>3, <2>4, <2>5, <2>6, <2>7, <2>9 DEF ControlType
<1>23. CASE UNCHANGED vars
  BY <1>23 DEF vars, TypeOK, ControlType
<1>24. QED
  BY <1>1, <1>2, <1>3, <1>4, <1>5, <1>6, <1>7, <1>8, <1>9, <1>10, <1>11,
     <1>12, <1>13, <1>14, <1>15, <1>16, <1>17, <1>18, <1>19, <1>20, <1>21,
     <1>22, <1>23
     DEF Next, RunTask, Output, NotifySome, IdleTimer

LEMMA OutputTypeStep ==
  ASSUME TypeOK, [Next]_vars
  PROVE  OutputType'
<1>1. ASSUME NEW c \in Conn, Accept(c) PROVE OutputType'
  BY <1>1 DEF Accept, TypeOK, OutputType
<1>2. ASSUME NEW c \in Conn, Invalidate(c) PROVE OutputType'
  BY <1>2 DEF Invalidate, Forget, TypeOK, OutputType
<1>3. ASSUME NEW c \in Conn, Claim(c) PROVE OutputType'
  <2>1. history' = <<>> /\ UNCHANGED <<produced, held, casts, inbox>>
    BY <1>3 DEF Claim, outputVars
  <2>2. <<>> \in Seq(Messages) /\ Len(<<>>) <= HistoryLimit
    BY BoundsAssumption DEF BoundsAssumption
  <2>3. QED BY <2>1, <2>2 DEF TypeOK, OutputType
<1>4. ASSUME NEW c \in Conn, SetRunner(c) PROVE OutputType'
  BY <1>4 DEF SetRunner, TypeOK, OutputType
<1>5. ASSUME NEW c \in Conn, Signal(c) PROVE OutputType'
  BY <1>5 DEF Signal, TypeOK, OutputType
<1>6. ASSUME NEW r \in Run, DeliverSignal(r) PROVE OutputType'
  BY <1>6 DEF DeliverSignal, TypeOK, OutputType
<1>7. ASSUME NEW r \in Run, VerifyOk(r) PROVE OutputType'
  BY <1>7 DEF VerifyOk, TypeOK, OutputType
<1>8. ASSUME NEW r \in Run, VerifyFail(r) PROVE OutputType'
  <2>1. casts' \subseteq Casts
    BY <1>8, CastType DEF VerifyFail, Finish
  <2>2. QED BY <1>8, <2>1 DEF VerifyFail, Finish, TypeOK, OutputType
<1>9. ASSUME NEW r \in Run, Launch(r) PROVE OutputType'
  BY <1>9 DEF Launch, TypeOK, OutputType
<1>10. ASSUME NEW r \in Run, LaunchFail(r) PROVE OutputType'
  <2>1. casts' \subseteq Casts
    BY <1>10, CastType DEF LaunchFail, Finish
  <2>2. QED BY <1>10, <2>1 DEF LaunchFail, Finish, TypeOK, OutputType
<1>11. ASSUME NEW r \in Run, Resume(r) PROVE OutputType'
  BY <1>11 DEF Resume, TypeOK, OutputType
<1>12. ASSUME NEW r \in Run, FinishRun(r) PROVE OutputType'
  <2>1. casts' \subseteq Casts
    BY <1>12, CastType DEF FinishRun, Finish
  <2>2. QED BY <1>12, <2>1 DEF FinishRun, Finish, TypeOK, OutputType
<1>13. ASSUME NEW r \in Run, ProcessExit(r) PROVE OutputType'
  BY <1>13 DEF ProcessExit, TypeOK, OutputType
<1>14. ASSUME NEW r \in Run, ReadLine(r) PROVE OutputType'
  <2>1. /\ produced[r] \in 0 .. MaxLines - 1
        /\ produced' = [produced EXCEPT ![r] = produced[r] + 1]
        /\ held' = [held EXCEPT ![r] = produced[r] + 1]
    BY <1>14, BoundsAssumption DEF ReadLine, TypeOK, OutputType, BoundsAssumption
  <2>2. produced[r] + 1 \in 0 .. MaxLines
    BY <2>1, BoundsAssumption DEF BoundsAssumption
  <2>3. produced' \in [Run -> 0 .. MaxLines] /\ held' \in [Run -> 0 .. MaxLines]
    BY <2>1, <2>2 DEF TypeOK, OutputType
  <2>4. QED BY <1>14, <2>3 DEF ReadLine, TypeOK, OutputType
<1>15. ASSUME NEW r \in Run, RecordHeld(r) PROVE OutputType'
  <2>1. PICK n \in Nat : /\ history' = Trimmed(Append(history, Line(r, n)))
                         /\ casts' = Notifying("reader", Line(r, n))
    BY <1>15 DEF RecordHeld, Record, TypeOK, OutputType
  <2>2. casts' \subseteq Casts
    BY <2>1, CastType
  <2>3. Append(history, Line(r, n)) \in Seq(Messages)
    BY CastType, AppendProperties DEF TypeOK, OutputType
  <2>4. history' \in Seq(Messages) /\ Len(history') <= HistoryLimit
    BY <2>1, <2>3, TrimmedType
  <2>5. produced' \in [Run -> 0 .. MaxLines] /\ held' \in [Run -> 0 .. MaxLines]
    BY <1>15, BoundsAssumption DEF RecordHeld, TypeOK, OutputType, BoundsAssumption
  <2>6. inbox' \in [Conn -> Seq(Messages)]
    BY <1>15 DEF RecordHeld, Record, TypeOK, OutputType
  <2>7. QED BY <2>2, <2>4, <2>5, <2>6 DEF OutputType
<1>16. ASSUME NEW r \in Run, Drain(r) PROVE OutputType'
  <2>1. PICK n \in Nat : /\ history' = Trimmed(Append(history, Line(r, n)))
                         /\ casts' = Notifying("drain", Line(r, n))
    BY <1>16 DEF Drain, Record, TypeOK, OutputType
  <2>2. casts' \subseteq Casts
    BY <2>1, CastType
  <2>3. Append(history, Line(r, n)) \in Seq(Messages)
    BY CastType, AppendProperties DEF TypeOK, OutputType
  <2>4. history' \in Seq(Messages) /\ Len(history') <= HistoryLimit
    BY <2>1, <2>3, TrimmedType
  <2>5. produced' \in [Run -> 0 .. MaxLines] /\ held' \in [Run -> 0 .. MaxLines]
    <3>1. produced[r] + 1 \in 0 .. MaxLines
      BY <1>16, BoundsAssumption DEF Drain, TypeOK, OutputType, BoundsAssumption
    <3>2. produced' = [produced EXCEPT ![r] = produced[r] + 1] /\ held' = held
      BY <1>16 DEF Drain
    <3>3. QED BY <3>1, <3>2 DEF TypeOK, OutputType
  <2>6. inbox' \in [Conn -> Seq(Messages)]
    BY <1>16 DEF Drain, Record, TypeOK, OutputType
  <2>7. QED BY <2>2, <2>4, <2>5, <2>6 DEF OutputType
<1>17. ASSUME NEW b \in casts, NEW c \in b.to, Notify(b, c) PROVE OutputType'
  <2>1. b \in Casts
    BY DEF TypeOK, OutputType
  <2>2. b.msg \in Messages /\ Cast(b.src, b.msg, b.to \ {c}) \in Casts
    BY <2>1 DEF Cast, Casts
  <2>3. inbox' \in [Conn -> Seq(Messages)]
    BY <1>17, <2>2, AppendProperties DEF Notify, TypeOK, OutputType
  <2>4. QED BY <1>17, <2>2, <2>3 DEF Notify, TypeOK, OutputType
<1>18. CASE Elapse
  BY <1>18 DEF Elapse, TypeOK, OutputType
<1>19. CASE CheckRunning
  BY <1>19 DEF CheckRunning, TimerStep, TypeOK, OutputType
<1>20. CASE CheckOpen
  BY <1>20 DEF CheckOpen, TimerStep, TypeOK, OutputType
<1>21. CASE CheckQuiet
  BY <1>21 DEF CheckQuiet, TimerStep, TypeOK, OutputType
<1>22. CASE ExitDaemon
  BY <1>22 DEF ExitDaemon, TypeOK, OutputType
<1>23. CASE UNCHANGED vars
  BY <1>23 DEF vars, TypeOK, OutputType
<1>24. QED
  BY <1>1, <1>2, <1>3, <1>4, <1>5, <1>6, <1>7, <1>8, <1>9, <1>10, <1>11,
     <1>12, <1>13, <1>14, <1>15, <1>16, <1>17, <1>18, <1>19, <1>20, <1>21,
     <1>22, <1>23
     DEF Next, RunTask, Output, NotifySome, IdleTimer

LEMMA SlotStep ==
  ASSUME IInv, [Next]_vars
  PROVE  SlotInv'
<1> USE DEF IInv, TypeOK, ControlType, SlotInv, Active
<1>1. ASSUME NEW c \in Conn, Accept(c) PROVE SlotInv'
  BY <1>1 DEF Accept, CallInv, ProcInv
<1>2. ASSUME NEW c \in Conn, Invalidate(c) PROVE SlotInv'
  BY <1>2 DEF Invalidate, Forget, CallInv, ProcInv
<1>3. ASSUME NEW c \in Conn, Claim(c) PROVE SlotInv'
  BY <1>3 DEF Claim, SlotFree, CallerFree, Told, CallInv, ProcInv
<1>4. ASSUME NEW c \in Conn, SetRunner(c) PROVE SlotInv'
  BY <1>4 DEF SetRunner, CallInv, ProcInv
<1>5. ASSUME NEW c \in Conn, Signal(c) PROVE SlotInv'
  BY <1>5 DEF Signal, CallInv, ProcInv
<1>6. ASSUME NEW r \in Run, DeliverSignal(r) PROVE SlotInv'
  BY <1>6 DEF DeliverSignal, CallInv, ProcInv
<1>7. ASSUME NEW r \in Run, VerifyOk(r) PROVE SlotInv'
  BY <1>7 DEF VerifyOk, CallInv, ProcInv
<1>8. ASSUME NEW r \in Run, VerifyFail(r) PROVE SlotInv'
  BY <1>8 DEF VerifyFail, Finish, CallInv, ProcInv
<1>9. ASSUME NEW r \in Run, Launch(r) PROVE SlotInv'
  BY <1>9 DEF Launch, CallInv, ProcInv
<1>10. ASSUME NEW r \in Run, LaunchFail(r) PROVE SlotInv'
  BY <1>10 DEF LaunchFail, Finish, CallInv, ProcInv
<1>11. ASSUME NEW r \in Run, Resume(r) PROVE SlotInv'
  BY <1>11 DEF Resume, CallInv, ProcInv
<1>12. ASSUME NEW r \in Run, FinishRun(r) PROVE SlotInv'
  BY <1>12 DEF FinishRun, Finish, CallInv, ProcInv
<1>13. ASSUME NEW r \in Run, ProcessExit(r) PROVE SlotInv'
  BY <1>13 DEF ProcessExit, CallInv, ProcInv
<1>14. ASSUME NEW r \in Run, ReadLine(r) PROVE SlotInv'
  BY <1>14 DEF ReadLine, CallInv, ProcInv
<1>15. ASSUME NEW r \in Run, RecordHeld(r) PROVE SlotInv'
  BY <1>15 DEF RecordHeld, Record, CallInv, ProcInv
<1>16. ASSUME NEW r \in Run, Drain(r) PROVE SlotInv'
  BY <1>16 DEF Drain, Record, CallInv, ProcInv
<1>17. ASSUME NEW b \in casts, NEW c \in b.to, Notify(b, c) PROVE SlotInv'
  BY <1>17 DEF Notify, CallInv, ProcInv
<1>18. CASE Elapse
  BY <1>18 DEF Elapse, CallInv, ProcInv
<1>19. CASE CheckRunning
  BY <1>19 DEF CheckRunning, TimerStep, CallInv, ProcInv
<1>20. CASE CheckOpen
  BY <1>20 DEF CheckOpen, TimerStep, CallInv, ProcInv
<1>21. CASE CheckQuiet
  BY <1>21 DEF CheckQuiet, TimerStep, CallInv, ProcInv
<1>22. CASE ExitDaemon
  BY <1>22 DEF ExitDaemon, CallInv, ProcInv
<1>23. CASE UNCHANGED vars
  BY <1>23 DEF vars, CallInv, ProcInv
<1>24. QED
  BY <1>1, <1>2, <1>3, <1>4, <1>5, <1>6, <1>7, <1>8, <1>9, <1>10, <1>11,
     <1>12, <1>13, <1>14, <1>15, <1>16, <1>17, <1>18, <1>19, <1>20, <1>21,
     <1>22, <1>23
     DEF Next, RunTask, Output, NotifySome, IdleTimer

LEMMA ProcStep ==
  ASSUME IInv, [Next]_vars
  PROVE  ProcInv'
<1> USE DEF IInv, TypeOK, ControlType, ProcInv
<1>1. ASSUME NEW c \in Conn, Accept(c) PROVE ProcInv'
  BY <1>1 DEF Accept, SlotInv, Active, CallInv
<1>2. ASSUME NEW c \in Conn, Invalidate(c) PROVE ProcInv'
  BY <1>2 DEF Invalidate, Forget, SlotInv, Active, CallInv
<1>3. ASSUME NEW c \in Conn, Claim(c) PROVE ProcInv'
  BY <1>3 DEF Claim, SlotFree, CallerFree, Told, SlotInv, Active, CallInv
<1>4. ASSUME NEW c \in Conn, SetRunner(c) PROVE ProcInv'
  BY <1>4 DEF SetRunner, SlotInv, Active, CallInv
<1>5. ASSUME NEW c \in Conn, Signal(c) PROVE ProcInv'
  BY <1>5 DEF Signal, SlotInv, Active, CallInv
<1>6. ASSUME NEW r \in Run, DeliverSignal(r) PROVE ProcInv'
  BY <1>6 DEF DeliverSignal, SlotInv, Active, CallInv
<1>7. ASSUME NEW r \in Run, VerifyOk(r) PROVE ProcInv'
  BY <1>7 DEF VerifyOk, SlotInv, Active, CallInv
<1>8. ASSUME NEW r \in Run, VerifyFail(r) PROVE ProcInv'
  BY <1>8 DEF VerifyFail, Finish, SlotInv, Active, CallInv
<1>9. ASSUME NEW r \in Run, Launch(r) PROVE ProcInv'
  BY <1>9 DEF Launch, SlotInv, Active, CallInv
<1>10. ASSUME NEW r \in Run, LaunchFail(r) PROVE ProcInv'
  BY <1>10 DEF LaunchFail, Finish, SlotInv, Active, CallInv
<1>11. ASSUME NEW r \in Run, Resume(r) PROVE ProcInv'
  BY <1>11 DEF Resume, SlotInv, Active, CallInv
<1>12. ASSUME NEW r \in Run, FinishRun(r) PROVE ProcInv'
  BY <1>12 DEF FinishRun, Finish, SlotInv, Active, CallInv
<1>13. ASSUME NEW r \in Run, ProcessExit(r) PROVE ProcInv'
  BY <1>13 DEF ProcessExit, SlotInv, Active, CallInv
<1>14. ASSUME NEW r \in Run, ReadLine(r) PROVE ProcInv'
  BY <1>14 DEF ReadLine, SlotInv, Active, CallInv
<1>15. ASSUME NEW r \in Run, RecordHeld(r) PROVE ProcInv'
  BY <1>15 DEF RecordHeld, Record, SlotInv, Active, CallInv
<1>16. ASSUME NEW r \in Run, Drain(r) PROVE ProcInv'
  BY <1>16 DEF Drain, Record, SlotInv, Active, CallInv
<1>17. ASSUME NEW b \in casts, NEW c \in b.to, Notify(b, c) PROVE ProcInv'
  BY <1>17 DEF Notify, SlotInv, Active, CallInv
<1>18. CASE Elapse
  BY <1>18 DEF Elapse, SlotInv, Active, CallInv
<1>19. CASE CheckRunning
  BY <1>19 DEF CheckRunning, TimerStep, SlotInv, Active, CallInv
<1>20. CASE CheckOpen
  BY <1>20 DEF CheckOpen, TimerStep, SlotInv, Active, CallInv
<1>21. CASE CheckQuiet
  BY <1>21 DEF CheckQuiet, TimerStep, SlotInv, Active, CallInv
<1>22. CASE ExitDaemon
  BY <1>22 DEF ExitDaemon, SlotInv, Active, CallInv
<1>23. CASE UNCHANGED vars
  BY <1>23 DEF vars, SlotInv, Active, CallInv
<1>24. QED
  BY <1>1, <1>2, <1>3, <1>4, <1>5, <1>6, <1>7, <1>8, <1>9, <1>10, <1>11,
     <1>12, <1>13, <1>14, <1>15, <1>16, <1>17, <1>18, <1>19, <1>20, <1>21,
     <1>22, <1>23
     DEF Next, RunTask, Output, NotifySome, IdleTimer

LEMMA CallStep ==
  ASSUME IInv, [Next]_vars
  PROVE  CallInv'
<1> USE DEF IInv, TypeOK, ControlType, CallInv
<1>1. ASSUME NEW c \in Conn, Accept(c) PROVE CallInv'
  BY <1>1 DEF Accept, SlotInv, Active
<1>2. ASSUME NEW c \in Conn, Invalidate(c) PROVE CallInv'
  BY <1>2 DEF Invalidate, Forget, SlotInv, Active
<1>3. ASSUME NEW c \in Conn, Claim(c) PROVE CallInv'
  BY <1>3 DEF Claim, SlotFree, CallerFree, Told, SlotInv, Active
<1>4. ASSUME NEW c \in Conn, SetRunner(c) PROVE CallInv'
  BY <1>4 DEF SetRunner, SlotInv, Active
<1>5. ASSUME NEW c \in Conn, Signal(c) PROVE CallInv'
  BY <1>5 DEF Signal, SlotInv, Active
<1>6. ASSUME NEW r \in Run, DeliverSignal(r) PROVE CallInv'
  BY <1>6 DEF DeliverSignal, SlotInv, Active
<1>7. ASSUME NEW r \in Run, VerifyOk(r) PROVE CallInv'
  BY <1>7 DEF VerifyOk, SlotInv, Active
<1>8. ASSUME NEW r \in Run, VerifyFail(r) PROVE CallInv'
  BY <1>8 DEF VerifyFail, Finish, SlotInv, Active
<1>9. ASSUME NEW r \in Run, Launch(r) PROVE CallInv'
  BY <1>9 DEF Launch, SlotInv, Active
<1>10. ASSUME NEW r \in Run, LaunchFail(r) PROVE CallInv'
  BY <1>10 DEF LaunchFail, Finish, SlotInv, Active
<1>11. ASSUME NEW r \in Run, Resume(r) PROVE CallInv'
  BY <1>11 DEF Resume, SlotInv, Active
<1>12. ASSUME NEW r \in Run, FinishRun(r) PROVE CallInv'
  BY <1>12 DEF FinishRun, Finish, SlotInv, Active
<1>13. ASSUME NEW r \in Run, ProcessExit(r) PROVE CallInv'
  BY <1>13 DEF ProcessExit, SlotInv, Active
<1>14. ASSUME NEW r \in Run, ReadLine(r) PROVE CallInv'
  BY <1>14 DEF ReadLine, SlotInv, Active
<1>15. ASSUME NEW r \in Run, RecordHeld(r) PROVE CallInv'
  BY <1>15 DEF RecordHeld, Record, SlotInv, Active
<1>16. ASSUME NEW r \in Run, Drain(r) PROVE CallInv'
  BY <1>16 DEF Drain, Record, SlotInv, Active
<1>17. ASSUME NEW b \in casts, NEW c \in b.to, Notify(b, c) PROVE CallInv'
  BY <1>17 DEF Notify, SlotInv, Active
<1>18. CASE Elapse
  BY <1>18 DEF Elapse, SlotInv, Active
<1>19. CASE CheckRunning
  BY <1>19 DEF CheckRunning, TimerStep, SlotInv, Active
<1>20. CASE CheckOpen
  BY <1>20 DEF CheckOpen, TimerStep, SlotInv, Active
<1>21. CASE CheckQuiet
  BY <1>21 DEF CheckQuiet, TimerStep, SlotInv, Active
<1>22. CASE ExitDaemon
  BY <1>22 DEF ExitDaemon, SlotInv, Active
<1>23. CASE UNCHANGED vars
  BY <1>23 DEF vars, SlotInv, Active
<1>24. QED
  BY <1>1, <1>2, <1>3, <1>4, <1>5, <1>6, <1>7, <1>8, <1>9, <1>10, <1>11,
     <1>12, <1>13, <1>14, <1>15, <1>16, <1>17, <1>18, <1>19, <1>20, <1>21,
     <1>22, <1>23
     DEF Next, RunTask, Output, NotifySome, IdleTimer

LEMMA TimerInvStep ==
  ASSUME IInv, [Next]_vars
  PROVE  TimerInv'
<1> USE DEF IInv, TypeOK, ControlType, TimerInv, OpenConnections
<1>1. ASSUME NEW c \in Conn, Accept(c) PROVE TimerInv'
  BY <1>1 DEF Accept, SlotInv, Active, CallInv
<1>2. ASSUME NEW c \in Conn, Invalidate(c) PROVE TimerInv'
  BY <1>2 DEF Invalidate, Forget, SlotInv, Active, CallInv
<1>3. ASSUME NEW c \in Conn, Claim(c) PROVE TimerInv'
  BY <1>3 DEF Claim, SlotFree, CallerFree, Told, SlotInv, Active, CallInv
<1>4. ASSUME NEW c \in Conn, SetRunner(c) PROVE TimerInv'
  BY <1>4 DEF SetRunner, SlotInv, Active, CallInv
<1>5. ASSUME NEW c \in Conn, Signal(c) PROVE TimerInv'
  BY <1>5 DEF Signal, SlotInv, Active, CallInv
<1>6. ASSUME NEW r \in Run, DeliverSignal(r) PROVE TimerInv'
  BY <1>6 DEF DeliverSignal, SlotInv, Active, CallInv
<1>7. ASSUME NEW r \in Run, VerifyOk(r) PROVE TimerInv'
  BY <1>7 DEF VerifyOk, SlotInv, Active, CallInv
<1>8. ASSUME NEW r \in Run, VerifyFail(r) PROVE TimerInv'
  BY <1>8 DEF VerifyFail, Finish, SlotInv, Active, CallInv
<1>9. ASSUME NEW r \in Run, Launch(r) PROVE TimerInv'
  BY <1>9 DEF Launch, SlotInv, Active, CallInv
<1>10. ASSUME NEW r \in Run, LaunchFail(r) PROVE TimerInv'
  BY <1>10 DEF LaunchFail, Finish, SlotInv, Active, CallInv
<1>11. ASSUME NEW r \in Run, Resume(r) PROVE TimerInv'
  BY <1>11 DEF Resume, SlotInv, Active, CallInv
<1>12. ASSUME NEW r \in Run, FinishRun(r) PROVE TimerInv'
  BY <1>12 DEF FinishRun, Finish, SlotInv, Active, CallInv
<1>13. ASSUME NEW r \in Run, ProcessExit(r) PROVE TimerInv'
  BY <1>13 DEF ProcessExit, SlotInv, Active, CallInv
<1>14. ASSUME NEW r \in Run, ReadLine(r) PROVE TimerInv'
  BY <1>14 DEF ReadLine, SlotInv, Active, CallInv
<1>15. ASSUME NEW r \in Run, RecordHeld(r) PROVE TimerInv'
  BY <1>15 DEF RecordHeld, Record, SlotInv, Active, CallInv
<1>16. ASSUME NEW r \in Run, Drain(r) PROVE TimerInv'
  BY <1>16 DEF Drain, Record, SlotInv, Active, CallInv
<1>17. ASSUME NEW b \in casts, NEW c \in b.to, Notify(b, c) PROVE TimerInv'
  BY <1>17 DEF Notify, SlotInv, Active, CallInv
<1>18. CASE Elapse
  BY <1>18 DEF Elapse, SlotInv, Active, CallInv
<1>19. CASE CheckRunning
  BY <1>19 DEF CheckRunning, TimerStep, SlotInv, Active, CallInv
<1>20. CASE CheckOpen
  BY <1>20 DEF CheckOpen, TimerStep, SlotInv, Active, CallInv
<1>21. CASE CheckQuiet
  BY <1>21 DEF CheckQuiet, TimerStep, SlotInv, Active, CallInv
<1>22. CASE ExitDaemon
  BY <1>22 DEF ExitDaemon, SlotInv, Active, CallInv
<1>23. CASE UNCHANGED vars
  BY <1>23 DEF vars, SlotInv, Active, CallInv
<1>24. QED
  BY <1>1, <1>2, <1>3, <1>4, <1>5, <1>6, <1>7, <1>8, <1>9, <1>10, <1>11,
     <1>12, <1>13, <1>14, <1>15, <1>16, <1>17, <1>18, <1>19, <1>20, <1>21,
     <1>22, <1>23
     DEF Next, RunTask, Output, NotifySome, IdleTimer

-----------------------------------------------------------------------------
(* The theorems                                                            *)

LEMMA Inductive == Spec => []IInv
<1>1. IInv /\ [Next]_vars => IInv'
  BY ControlTypeStep, OutputTypeStep, SlotStep, ProcStep, CallStep, TimerInvStep
     DEF IInv, TypeOK
<1>2. QED BY InitIInv, <1>1, PTL DEF Spec

\* Every variable keeps its type, and the history its limit.
THEOREM TypeCorrect == Spec => []TypeOK
<1>1. IInv => TypeOK
  BY DEF IInv
<1>2. QED BY Inductive, <1>1, PTL

\* The helper's single tunnel: never two gpclients of one daemon, and none
\* outside the running stage of its run, whatever calls interleave.
THEOREM SingleTunnel == Spec => []OneTunnel
<1>1. IInv => OneTunnel
  BY DEF IInv, TypeOK, ControlType, SlotInv, ProcInv, OneTunnel, Live, Active
<1>2. QED BY Inductive, <1>1, PTL

\* A gpclient that is up is the one status() reports and stop() reaches.
THEOREM ReachableTunnel == Spec => []LiveIsReachable
<1>1. IInv => LiveIsReachable
  BY DEF IInv, TypeOK, ControlType, SlotInv, ProcInv, LiveIsReachable, Live, Active
<1>2. QED BY Inductive, <1>1, PTL

\* The idle timer's three separate readings amount to one consistent one.
THEOREM IdleDecision == Spec => IdleDecisionSound
<1>1. IInv /\ [Next]_vars
        => [timer # "exiting" /\ timer' = "exiting"
              => ~running /\ OpenConnections = {}]_vars
  <2> SUFFICES ASSUME IInv, Next, timer # "exiting", timer' = "exiting"
               PROVE  ~running /\ OpenConnections = {}
    OBVIOUS
  <2>1. CheckQuiet \/ CheckRunning \/ CheckOpen
    <3>1. ASSUME NEW c \in Conn,
                 Accept(c) \/ Invalidate(c) \/ Claim(c) \/ SetRunner(c) \/ Signal(c)
          PROVE  FALSE
      BY <3>1 DEF Accept, Invalidate, Forget, Claim, SetRunner, Signal
    <3>2. ASSUME NEW r \in Run, DeliverSignal(r) \/ ProcessExit(r) \/ Output(r)
          PROVE  FALSE
      BY <3>2 DEF DeliverSignal, ProcessExit, Output, ReadLine, RecordHeld,
                  Drain, Record
    <3>3. ASSUME NEW r \in Run, RunTask(r)
          PROVE  FALSE
      BY <3>3 DEF RunTask, VerifyOk, VerifyFail, Launch, LaunchFail, Resume,
                  FinishRun, Finish
    <3>4. ~NotifySome /\ ~Elapse /\ ~ExitDaemon
      BY DEF NotifySome, Notify, Elapse, ExitDaemon
    <3>5. QED BY <3>1, <3>2, <3>3, <3>4 DEF Next, IdleTimer
  <2>2. QED BY <2>1 DEF CheckQuiet, CheckRunning, CheckOpen, TimerStep, IInv,
                        TimerInv
<1>2. QED BY Inductive, <1>1, PTL DEF Spec, IdleDecisionSound

\* The daemon implements the one-slot promise.
THEOREM ImplementsSlot == Spec => SlotSpec
<1> USE DEF Slot!vars, Live
<1>1. Init => Slot!Init
  BY DEF Init, Slot!Init
<1>2. IInv /\ [Next]_vars => [Slot!Next]_(Slot!vars)
  <2> SUFFICES ASSUME IInv, [Next]_vars PROVE [Slot!Next]_(Slot!vars)
    OBVIOUS
  <2> USE DEF IInv, TypeOK, ControlType, SlotInv, ProcInv, CallInv, Active
  <2>1. ASSUME NEW c \in Conn, Accept(c) PROVE UNCHANGED Slot!vars
    BY <2>1 DEF Accept
  <2>2. ASSUME NEW c \in Conn, Invalidate(c) PROVE UNCHANGED Slot!vars
    BY <2>2 DEF Invalidate, Forget
  <2>3. ASSUME NEW c \in Conn, Claim(c) PROVE Slot!Take(runs + 1)
    BY <2>3 DEF Claim, Slot!Take, SlotFree
  <2>4. ASSUME NEW c \in Conn, SetRunner(c) PROVE UNCHANGED Slot!vars
    BY <2>4 DEF SetRunner
  <2>5. ASSUME NEW c \in Conn, Signal(c) PROVE UNCHANGED Slot!vars
    BY <2>5 DEF Signal
  <2>6. ASSUME NEW r \in Run, DeliverSignal(r) PROVE UNCHANGED Slot!vars
    BY <2>6 DEF DeliverSignal
  <2>7. ASSUME NEW r \in Run, VerifyOk(r) PROVE UNCHANGED Slot!vars
    BY <2>7 DEF VerifyOk
  <2>8. ASSUME NEW r \in Run, VerifyFail(r) PROVE Slot!Release
    BY <2>8 DEF VerifyFail, Finish, Slot!Release
  <2>9. ASSUME NEW r \in Run, Launch(r) PROVE Slot!Launch(r)
    BY <2>9 DEF Launch, Slot!Launch
  <2>10. ASSUME NEW r \in Run, LaunchFail(r) PROVE Slot!Release
    BY <2>10 DEF LaunchFail, Finish, Slot!Release
  <2>11. ASSUME NEW r \in Run, Resume(r) PROVE UNCHANGED Slot!vars
    BY <2>11 DEF Resume
  <2>12. ASSUME NEW r \in Run, FinishRun(r) PROVE Slot!Release
    BY <2>12 DEF FinishRun, Finish, Slot!Release
  <2>13. ASSUME NEW r \in Run, ProcessExit(r)
         PROVE  Slot!End \/ UNCHANGED Slot!vars
    BY <2>13 DEF ProcessExit, Slot!End
  <2>14. ASSUME NEW r \in Run, ReadLine(r) PROVE UNCHANGED Slot!vars
    BY <2>14 DEF ReadLine
  <2>15. ASSUME NEW r \in Run, RecordHeld(r) PROVE UNCHANGED Slot!vars
    BY <2>15 DEF RecordHeld, Record
  <2>16. ASSUME NEW r \in Run, Drain(r) PROVE UNCHANGED Slot!vars
    BY <2>16 DEF Drain, Record
  <2>17. ASSUME NEW b \in casts, NEW c \in b.to, Notify(b, c)
         PROVE  UNCHANGED Slot!vars
    BY <2>17 DEF Notify
  <2>23. CASE Elapse
    BY <2>23 DEF Elapse
  <2>20. ASSUME CheckRunning \/ CheckOpen \/ CheckQuiet PROVE UNCHANGED Slot!vars
    BY <2>20 DEF CheckRunning, CheckOpen, CheckQuiet, TimerStep
  <2>18. CASE ExitDaemon
    BY <2>18 DEF ExitDaemon, Slot!Vanish, Slot!Next
  <2>19. CASE UNCHANGED vars
    BY <2>19 DEF vars
  <2>21. UNCHANGED Slot!vars \/ Slot!Next
    <3>1. ASSUME NEW c \in Conn,
                 Accept(c) \/ Invalidate(c) \/ Claim(c) \/ SetRunner(c) \/ Signal(c)
          PROVE  UNCHANGED Slot!vars \/ Slot!Next
      <4>1. runs + 1 \in Run \/ ~Claim(c)
        BY DEF Claim
      <4>2. CASE Claim(c)
        <5>1. PICK r \in Run : r = runs + 1
          BY <4>1, <4>2
        <5>2. Slot!Take(r)
          BY <5>1, <4>2, <2>3 DEF Slot!Take
        <5>3. QED BY <5>2 DEF Slot!Next
      <4>3. CASE ~Claim(c)
        BY <3>1, <4>3, <2>1, <2>2, <2>4, <2>5
      <4>4. QED BY <4>2, <4>3
    <3>2. ASSUME NEW r \in Run,
                 DeliverSignal(r) \/ RunTask(r) \/ ProcessExit(r) \/ Output(r)
          PROVE  UNCHANGED Slot!vars \/ Slot!Next
      BY <3>2, <2>6, <2>7, <2>8, <2>9, <2>10, <2>11, <2>12, <2>13, <2>14, <2>15,
         <2>16 DEF RunTask, Output, Slot!Next
    <3>3. QED BY <3>1, <3>2, <2>17, <2>18, <2>19, <2>20, <2>23
          DEF Next, IdleTimer, NotifySome
  <2>22. QED BY <2>21
<1>3. QED BY Inductive, <1>1, <1>2, PTL DEF Spec, SlotSpec, Slot!Spec
-----------------------------------------------------------------------------
(* What ExitAnnounced rests on: an exit is told before it is forgotten     *)

\* A notification loop still has to tell c the exit of run r.
Announcing(c, r) == \E b \in casts : b.msg = Exit(r) /\ c \in b.to

\* The caller of a run that has not been told its exit need not ask again: the
\* run is not over, or the message is on its way to this caller.
ExitDue ==
  \A c \in Conn : conn[c] = "open" /\ work[c] # NoRun =>
    Active(work[c]) \/ Told(c, Exit(work[c])) \/ Announcing(c, work[c])

\* finish() copies the observers: whoever is connected is one of them.
ObserverInv == \A c \in Conn : conn[c] = "open" => c \in observers

\* A connection begins with no run.
NewInv == \A c \in Conn : conn[c] = "none" => work[c] = NoRun

ExitInv == ObserverInv /\ ExitDue

LEMMA NewStep == IInv /\ NewInv /\ [Next]_vars => NewInv'
<1> SUFFICES ASSUME IInv, NewInv, [Next]_vars PROVE NewInv'
  OBVIOUS
<1> USE DEF IInv, TypeOK, ControlType, NewInv
<1>1. CASE UNCHANGED <<conn, work>>
  BY <1>1
<1>2. ASSUME NEW c \in Conn, Accept(c) \/ Invalidate(c) PROVE NewInv'
  BY <1>2 DEF Accept, Invalidate, Forget
<1>3. ASSUME NEW c \in Conn, Claim(c) PROVE NewInv'
  BY <1>3 DEF Claim
<1>4. CASE ExitDaemon
  BY <1>4 DEF ExitDaemon
<1>5. QED
  BY <1>1, <1>2, <1>3, <1>4
  DEF Next, vars, SetRunner, Signal, DeliverSignal, RunTask, VerifyOk, VerifyFail, Launch,
      LaunchFail, Resume, FinishRun, Finish, ProcessExit, Output, ReadLine, RecordHeld, Drain,
      Record, NotifySome, Notify, Elapse, IdleTimer, CheckRunning, CheckOpen, CheckQuiet,
      TimerStep

\* Nothing that bears on the caller's message is taken back.
LEMMA ExitKept ==
  ASSUME IInv, ExitInv, observers' = observers, conn' = conn, work' = work,
         inbox' = inbox, casts \subseteq casts',
         \A r \in Run : Active(r) => Active(r)' \/ \E b \in casts' :
                                       b.msg = Exit(r) /\ b.to = observers
  PROVE  ExitInv'
<1>1. ObserverInv'
  BY DEF ExitInv, ObserverInv
<1>2. ASSUME NEW c \in Conn, conn[c] = "open", work[c] # NoRun
      PROVE  Active(work[c])' \/ Told(c, Exit(work[c]))' \/ Announcing(c, work[c])'
  <2>1. work[c] \in Run /\ c \in observers
    BY <1>2 DEF IInv, TypeOK, ControlType, ExitInv, ObserverInv
  <2>2. Told(c, Exit(work[c])) => Told(c, Exit(work[c]))'
    BY DEF Told
  <2>3. Announcing(c, work[c]) => Announcing(c, work[c])'
    BY DEF Announcing
  <2>4. Active(work[c]) => Active(work[c])' \/ Announcing(c, work[c])'
    BY <2>1 DEF Announcing
  <2>5. QED BY <1>2, <2>2, <2>3, <2>4 DEF ExitInv, ExitDue
<1>3. QED BY <1>1, <1>2 DEF ExitInv, ExitDue

LEMMA ExitStep == IInv /\ NewInv /\ ExitInv /\ [Next]_vars => ExitInv'
<1> SUFFICES ASSUME IInv, NewInv, ExitInv, [Next]_vars PROVE ExitInv'
  OBVIOUS
<1> USE DEF IInv, TypeOK, ControlType
<1>1. ASSUME NEW c \in Conn, Accept(c) PROVE ExitInv'
  <2>1. work[c] = NoRun
    BY <1>1 DEF Accept, NewInv
  <2>2. ObserverInv'
    BY <1>1 DEF Accept, ExitInv, ObserverInv
  <2>3. \A d \in Conn : conn'[d] = "open" /\ work'[d] # NoRun => conn[d] = "open"
    BY <1>1, <2>1 DEF Accept
  <2>4. UNCHANGED <<work, task, casts, inbox>>
    BY <1>1 DEF Accept, callVars
  <2>5. ASSUME NEW d \in Conn, conn'[d] = "open", work'[d] # NoRun
        PROVE  (Active(work[d]) \/ Told(d, Exit(work[d])) \/ Announcing(d, work[d]))'
    <3>1. Active(work[d]) \/ Told(d, Exit(work[d])) \/ Announcing(d, work[d])
      BY <2>3, <2>4, <2>5 DEF ExitInv, ExitDue
    <3>2. QED BY <2>4, <3>1 DEF Active, Told, Announcing
  <2>6. QED BY <2>2, <2>5 DEF ExitInv, ExitDue
<1>2. ASSUME NEW c \in Conn, Invalidate(c) PROVE ExitInv'
  <2>1. \A d \in Conn : conn'[d] = "open" =>
          d # c /\ conn[d] = "open" /\ work'[d] = work[d] /\ inbox'[d] = inbox[d]
    BY <1>2 DEF Invalidate, Forget, OutputType
  <2>2. ObserverInv'
    BY <1>2, <2>1 DEF Invalidate, Forget, ExitInv, ObserverInv
  <2>3. UNCHANGED <<task, casts>>
    BY <1>2 DEF Invalidate, Forget
  <2>4. ASSUME NEW d \in Conn, conn'[d] = "open", work'[d] # NoRun
        PROVE  (Active(work[d]) \/ Told(d, Exit(work[d])) \/ Announcing(d, work[d]))'
    <3>1. Active(work[d]) \/ Told(d, Exit(work[d])) \/ Announcing(d, work[d])
      BY <2>1, <2>4 DEF ExitInv, ExitDue
    <3>2. QED BY <2>1, <2>3, <2>4, <3>1 DEF Active, Told, Announcing
  <2>5. QED BY <2>2, <2>4 DEF ExitInv, ExitDue
<1>3. ASSUME NEW c \in Conn, Claim(c) PROVE ExitInv'
  <2>1. /\ runs + 1 \in Run /\ work' = [work EXCEPT ![c] = runs + 1]
        /\ task' = [task EXCEPT ![runs + 1] = "claimed"]
    BY <1>3 DEF Claim
  <2>2. /\ \A r \in Run : r = runs + 1 => Active(r)'
        /\ \A r \in Run : Active(r) => Active(r)'
    BY <2>1 DEF Active
  <2>3. ASSUME NEW d \in Conn, conn[d] = "open", work'[d] # NoRun
        PROVE  (Active(work[d]) \/ Told(d, Exit(work[d])) \/ Announcing(d, work[d]))'
    <3>1. CASE d = c
      BY <2>1, <2>2, <3>1
    <3>2. CASE d # c
      <4>1. work'[d] = work[d] /\ work[d] \in Run
        BY <2>1, <2>3, <3>2
      <4>2. QED
        BY <1>3, <2>2, <2>3, <4>1 DEF Claim, ExitInv, ExitDue, Told, Announcing
    <3>3. QED BY <3>1, <3>2
  <2>4. QED
    BY <1>3, <2>3 DEF Claim, ExitInv, ObserverInv, ExitDue
<1>4. ASSUME NEW r \in Run, VerifyFail(r) \/ LaunchFail(r) \/ FinishRun(r) PROVE ExitInv'
  <2>1. Finish(r) /\ UNCHANGED processVars
    BY <1>4 DEF VerifyFail, LaunchFail, FinishRun
  <2>2. casts \subseteq casts' /\ (observers # {} => Cast("finish", Exit(r), observers) \in casts')
    BY <2>1 DEF Finish, Notifying, Targets
  <2>3. \A s \in Run : s # r /\ Active(s) => Active(s)'
    BY <2>1 DEF Finish, Active
  <2>4. CASE observers = {}
    BY <2>1, <2>4 DEF Finish, ExitInv, ObserverInv, ExitDue
  <2>5. CASE observers # {}
    <3>1. \E b \in casts' : b.msg = Exit(r) /\ b.to = observers
      BY <2>2, <2>5 DEF Cast
    <3>2. QED BY <2>1, <2>2, <2>3, <3>1, ExitKept DEF Finish
  <2>6. QED BY <2>4, <2>5
<1>5. ASSUME NEW b \in casts, NEW d \in b.to, Notify(b, d) PROVE ExitInv'
  <2>1. d \in Conn /\ b.to \subseteq Conn /\ inbox \in [Conn -> Seq(Messages)] /\ b.msg \in Messages
    BY DEF OutputType, Casts
  <2>2. ObserverInv'
    BY <1>5 DEF Notify, ExitInv, ObserverInv
  <2>3. ASSUME NEW c \in Conn, conn[c] = "open", NEW m, Told(c, m) PROVE Told(c, m)'
    <3>1. PICK i \in DOMAIN inbox[c] : inbox[c][i] = m
      BY <2>3 DEF Told
    <3>2. CASE c # d
      BY <1>5, <2>1, <3>1, <3>2 DEF Notify, Told
    <3>3. CASE c = d
      <4>1. inbox'[c] = Append(inbox[c], b.msg)
        BY <1>5, <2>1, <2>3, <3>3 DEF Notify
      <4>2. i \in DOMAIN inbox'[c] /\ inbox'[c][i] = m
        BY <2>1, <3>1, <4>1
      <4>3. QED BY <4>2 DEF Told
    <3>4. QED BY <3>2, <3>3
  <2>4. ASSUME NEW c \in Conn, conn[c] = "open", NEW r \in Run, Announcing(c, r)
        PROVE  Announcing(c, r)' \/ Told(c, Exit(r))'
    <3>1. PICK a \in casts : a.msg = Exit(r) /\ c \in a.to
      BY <2>4 DEF Announcing
    <3>2. CASE a # b
      <4>1. a \in casts'
        BY <1>5, <3>2 DEF Notify
      <4>2. QED BY <3>1, <4>1 DEF Announcing
    <3>3. CASE a = b /\ c = d
      <4>1. inbox'[c] = Append(inbox[c], Exit(r))
        BY <1>5, <2>1, <2>4, <3>1, <3>3 DEF Notify
      <4>2. /\ Len(inbox[c]) + 1 \in DOMAIN inbox'[c]
            /\ inbox'[c][Len(inbox[c]) + 1] = Exit(r)
        BY <2>1, <3>1, <3>3, <4>1
      <4>3. QED BY <4>2 DEF Told
    <3>4. CASE a = b /\ c # d
      <4>1. Cast(b.src, b.msg, b.to \ {d}) \in casts'
        BY <1>5, <3>1, <3>4 DEF Notify
      <4>2. /\ Cast(b.src, b.msg, b.to \ {d}).msg = Exit(r)
            /\ c \in Cast(b.src, b.msg, b.to \ {d}).to
        BY <3>1, <3>4 DEF Cast
      <4>3. QED BY <4>1, <4>2 DEF Announcing
    <3>5. QED BY <3>2, <3>3, <3>4
  <2>5. ASSUME NEW c \in Conn, conn'[c] = "open", work'[c] # NoRun
        PROVE  (Active(work[c]) \/ Told(c, Exit(work[c])) \/ Announcing(c, work[c]))'
    <3>1. conn[c] = "open" /\ work' = work /\ task' = task /\ work[c] # NoRun
      BY <1>5, <2>5 DEF Notify
    <3>2. work[c] \in Run
      BY <3>1
    <3>3. QED BY <2>3, <2>4, <3>1, <3>2 DEF ExitInv, ExitDue, Active
  <2>6. QED BY <2>2, <2>5 DEF ExitInv, ExitDue
<1>6. CASE ExitDaemon
  <2>1. \A c \in Conn : conn'[c] # "open"
    BY <1>6 DEF ExitDaemon
  <2>2. QED BY <2>1 DEF ExitInv, ObserverInv, ExitDue
<1>7. ASSUME NEW c \in Conn, SetRunner(c) PROVE ExitInv'
  <2>1. work[c] \in Run /\ \A r \in Run : Active(r) => Active(r)'
    BY <1>7 DEF SetRunner, CallInv, SlotInv, Active
  <2>2. QED BY <1>7, <2>1, ExitKept DEF SetRunner
<1>8. ASSUME NEW r \in Run, VerifyOk(r) \/ Launch(r) \/ Resume(r) PROVE ExitInv'
  <2>1. \A s \in Run : Active(s) => Active(s)'
    BY <1>8 DEF VerifyOk, Launch, Resume, Active
  <2>2. QED BY <1>8, <2>1, ExitKept DEF VerifyOk, Launch, Resume
<1>9. ASSUME UNCHANGED <<observers, conn, work, inbox, task>>, casts \subseteq casts'
      PROVE  ExitInv'
  BY <1>9, ExitKept DEF Active
<1>10. ASSUME NEW r \in Run, RecordHeld(r) \/ Drain(r) PROVE ExitInv'
  BY <1>9, <1>10 DEF RecordHeld, Drain, Record, Notifying
<1>11. ASSUME NEW c \in Conn, Signal(c) PROVE ExitInv'
  BY <1>9, <1>11 DEF Signal
<1>12. ASSUME NEW r \in Run, DeliverSignal(r) \/ ProcessExit(r) \/ ReadLine(r) PROVE ExitInv'
  BY <1>9, <1>12 DEF DeliverSignal, ProcessExit, ReadLine
<1>13. CASE Elapse \/ CheckRunning \/ CheckOpen \/ CheckQuiet \/ UNCHANGED vars
  BY <1>9, <1>13 DEF Elapse, CheckRunning, CheckOpen, CheckQuiet, TimerStep, vars
<1>14. QED
  BY <1>1, <1>2, <1>3, <1>4, <1>5, <1>6, <1>7, <1>8, <1>10, <1>11, <1>12, <1>13
  DEF Next, RunTask, Output, NotifySome, IdleTimer

\* Whoever started a tunnel and is still connected gets its exit: the run is not
\* over, or it was told, or the loop of finish() still has it on its list
\* (TunnelManager.swift copies the observers before it notifies them).
THEOREM ExitIsOnItsWay == Spec => []ExitDue
<1>1. Init => NewInv /\ ExitInv
  BY DEF Init, NewInv, ExitInv, ObserverInv, ExitDue
<1>2. IInv /\ NewInv /\ ExitInv /\ [Next]_vars => NewInv' /\ ExitInv'
  BY NewStep, ExitStep
<1>3. ExitInv => ExitDue
  BY DEF ExitInv
<1>4. QED BY Inductive, <1>1, <1>2, <1>3, PTL DEF Spec

-----------------------------------------------------------------------------
(* What SignalArrives rests on                                             *)

\* A stop or kill that found gpclient up is not lost before the run is over: the
\* call has yet to reach the runner, or gpclient has the signal, or has ended;
\* whoever connects, stops or leaves meanwhile (stop and kill read the
\* runner in the queue and call it outside).  SignalArrives adds that these steps
\* are taken.
Ending(r) ==
  \/ task[r] = "running" /\ (proc[r] = "up" => r \in calls \/ signalled[r])
  \/ task[r] = "exited"

SignalGoesOn ==
  [][\A r \in Run : /\ r \in Live /\ r \in calls => Ending(r)
                    /\ Ending(r) => Ending(r)' \/ task'[r] \in {"finished", "lost"}]_vars

\* A signal that found gpclient up stays on its way until its run is over.
THEOREM SignalIsOnItsWay == Spec => SignalGoesOn
<1> DEFINE A == \A r \in Run :
                  /\ r \in Live /\ r \in calls => Ending(r)
                  /\ Ending(r) => Ending(r)' \/ task'[r] \in {"finished", "lost"}
<1>1. IInv /\ [Next]_vars => [A]_vars
  <2> SUFFICES ASSUME IInv, Next, NEW r \in Run
               PROVE  /\ r \in Live /\ r \in calls => Ending(r)
                      /\ Ending(r) => Ending(r)' \/ task'[r] \in {"finished", "lost"}
    BY DEF vars
  <2> USE DEF IInv, TypeOK, ControlType
  <2>1. r \in Live /\ r \in calls => Ending(r)
    BY DEF Live, Ending, ProcInv
  <2>2. SUFFICES ASSUME Ending(r) PROVE Ending(r)' \/ task'[r] \in {"finished", "lost"}
    BY <2>1
  <2>3. task[r] \in {"running", "exited"} /\ Active(r) /\ r = runs
    BY <2>2 DEF Ending, Active, SlotInv
  <2>4. ASSUME NEW c \in Conn, Claim(c) \/ SetRunner(c) PROVE Ending(r)'
    <3>1. work[c] # r \/ ~SetRunner(c)
      BY <2>3 DEF SetRunner, CallInv
    <3>2. task'[r] = task[r]
      BY <2>3, <2>4, <3>1 DEF Claim, SetRunner, SlotInv
    <3>3. QED BY <2>2, <2>4, <3>2 DEF Ending, Claim, SetRunner, processVars
  <2>5. ASSUME NEW s \in Run, DeliverSignal(s) PROVE Ending(r)'
    BY <2>2, <2>5 DEF Ending, DeliverSignal
  <2>6. ASSUME NEW s \in Run, VerifyOk(s) \/ Launch(s) \/ Resume(s) PROVE Ending(r)'
    BY <2>2, <2>3, <2>6 DEF Ending, VerifyOk, Launch, Resume, processVars
  <2>7. ASSUME NEW s \in Run, VerifyFail(s) \/ LaunchFail(s) \/ FinishRun(s)
        PROVE  Ending(r)' \/ task'[r] = "finished"
    BY <2>2, <2>3, <2>7 DEF Ending, VerifyFail, LaunchFail, FinishRun, Finish, processVars
  <2>8. ASSUME NEW s \in Run, ProcessExit(s) PROVE Ending(r)'
    BY <2>2, <2>8 DEF Ending, ProcessExit
  <2>9. ASSUME ExitDaemon PROVE task'[r] = "lost"
    BY <2>3, <2>9 DEF ExitDaemon
  <2>10. ASSUME task' = task, proc' = proc, signalled' = signalled, calls \subseteq calls'
         PROVE  Ending(r)'
    BY <2>2, <2>10 DEF Ending
  <2>11. ASSUME NEW c \in Conn, Accept(c) \/ Invalidate(c) \/ Signal(c) PROVE Ending(r)'
    BY <2>10, <2>11 DEF Accept, Invalidate, Forget, Signal, processVars
  <2>12. ASSUME NEW s \in Run, Output(s) PROVE Ending(r)'
    BY <2>10, <2>12 DEF Output, ReadLine, RecordHeld, Drain, Record, processVars
  <2>13. ASSUME NotifySome \/ Elapse \/ CheckRunning \/ CheckOpen \/ CheckQuiet PROVE Ending(r)'
    BY <2>10, <2>13
       DEF NotifySome, Notify, Elapse, CheckRunning, CheckOpen, CheckQuiet, TimerStep, processVars
  <2>14. QED
    BY <2>4, <2>5, <2>6, <2>7, <2>8, <2>9, <2>11, <2>12, <2>13 DEF Next, RunTask, IdleTimer
<1>2. QED BY <1>1, Inductive, PTL DEF Spec, SignalGoesOn
=============================================================================
