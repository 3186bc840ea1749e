----------------------- MODULE FwupdtoolInstallProofs -----------------------
(***************************************************************************)
(* What install() reports is right for every size of the pipe and of the   *)
(* output and whatever goes wrong around fwupdtool.                        *)
(***************************************************************************)
EXTENDS FwupdtoolInstall, SequenceTheorems, TLAPS

(* Every step keeps the variables well-typed.                              *)
LEMMA TypeStep == TypeOK /\ [Next]_vars => TypeOK'
<1> SUFFICES ASSUME TypeOK, [Next]_vars PROVE TypeOK'
  OBVIOUS
<1> USE InstallAssumption DEF TypeOK, toolVars, pipeVars, timerVars
<1>1. CASE Popen
  BY <1>1 DEF Popen
<1>2. CASE PopenFails
  BY <1>2 DEF PopenFails, Report
<1>3. CASE WatchdogFails
  BY <1>3 DEF WatchdogFails, Report
<1>4. CASE ReadLine
  <2>1. pipe' \in Seq(Lines) /\ Len(pipe') <= PipeSize
    BY <1>4, HeadTailProperties DEF ReadLine
  <2> QED
    BY <1>4, <2>1 DEF ReadLine
<1>5. CASE ReadRaises
  BY <1>5 DEF ReadRaises
<1>6. CASE ReadEnds
  BY <1>6 DEF ReadEnds
<1>7. CASE Wait
  BY <1>7 DEF Wait
<1>8. CASE StopWatchdog
  BY <1>8 DEF StopWatchdog, Report, Cancelled
<1>9. CASE Decide
  BY <1>9 DEF Decide, Report
<1>10. CASE Expire
  BY <1>10 DEF Expire
<1>11. CASE SetTimedOut
  BY <1>11 DEF SetTimedOut
<1>12. CASE Kill
  BY <1>12 DEF Kill
<1>13. CASE WriteLine
  <2>1. pipe' \in Seq(Lines) /\ Len(pipe') <= PipeSize
    BY <1>13, AppendProperties DEF WriteLine
  <2> QED
    BY <1>13, <2>1 DEF WriteLine
<1>14. CASE Flash
  BY <1>14 DEF Flash
<1>15. CASE Exit
  BY <1>15 DEF Exit
<1>16. CASE Helper
  BY <1>16 DEF Helper
<1>17. CASE UNCHANGED vars
  BY <1>17 DEF vars
<1> QED
  BY <1>1, <1>2, <1>3, <1>4, <1>5, <1>6, <1>7, <1>8, <1>9, <1>10, <1>11, <1>12,
     <1>13, <1>14, <1>15, <1>16, <1>17 DEF Next, Reader, Watchdog, Fwupdtool

(* The inductive invariant holds at first.                                 *)
LEMMA IInvInit == Init => IInv
<1> SUFFICES ASSUME Init PROVE IInv
  OBVIOUS
<1>1. TypeOK
  <2>1. pipe \in Seq(Lines) /\ Len(pipe) = 0
    BY DEF Init
  <2>2. Len(pipe) <= PipeSize
    BY <2>1, InstallAssumption
  <2>3. emitted \in 0 .. MaxLines /\ tail \in 0 .. TailSize
    BY InstallAssumption DEF Init
  <2>4. helper \in BOOLEAN /\ timed_out \in BOOLEAN
    BY DEF Init
  <2>5. /\ reader = "idle" /\ result = "none" /\ process = "none"
        /\ code = "none" /\ firmware = "untouched" /\ watchdog = "off"
    BY DEF Init
  <2> QED
    BY <2>1, <2>2, <2>3, <2>4, <2>5 DEF TypeOK
<1>2. /\ CodeOfExited /\ EventBeforeKill /\ WorkerKnows
      /\ OkMeansComplete /\ KillIsReported /\ NamedOutcomeMeansEnded
  BY DEF Init, CodeOfExited, EventBeforeKill, WorkerKnows, OkMeansComplete,
         KillIsReported, NamedOutcomeMeansEnded
<1> QED
  BY <1>1, <1>2 DEF IInv

(* Every step preserves the inductive invariant.                           *)
LEMMA IInvStep == IInv /\ [Next]_vars => IInv'
<1> SUFFICES ASSUME IInv, [Next]_vars PROVE IInv'
  OBVIOUS
<1>0. TypeOK'
  BY TypeStep DEF IInv
<1> DEFINE Rest == /\ CodeOfExited
                   /\ EventBeforeKill
                   /\ WorkerKnows
                   /\ OkMeansComplete
                   /\ KillIsReported
                   /\ NamedOutcomeMeansEnded
<1> SUFFICES Rest'
  BY <1>0 DEF IInv
<1> USE DEF IInv, CodeOfExited, EventBeforeKill, WorkerKnows, OkMeansComplete,
            KillIsReported, NamedOutcomeMeansEnded, toolVars, pipeVars, timerVars
<1>1. CASE Popen
  BY <1>1 DEF Popen
<1>2. CASE PopenFails
  BY <1>2 DEF PopenFails, Report
<1>3. CASE WatchdogFails
  BY <1>3 DEF WatchdogFails, Report
<1>4. CASE ReadLine
  BY <1>4 DEF ReadLine
<1>5. CASE ReadRaises
  BY <1>5 DEF ReadRaises
<1>6. CASE ReadEnds
  BY <1>6 DEF ReadEnds
<1>7. CASE Wait
  BY <1>7 DEF Wait
<1>8. CASE StopWatchdog
  BY <1>8 DEF StopWatchdog, Report, Cancelled, TypeOK
<1>9. CASE Decide
  BY <1>9 DEF Decide, Report
<1>10. CASE Expire
  BY <1>10 DEF Expire
<1>11. CASE SetTimedOut
  BY <1>11 DEF SetTimedOut
<1>12. CASE Kill
  BY <1>12 DEF Kill
<1>13. CASE WriteLine
  BY <1>13 DEF WriteLine
<1>14. CASE Flash
  BY <1>14 DEF Flash
<1>15. CASE Exit
  BY <1>15 DEF Exit
<1>16. CASE Helper
  BY <1>16 DEF Helper
<1>17. CASE UNCHANGED vars
  BY <1>17 DEF vars
<1> QED
  BY <1>1, <1>2, <1>3, <1>4, <1>5, <1>6, <1>7, <1>8, <1>9, <1>10, <1>11, <1>12,
     <1>13, <1>14, <1>15, <1>16, <1>17 DEF Next, Reader, Watchdog, Fwupdtool

(* The inductive invariant of install().                                   *)
THEOREM Invariance == Safety => []IInv
BY IInvInit, IInvStep, PTL DEF Safety

(* Every reachable state is well-typed; the pipe and the tail have their   *)
(* bounds.                                                                 *)
THEOREM TypeCorrect == Safety => []TypeOK
<1>1. IInv => TypeOK
  BY DEF IInv
<1> QED
  BY <1>1, Invariance, PTL

(* Success is reported only for an install that is complete.               *)
THEOREM SuccessIsTrue == Safety => []OkMeansComplete
<1>1. IInv => OkMeansComplete
  BY DEF IInv
<1> QED
  BY <1>1, Invariance, PTL

(* The timeout's kill is never mistaken for a failure of fwupdtool.        *)
THEOREM KillIsToldApart == Safety => []KillIsReported
<1>1. IInv => KillIsReported
  BY DEF IInv
<1> QED
  BY <1>1, Invariance, PTL

(* An install that comes back with a named outcome leaves no process and   *)
(* no timer behind.                                                        *)
THEOREM NothingLeftBehind == Safety => []NamedOutcomeMeansEnded
<1>1. IInv => NamedOutcomeMeansEnded
  BY DEF IInv
<1> QED
  BY <1>1, Invariance, PTL

-----------------------------------------------------------------------------
(***************************************************************************)
(* install() implements InstallCall.                                       *)
(***************************************************************************)

(* Nothing was called and nothing runs at first.                           *)
LEMMA PromiseInit == Init => Promise!Init
BY DEF Init, Promise!Init, Outcome, End

(* Every step is one of the promised ones, or is hidden in the threads.    *)
LEMMA PromiseStep == IInv /\ [Next]_vars => [Promise!Next]_Promise!vars
<1> SUFFICES ASSUME IInv, [Next]_vars PROVE [Promise!Next]_Promise!vars
  OBVIOUS
<1> DEFINE call == Outcome[result]
           tool == End[code]
<1>0. TypeOK /\ CodeOfExited /\ WorkerKnows
  BY DEF IInv
<1>c. /\ result = "none" => call = IF reader = "idle" THEN "not_called" ELSE "running"
      /\ result = "ok" => call = "installed"
      /\ result = "command_failed" => call = "failed"
      /\ result = "timeout" => call = "timed_out"
      /\ result \in {"not_found", "exception"} => call = "raised"
      /\ result' = "none" => call' = IF reader' = "idle" THEN "not_called" ELSE "running"
      /\ result' = "ok" => call' = "installed"
      /\ result' = "command_failed" => call' = "failed"
      /\ result' = "timeout" => call' = "timed_out"
      /\ result' \in {"not_found", "exception"} => call' = "raised"
  BY DEF Outcome
<1>t. /\ code = "none" => tool = process
      /\ code = "zero" => tool = "succeeded"
      /\ code \in {"nonzero", "broken_pipe"} => tool = "failed"
      /\ code = "killed" => tool = "killed"
      /\ code' = "none" => tool' = process'
      /\ code' = "zero" => tool' = "succeeded"
      /\ code' \in {"nonzero", "broken_pipe"} => tool' = "failed"
      /\ code' = "killed" => tool' = "killed"
  BY DEF End
<1> HIDE DEF call, tool
<1>stutter. call' = call /\ tool' = tool /\ firmware' = firmware => UNCHANGED Promise!vars
  BY DEF Promise!vars, call, tool
<1> USE DEF toolVars, pipeVars, timerVars
<1>1. CASE Popen \/ WatchdogFails
  <2>1. call = "not_called" /\ tool' = "running" /\ call' \in {"running", "raised"}
        /\ firmware' = firmware
    BY <1>0, <1>1, <1>c, <1>t DEF Popen, WatchdogFails, Report, CodeOfExited, WorkerKnows
  <2> QED
    BY <2>1 DEF Promise!Next, Promise!Launch, call, tool
<1>2. CASE PopenFails
  <2>1. call = "not_called" /\ call' = "raised" /\ tool' = tool /\ firmware' = firmware
    BY <1>0, <1>2, <1>c, <1>t DEF PopenFails, Report, WorkerKnows, TypeOK
  <2> QED
    BY <2>1 DEF Promise!Next, Promise!NotLaunched, call, tool
<1>3. CASE \/ ReadLine \/ ReadRaises \/ ReadEnds \/ Wait
           \/ StopWatchdog /\ reader = "stopping"
           \/ Expire \/ SetTimedOut \/ Helper
  <2>1. /\ result' = result /\ code' = code /\ process' = process /\ firmware' = firmware
        /\ reader' = "idle" <=> reader = "idle"
    BY <1>3 DEF ReadLine, ReadRaises, ReadEnds, Wait, StopWatchdog, Expire, SetTimedOut, Helper
  <2>2. call' = call /\ tool' = tool
    BY <1>0, <1>c, <1>t, <2>1 DEF TypeOK
  <2> QED
    BY <1>stutter, <2>1, <2>2
<1>4. CASE StopWatchdog /\ reader = "unwinding"
  <2>1. call = "running" /\ call' = "raised" /\ tool' = tool /\ firmware' = firmware
    BY <1>0, <1>4, <1>c, <1>t DEF StopWatchdog, Report, WorkerKnows, TypeOK
  <2> QED
    BY <2>1 DEF Promise!Next, Promise!Raise, call, tool
<1>5. CASE Decide
  <2>1. call = "running" /\ tool' = tool /\ firmware' = firmware
    BY <1>0, <1>5, <1>c, <1>t DEF Decide, Report, WorkerKnows, TypeOK
  <2>2. \/ code = "zero" /\ call' = "installed"
        \/ code \in {"nonzero", "broken_pipe"} /\ call' = "failed"
        \/ code # "none" /\ call' = "timed_out"
    BY <1>0, <1>5, <1>c DEF Decide, Report, WorkerKnows, CodeOfExited, TypeOK
  <2>3. \/ tool = "succeeded" /\ call' = "installed"
        \/ tool = "failed" /\ call' = "failed"
        \/ tool \in {"succeeded", "failed", "killed"} /\ call' = "timed_out"
    BY <1>0, <1>t, <2>2 DEF TypeOK
  <2> QED
    BY <2>1, <2>3 DEF Promise!Next, Promise!Return, call, tool
<1>6. CASE Exit \/ Kill \/ WriteLine
  <2>1. result' = result /\ reader' = reader /\ firmware' = firmware
    BY <1>6 DEF Exit, Kill, WriteLine
  <2>2. call' = call
    BY <1>0, <1>c, <2>1 DEF TypeOK
  <2>3. CASE code' = code /\ process' = process
    <3>1. tool' = tool
      BY <1>0, <1>t, <2>3 DEF TypeOK
    <3> QED
      BY <1>stutter, <2>1, <2>2, <3>1
  <2>4. CASE ~(code' = code /\ process' = process)
    <3>1. /\ process = "running"
          /\ code' \in {"nonzero", "killed", "broken_pipe"}
                \cup IF firmware = "complete" THEN {"zero"} ELSE {}
      BY <1>6, <2>4 DEF Exit, Kill, WriteLine
    <3>2. tool = "running"
      BY <1>0, <1>t, <3>1 DEF CodeOfExited
    <3>3. tool' \in {"failed", "killed"} \cup IF firmware = "complete" THEN {"succeeded"} ELSE {}
      BY <1>t, <3>1
    <3> QED
      BY <2>1, <2>2, <3>2, <3>3 DEF Promise!Next, Promise!End, call, tool
  <2> QED
    BY <2>3, <2>4
<1>7. CASE Flash
  <2>1. /\ result' = result /\ reader' = reader /\ code' = code /\ process' = process
        /\ process = "running"
        /\ \/ firmware = "untouched" /\ firmware' = "partial"
           \/ firmware = "partial" /\ firmware' = "complete"
    BY <1>7 DEF Flash
  <2>2. call' = call /\ tool' = tool /\ tool = "running"
    BY <1>0, <1>c, <1>t, <2>1 DEF TypeOK, CodeOfExited
  <2> QED
    BY <2>1, <2>2 DEF Promise!Next, Promise!Write, call, tool
<1>8. CASE UNCHANGED vars
  <2>1. call' = call /\ tool' = tool /\ firmware' = firmware
    BY <1>8 DEF vars, call, tool, Outcome, End
  <2> QED
    BY <1>stutter, <2>1
<1>9. StopWatchdog => reader \in {"stopping", "unwinding"}
  BY DEF StopWatchdog
<1> QED
  BY <1>1, <1>2, <1>3, <1>4, <1>5, <1>6, <1>7, <1>8, <1>9 DEF Next, Reader, Watchdog, Fwupdtool

(* Whatever the pipe, the threads and the timer do, the caller sees        *)
(* fwupdtool run at most once and an outcome that fits its end.            *)
THEOREM KeepsPromise == Safety => ImplementsInstallCall
BY PromiseInit, PromiseStep, Invariance, PTL DEF Safety, ImplementsInstallCall, Promise!Safety
=============================================================================
