------------------------- MODULE FuzzerContextProofs -------------------------
(***************************************************************************)
(* What the fuzzer's contexts and its statistics guarantee for any number  *)
(* of commands, paths, reports and late answers, and any limits.           *)
(***************************************************************************)
EXTENDS FuzzerContext, SequenceTheorems, TLAPS

\* A wait for reports, entered or about to be, concerns a path below the limit:
\* RequireSubscriptionReport checked it, and the path of a context is fixed.
WaitsBelowLimit ==
    pc = "WaitForReport" \/ mContext.waitingForReport
        => mSubscriptionTimeouts[mContext.path] < kMaxSubscriptionTimeouts

\* The status in which a report counts is only entered with an answer.
AnsweredStatus == mContext.status = "INVOKE_RESPONSE" => mContext.responses # {}

\* Between OnResponseTimeout and Close nothing of the command thread runs.
TerminatedIsClosing == mContext.status = "TERMINATED" => pc = "Close"

IInv ==
    /\ TypeOK
    /\ SilencedAtLimit
    /\ WaitsBelowLimit
    /\ AnsweredStatus
    /\ ReportsFollowResponse
    /\ TerminatedIsClosing

Senders == Seq([for : Nat, done : BOOLEAN])
Works == {"RunQueuedCommand", "RunCommandCleanup"}

\* The queue of work and the vector of senders keep their types.
LEMMA WorkAppended ==
    ASSUME NEW q \in Seq(Works), NEW w \in Works
    PROVE  Append(q, w) \in Seq(Works)
  OBVIOUS

\* The event loop takes work off its queue.
LEMMA WorkTaken ==
    ASSUME NEW q \in Seq(Works), q # <<>>
    PROVE  Tail(q) \in Seq(Works)
  OBVIOUS

\* SendCommand adds a sender at the end.
LEMMA SenderAdded ==
    ASSUME NEW s \in Senders, NEW id \in Nat
    PROVE  Append(s, [for |-> id, done |-> FALSE]) \in Senders
  BY DEF Senders

\* OnDone frees the oldest sender.
LEMMA SenderFreed ==
    ASSUME NEW s \in Senders
    PROVE  SubSeq(s, 2, Len(s)) \in Senders
<1> DEFINE S == [for : Nat, done : BOOLEAN]
<1>1. s \in Seq(S)
  BY DEF Senders
<1>2. SubSeq(s, 2, Len(s)) \in Seq(S)
  <2> HIDE DEF S
  <2>1. /\ Len(s) \in Int
        /\ \A i \in 2 .. Len(s) : s[i] \in S
    BY <1>1
  <2> QED
    BY <2>1, SubSeqProperties
<1> QED
  BY <1>2 DEF Senders

\* A sender that called OnDone is marked; every sender knows its context.
LEMMA SenderFinished ==
    ASSUME NEW s \in Senders, NEW i \in 1 .. Len(s)
    PROVE  /\ [s EXCEPT ![i].done = TRUE] \in Senders
           /\ s[i].for \in Nat
<1> DEFINE S == [for : Nat, done : BOOLEAN]
           done(r) == [r EXCEPT !.done = TRUE]
<1>1. s \in Seq(S)
  BY DEF Senders
<1>2. s[i] \in S
  <2> HIDE DEF S
  <2> QED BY <1>1
<1>3. done(s[i]) \in S /\ s[i].for \in Nat
  BY <1>2
<1>4. [s EXCEPT ![i] = done(s[i])] \in Seq(S)
  <2> HIDE DEF S, done
  <2> QED BY <1>1, <1>3, ExceptSeq
<1>5. [s EXCEPT ![i].done = TRUE] = [s EXCEPT ![i] = done(s[i])]
  BY Zenon
<1> QED
  BY <1>3, <1>4, <1>5, Zenon DEF Senders

\* A fresh or closed context.
LEMMA NewContextType ==
    ASSUME NEW id \in Nat, NEW p \in Paths, NEW status \in {"INITIALIZED", "NONE"}
    PROVE  /\ NewContext(id, p, status) \in FuzzerContext
           /\ ~NewContext(id, p, status).waitingForReport
           /\ NewContext(id, p, status).status = status
           /\ NewContext(id, p, status).reportedData = 0
           /\ NewContext(id, p, status).observations = 0
           /\ NewContext(id, p, status).responses = {}
  BY DEF NewContext, FuzzerContext

\* The updates of a context that the handlers make, and what they leave alone.
WithStatus(c, status) == [c EXCEPT !.status = status]
WithWait(c, b) == [c EXCEPT !.waitingForReport = b]
WithReport(c, n) == [c EXCEPT !.waitingForReport = FALSE, !.reportedData = n]
WithTimeout(c, n) ==
    [c EXCEPT !.status = "SUBSCRIPTION_RESPONSE", !.waitingForReport = FALSE, !.observations = n]
WithAnswer(c, R, n) ==
    [c EXCEPT !.status = "INVOKE_RESPONSE", !.responses = R, !.observations = n]

SamePath(c, d) == d \in FuzzerContext /\ d.path = c.path /\ d.id = c.id

\* OnInvokeRequest and OnResponseTimeout change the status alone.
LEMMA StatusUpdate ==
    ASSUME NEW c \in FuzzerContext, NEW status \in {"INVOKE_REQUEST", "TERMINATED"}
    PROVE  LET d == WithStatus(c, status) IN
           /\ SamePath(c, d) /\ d.status = status
           /\ d.waitingForReport = c.waitingForReport
           /\ d.reportedData = c.reportedData /\ d.responses = c.responses
           /\ d.observations = c.observations
  BY DEF WithStatus, SamePath, FuzzerContext

\* RequireSubscriptionReport changes waitingForReport alone.
LEMMA WaitUpdate ==
    ASSUME NEW c \in FuzzerContext, NEW b \in BOOLEAN
    PROVE  LET d == WithWait(c, b) IN
           /\ SamePath(c, d) /\ d.waitingForReport = b /\ d.status = c.status
           /\ d.reportedData = c.reportedData /\ d.responses = c.responses
           /\ d.observations = c.observations
  BY DEF WithWait, SamePath, FuzzerContext

\* OnSubscriptionReport changes waitingForReport and the reported data.
LEMMA ReportUpdate ==
    ASSUME NEW c \in FuzzerContext, NEW n \in Nat
    PROVE  LET d == WithReport(c, n) IN
           /\ SamePath(c, d) /\ d.waitingForReport = FALSE /\ d.status = c.status
           /\ d.reportedData = n /\ d.responses = c.responses
           /\ d.observations = c.observations
  BY DEF WithReport, SamePath, FuzzerContext

\* The end of WaitForSubscriptionReport keeps what was reported and answered.
LEMMA TimeoutUpdate ==
    ASSUME NEW c \in FuzzerContext, NEW n \in Nat
    PROVE  LET d == WithTimeout(c, n) IN
           /\ SamePath(c, d) /\ d.waitingForReport = FALSE /\ d.status = "SUBSCRIPTION_RESPONSE"
           /\ d.reportedData = c.reportedData /\ d.responses = c.responses
           /\ d.observations = n
  BY DEF WithTimeout, SamePath, FuzzerContext

\* OnInvokeResponse keeps the wait and the reported data.
LEMMA AnswerUpdate ==
    ASSUME NEW c \in FuzzerContext, NEW R \in SUBSET Nat, NEW n \in Nat
    PROVE  LET d == WithAnswer(c, R, n) IN
           /\ SamePath(c, d) /\ d.status = "INVOKE_RESPONSE" /\ d.responses = R
           /\ d.waitingForReport = c.waitingForReport /\ d.reportedData = c.reportedData
           /\ d.observations = n
  BY DEF WithAnswer, SamePath, FuzzerContext

\* What an answer does to the active context, whichever command it is for.
LEMMA AnswerStep ==
    ASSUME TypeOK, NEW sender \in Pending, NEW success \in BOOLEAN, OnInvokeResponse(sender, success)
    PROVE  /\ SamePath(mContext, mContext')
           /\ mContext'.waitingForReport = mContext.waitingForReport
           /\ mContext'.reportedData = mContext.reportedData
           /\ \/ mContext' = mContext /\ ~EnsureContextValidity
              \/ /\ mContext.status # "TERMINATED"
                 /\ mContext'.status = "INVOKE_RESPONSE" /\ mContext'.responses # {}
                 /\ mContext'.responses = mContext.responses \cup {mCommandSender[sender].for}
                 /\ mContext'.observations = IF success THEN mContext.observations
                                                        ELSE mContext.observations + 1
<1>1. sender \in 1 .. Len(mCommandSender) /\ mCommandSender \in Senders
  BY DEF Pending, TypeOK, Senders
<1> DEFINE R == mContext.responses \cup {mCommandSender[sender].for}
           n == IF success THEN mContext.observations ELSE mContext.observations + 1
<1>2. R \in SUBSET Nat /\ R # {}
  <2>1. mCommandSender[sender].for \in Nat
    BY <1>1, SenderFinished
  <2>2. mContext.responses \in SUBSET Nat
    BY DEF TypeOK, FuzzerContext
  <2> QED
    BY <2>1, <2>2
<1>3. n \in Nat
  BY DEF TypeOK, FuzzerContext
<1>4. mContext \in FuzzerContext
  BY DEF TypeOK
<1>5. CASE EnsureContextValidity
  <2>1. mContext' = WithAnswer(mContext, R, n)
    BY <1>5 DEF OnInvokeResponse, WithAnswer
  <2> HIDE DEF R, n
  <2>2. mContext.status # "TERMINATED"
    BY <1>5 DEF EnsureContextValidity
  <2> QED
    BY <1>2, <1>3, <1>4, <2>1, <2>2, AnswerUpdate DEF R, n
<1>6. CASE ~EnsureContextValidity
  BY <1>4, <1>6 DEF OnInvokeResponse, SamePath
<1> QED
  BY <1>5, <1>6

\* What RequireSubscriptionReport does to the active context.
LEMMA RequireStep ==
    ASSUME TypeOK, RequireSubscriptionReport
    PROVE  /\ SamePath(mContext, mContext')
           /\ \/ mContext' = mContext
              \/ /\ mContext'.status = mContext.status /\ mContext'.responses = mContext.responses
                 /\ mContext'.reportedData = mContext.reportedData
                 /\ mContext'.observations = mContext.observations
                 /\ mContext'.waitingForReport
                      => \/ mContext.waitingForReport
                         \/ mSubscriptionTimeouts[mContext.path] < kMaxSubscriptionTimeouts
<1> DEFINE b == \/ mContext.waitingForReport
                \/ mSubscriptionTimeouts[mContext.path] < kMaxSubscriptionTimeouts
<1>1. mContext \in FuzzerContext
  BY DEF TypeOK
<1>2. CASE IsInitialized
  <2>1. mContext' = WithWait(mContext, b)
    BY <1>2, Zenon DEF RequireSubscriptionReport, WithWait
  <2>2. b \in BOOLEAN
    BY DEF TypeOK, FuzzerContext
  <2>3. /\ SamePath(mContext, mContext')
        /\ mContext'.status = mContext.status /\ mContext'.responses = mContext.responses
        /\ mContext'.reportedData = mContext.reportedData
        /\ mContext'.observations = mContext.observations
        /\ mContext'.waitingForReport = b
    <3> HIDE DEF b
    <3> QED BY <1>1, <2>1, <2>2, WaitUpdate
  <2> QED
    BY <2>3
<1>3. CASE ~IsInitialized
  BY <1>1, <1>3 DEF RequireSubscriptionReport, SamePath
<1> QED
  BY <1>2, <1>3

\* What the end of a wait without a report does to the context and the statistics.
LEMMA TimeoutStep ==
    ASSUME TypeOK, ReportTimedOut
    PROVE  /\ SamePath(mContext, mContext') /\ mContext'.status = "SUBSCRIPTION_RESPONSE"
           /\ mContext'.waitingForReport = FALSE
           /\ mContext'.reportedData = mContext.reportedData /\ mContext'.responses = mContext.responses
           /\ mContext'.observations = mContext.observations + 1
           /\ mSubscriptionTimeouts' \in [Paths -> Nat] /\ canGenerateReport' \in [Paths -> BOOLEAN]
           /\ \A p \in Paths \ {mContext.path} :
                /\ mSubscriptionTimeouts'[p] = mSubscriptionTimeouts[p]
                /\ canGenerateReport'[p] = canGenerateReport[p]
           /\ LET p == mContext.path IN
              \/ /\ mSubscriptionTimeouts'[p] = mSubscriptionTimeouts[p] + 1
                 /\ canGenerateReport'[p] <=> /\ canGenerateReport[p]
                                              /\ mSubscriptionTimeouts[p] + 1 < kMaxSubscriptionTimeouts
              \/ /\ mSubscriptionTimeouts'[p] = 0
                 /\ canGenerateReport'[p] = canGenerateReport[p]
<1> USE FuzzerAssumption
<1> DEFINE n == mContext.observations + 1
           path == mContext.path
           count == mSubscriptionTimeouts[path] + 1
           can == canGenerateReport[path] /\ count < kMaxSubscriptionTimeouts
<1>1. mContext \in FuzzerContext /\ n \in Nat /\ path \in Paths
  BY DEF TypeOK, FuzzerContext
<1>2. mContext' = WithTimeout(mContext, n)
  BY DEF ReportTimedOut, WithTimeout
<1>3. /\ SamePath(mContext, mContext') /\ mContext'.status = "SUBSCRIPTION_RESPONSE"
      /\ mContext'.waitingForReport = FALSE
      /\ mContext'.reportedData = mContext.reportedData /\ mContext'.responses = mContext.responses
      /\ mContext'.observations = n
  <2> HIDE DEF n
  <2> QED BY <1>1, <1>2, TimeoutUpdate
<1>4. /\ mSubscriptionTimeouts \in [Paths -> Nat] /\ canGenerateReport \in [Paths -> BOOLEAN]
      /\ count \in Nat /\ can \in BOOLEAN
  BY <1>1 DEF TypeOK
<1>5. CASE mContext.reportedData = 0
  <2>1. /\ mSubscriptionTimeouts' = [mSubscriptionTimeouts EXCEPT ![path] = count]
        /\ canGenerateReport' = [canGenerateReport EXCEPT ![path] = can]
    BY <1>5 DEF ReportTimedOut, IncrementSubscriptionTimeouts
  <2>2. /\ mSubscriptionTimeouts' \in [Paths -> Nat] /\ canGenerateReport' \in [Paths -> BOOLEAN]
        /\ mSubscriptionTimeouts'[path] = count /\ canGenerateReport'[path] = can
        /\ \A p \in Paths \ {path} : /\ mSubscriptionTimeouts'[p] = mSubscriptionTimeouts[p]
                                      /\ canGenerateReport'[p] = canGenerateReport[p]
    <3> HIDE DEF path, count, can
    <3> QED BY <1>1, <1>4, <2>1
  <2> QED
    BY <1>3, <2>2
<1>6. CASE mContext.reportedData # 0
  <2>1. /\ mSubscriptionTimeouts' = [mSubscriptionTimeouts EXCEPT ![path] = 0]
        /\ canGenerateReport' = canGenerateReport
    BY <1>6 DEF ReportTimedOut, ResetSubscriptionTimeouts
  <2>2. /\ mSubscriptionTimeouts' \in [Paths -> Nat] /\ canGenerateReport' \in [Paths -> BOOLEAN]
        /\ mSubscriptionTimeouts'[path] = 0
        /\ \A p \in Paths \ {path} : mSubscriptionTimeouts'[p] = mSubscriptionTimeouts[p]
    <3> HIDE DEF path
    <3> QED BY <1>1, <1>4, <2>1
  <2> QED
    BY <1>3, <2>1, <2>2
<1> QED
  BY <1>5, <1>6

\* What a report does to the active context.
LEMMA ReportStep ==
    ASSUME TypeOK, OnSubscriptionReport
    PROVE  /\ SamePath(mContext, mContext')
           /\ mContext'.status = mContext.status /\ mContext'.responses = mContext.responses
           /\ mContext'.observations = mContext.observations
           /\ mContext'.waitingForReport = FALSE
           /\ mContext'.reportedData # mContext.reportedData => mContext.status = "INVOKE_RESPONSE"
<1> DEFINE n == IF mContext.status = "INVOKE_RESPONSE" THEN mContext.reportedData + 1
                                                      ELSE mContext.reportedData
<1>1. mContext \in FuzzerContext /\ n \in Nat
  BY DEF TypeOK, FuzzerContext
<1>2. mContext' = WithReport(mContext, n)
  BY DEF OnSubscriptionReport, WithReport
<1>3. n # mContext.reportedData => mContext.status = "INVOKE_RESPONSE"
  OBVIOUS
<1> HIDE DEF n
<1> QED
  BY <1>1, <1>2, <1>3, ReportUpdate

\* Every step keeps the types.
LEMMA TypeStep ==
    ASSUME TypeOK, Next
    PROVE  TypeOK'
<1> USE FuzzerAssumption DEF Errors, sharedVars, objectVars, loopVars, statsVars, commandVars
<1>0. waitOutlastsSender' \in BOOLEAN
  BY DEF Next, TypeOK
<1>1. CASE SkipTestCase
  BY <1>0, <1>1 DEF SkipTestCase, TypeOK
<1>2. CASE ResponseNotified
  BY <1>0, <1>2 DEF ResponseNotified, TypeOK
<1>3. CASE ResponseTimedOut
  BY <1>0, <1>3 DEF ResponseTimedOut, TypeOK
<1>4. CASE SetTimeoutStatus
  BY <1>0, <1>4 DEF SetTimeoutStatus, TypeOK
<1>5. CASE ReadStatus
  BY <1>0, <1>5 DEF ReadStatus, TypeOK
<1>6. CASE CleanupNotified
  BY <1>0, <1>6 DEF CleanupNotified, TypeOK
<1>7. CASE EnterReportWait
  BY <1>0, <1>7 DEF EnterReportWait, TypeOK
<1>8. CASE CommandFailed
  BY <1>0, <1>8 DEF CommandFailed, TypeOK
<1>9. CASE EndOfTests
  BY <1>0, <1>9 DEF EndOfTests, TypeOK
<1>10. CASE OnDeviceConnectionFailure
  BY <1>0, <1>10 DEF OnDeviceConnectionFailure, TypeOK, SetCommandExitStatus
<1>11. CASE NotifyResponse
  BY <1>0, <1>11 DEF NotifyResponse, TypeOK
<1>12. ASSUME NEW path \in Paths, StartWaiting(path) PROVE TypeOK'
  <2>1. mContext' \in FuzzerContext
    BY <1>12, NewContextType DEF StartWaiting, RunOnMatterQueue, TypeOK, FuzzerContext
  <2>2. queue' \in Seq(Works)
    BY <1>12, WorkAppended DEF StartWaiting, RunOnMatterQueue, TypeOK, Works
  <2> QED
    BY <1>0, <1>12, <2>1, <2>2 DEF StartWaiting, RunOnMatterQueue, Works, TypeOK
<1>13. CASE ScheduleCleanup
  <2>1. mContext' \in FuzzerContext
    BY <1>13, NewContextType DEF ScheduleCleanup, RunOnMatterQueue, TypeOK, FuzzerContext
  <2>2. queue' \in Seq(Works)
    BY <1>13, WorkAppended DEF ScheduleCleanup, RunOnMatterQueue, TypeOK, Works
  <2> QED
    BY <1>0, <1>13, <2>1, <2>2 DEF ScheduleCleanup, RunOnMatterQueue, Works, TypeOK
<1>14. CASE OnResponseTimeout
  <2>1. mContext' \in FuzzerContext
    BY <1>14, StatusUpdate DEF OnResponseTimeout, TypeOK, WithStatus, SamePath
  <2> QED
    BY <1>0, <1>14, <2>1 DEF OnResponseTimeout, TypeOK
<1>15. CASE ReportNotified
  <2>1. mContext' \in FuzzerContext
    BY <1>15, WaitUpdate DEF ReportNotified, TypeOK, WithWait, SamePath
  <2> QED
    BY <1>0, <1>15, <2>1 DEF ReportNotified, TypeOK
<1>16. CASE ReportTimedOut
  <2>1. /\ mContext' \in FuzzerContext
        /\ mSubscriptionTimeouts' \in [Paths -> Nat] /\ canGenerateReport' \in [Paths -> BOOLEAN]
    BY <1>16, TimeoutStep DEF SamePath
  <2> QED
    BY <1>0, <1>16, <2>1 DEF ReportTimedOut, TypeOK
<1>17. CASE Close
  <2>1. mContext' \in FuzzerContext
    BY <1>17, NewContextType DEF Close, TypeOK, FuzzerContext
  <2> QED
    BY <1>0, <1>17, <2>1 DEF Close, TypeOK
<1>18. CASE RunQueuedCommand
  <2>1. queue' \in Seq(Works)
    BY <1>18, WorkTaken DEF RunQueuedCommand, TypeOK, Works
  <2> QED
    BY <1>0, <1>18, <2>1 DEF RunQueuedCommand, SetCommandExitStatus, Works, TypeOK
<1>19. CASE RunCommandCleanup
  <2>1. queue' \in Seq(Works)
    BY <1>19, WorkTaken DEF RunCommandCleanup, TypeOK, Works
  <2> QED
    BY <1>0, <1>19, <2>1 DEF RunCommandCleanup, SetCommandExitStatus, Works, TypeOK
<1>20. CASE OnDeviceConnected
  <2>1. mContext' \in FuzzerContext
    BY <1>20, StatusUpdate DEF OnDeviceConnected, TypeOK, WithStatus, SamePath
  <2>2. mCommandSender' \in Senders
    BY <1>20, SenderAdded DEF OnDeviceConnected, TypeOK, Senders, FuzzerContext, FinishSender
  <2> QED
    BY <1>0, <1>20, <2>1, <2>2 DEF OnDeviceConnected, TypeOK, SetCommandExitStatus, Senders
<1>21. ASSUME NEW sender \in Pending, OnResponse(sender) PROVE TypeOK'
  <2>1. sender \in 1 .. Len(mCommandSender) /\ mCommandSender \in Senders
    BY DEF Pending, TypeOK, Senders
  <2>2. mCommandSender' \in Senders /\ mCommandSender[sender].for \in Nat
    BY <1>21, <2>1, SenderFinished, Zenon DEF OnResponse, FinishSender
  <2>3. mContext' \in FuzzerContext
    BY <1>21, AnswerStep DEF OnResponse, SamePath
  <2> QED
    BY <1>0, <1>21, <2>2, <2>3 DEF OnResponse, Senders, TypeOK
<1>22. ASSUME NEW sender \in Pending, OnError(sender) PROVE TypeOK'
  <2>1. sender \in 1 .. Len(mCommandSender) /\ mCommandSender \in Senders
    BY DEF Pending, TypeOK, Senders
  <2>2. mCommandSender' \in Senders /\ mCommandSender[sender].for \in Nat
    BY <1>22, <2>1, SenderFinished, Zenon DEF OnError, FinishSender
  <2>3. mContext' \in FuzzerContext
    BY <1>22, AnswerStep DEF OnError, SamePath
  <2> QED
    BY <1>0, <1>22, <2>2, <2>3 DEF OnError, Senders, TypeOK
<1>23. CASE RequireSubscriptionReport
  <2>1. mContext' \in FuzzerContext
    BY <1>23, RequireStep DEF RequireSubscriptionReport, TypeOK, SamePath
  <2> QED
    BY <1>0, <1>23, <2>1 DEF RequireSubscriptionReport, TypeOK
<1>24. CASE OnDone
  <2>1. mCommandSender' \in Senders
    BY <1>24, SenderFreed DEF OnDone, TypeOK, Senders
  <2> QED
    BY <1>0, <1>24, <2>1 DEF OnDone, SetCommandExitStatus, Senders, TypeOK
<1>25. CASE OnSubscriptionReport
  <2>1. mContext' \in FuzzerContext
    BY <1>25, ReportStep DEF OnSubscriptionReport, TypeOK, SamePath
  <2> QED
    BY <1>0, <1>25, <2>1 DEF OnSubscriptionReport, TypeOK
<1> QED
  BY <1>1, <1>2, <1>3, <1>4, <1>5, <1>6, <1>7, <1>8, <1>9, <1>10, <1>11, <1>12, <1>13, <1>14,
     <1>15, <1>16, <1>17, <1>18, <1>19, <1>20, <1>21, <1>22, <1>23, <1>24, <1>25
     DEF Next, CommandThread, EventLoopWork

\* A step that leaves the context and the statistics alone, and enters the wait
\* for reports only for a context that asked for it.
LEMMA QuietStep ==
    ASSUME IInv, TypeOK', UNCHANGED <<mContext, mSubscriptionTimeouts, canGenerateReport>>,
           pc' = "WaitForReport" => pc = "WaitForReport" \/ mContext.waitingForReport,
           pc = "Close" => pc' = "Close"
    PROVE  IInv'
  BY DEF IInv, SilencedAtLimit, WaitsBelowLimit, AnsweredStatus, ReportsFollowResponse,
         TerminatedIsClosing

\* A step of the event loop that changes only the context, in the way a handler may.
LEMMA ContextStep ==
    ASSUME IInv, TypeOK', UNCHANGED <<pc, mSubscriptionTimeouts, canGenerateReport>>,
           SamePath(mContext, mContext'),
           mContext'.waitingForReport
               => \/ mContext.waitingForReport \/ pc = "WaitForReport"
                  \/ mSubscriptionTimeouts[mContext.path] < kMaxSubscriptionTimeouts,
           mContext'.status = "INVOKE_RESPONSE" => mContext'.responses # {},
           mContext'.reportedData > 0 => mContext'.responses # {},
           mContext'.status = "TERMINATED" => mContext.status = "TERMINATED"
    PROVE  IInv'
  BY DEF IInv, SilencedAtLimit, WaitsBelowLimit, AnsweredStatus, ReportsFollowResponse,
         TerminatedIsClosing, SamePath

\* A step that starts a context, or keeps the one there is.
LEMMA FreshStep ==
    ASSUME IInv, TypeOK', NEW path \in Paths, UNCHANGED <<mSubscriptionTimeouts, canGenerateReport>>,
           \/ mContext' = mContext
           \/ mContext' = NewContext(nextId, path, "INITIALIZED"),
           pc' # "WaitForReport", pc # "Close"
    PROVE  IInv'
<1>1. CASE mContext' = mContext
  BY <1>1, QuietStep
<1>2. CASE mContext' = NewContext(nextId, path, "INITIALIZED")
  <2>1. nextId \in Nat
    BY DEF IInv, TypeOK
  <2>2. /\ ~mContext'.waitingForReport /\ mContext'.status = "INITIALIZED"
        /\ mContext'.reportedData = 0
    BY <1>2, <2>1, NewContextType
  <2> QED
    BY <2>2 DEF IInv, SilencedAtLimit, WaitsBelowLimit, AnsweredStatus, ReportsFollowResponse,
                TerminatedIsClosing
<1> QED
  BY <1>1, <1>2

\* Every step of either thread keeps the invariant.
LEMMA InvStep ==
    ASSUME IInv, Next
    PROVE  IInv'
<1> USE DEF sharedVars, objectVars, loopVars, statsVars, commandVars
<1>0. TypeOK /\ TypeOK' /\ mContext \in FuzzerContext
  BY TypeStep DEF IInv, TypeOK
<1>1. CASE SkipTestCase
  BY <1>0, <1>1, QuietStep DEF SkipTestCase, MayContinue
<1>2. CASE ResponseNotified
  BY <1>0, <1>2, QuietStep DEF ResponseNotified
<1>3. CASE ResponseTimedOut
  BY <1>0, <1>3, QuietStep DEF ResponseTimedOut
<1>4. CASE SetTimeoutStatus
  BY <1>0, <1>4, QuietStep DEF SetTimeoutStatus
<1>5. CASE ReadStatus
  BY <1>0, <1>5, QuietStep DEF ReadStatus
<1>6. CASE CleanupNotified
  BY <1>0, <1>6, QuietStep DEF CleanupNotified
<1>7. CASE EnterReportWait
  BY <1>0, <1>7, QuietStep DEF EnterReportWait
<1>8. CASE CommandFailed
  BY <1>0, <1>8, QuietStep DEF CommandFailed
<1>9. CASE EndOfTests
  BY <1>0, <1>9, QuietStep DEF EndOfTests
<1>10. CASE RunQueuedCommand
  BY <1>0, <1>10, QuietStep DEF RunQueuedCommand
<1>11. CASE RunCommandCleanup
  BY <1>0, <1>11, QuietStep DEF RunCommandCleanup
<1>12. CASE OnDeviceConnectionFailure
  BY <1>0, <1>12, QuietStep DEF OnDeviceConnectionFailure
<1>13. CASE OnDone
  BY <1>0, <1>13, QuietStep DEF OnDone
<1>14. CASE NotifyResponse
  BY <1>0, <1>14, QuietStep DEF NotifyResponse
<1>15. ASSUME NEW path \in Paths, StartWaiting(path) PROVE IInv'
  BY <1>0, <1>15, FreshStep DEF StartWaiting, MayContinue, RunOnMatterQueue
<1>16. CASE ScheduleCleanup
  <2>1. mContext.path \in Paths
    BY <1>0 DEF FuzzerContext
  <2> QED
    BY <1>0, <1>16, <2>1, FreshStep DEF ScheduleCleanup, RunOnMatterQueue
<1>17. CASE OnResponseTimeout
  <2>1. CASE EnsureContextValidity
    <3>1. mContext' = WithStatus(mContext, "TERMINATED")
      BY <1>17, <2>1 DEF OnResponseTimeout, WithStatus
    <3>2. /\ mContext'.path = mContext.path /\ mContext'.status = "TERMINATED"
          /\ mContext'.waitingForReport = mContext.waitingForReport
          /\ mContext'.reportedData = mContext.reportedData /\ mContext'.responses = mContext.responses
      BY <1>0, <3>1, StatusUpdate DEF SamePath
    <3> QED
      BY <1>0, <1>17, <3>2 DEF OnResponseTimeout, IInv, SilencedAtLimit, WaitsBelowLimit, AnsweredStatus,
                              ReportsFollowResponse, TerminatedIsClosing
  <2>2. CASE ~EnsureContextValidity
    BY <1>0, <1>17, <2>2, QuietStep DEF OnResponseTimeout
  <2> QED
    BY <2>1, <2>2
<1>18. CASE ReportNotified
  <2>1. mContext' = WithWait(mContext, TRUE)
    BY <1>18 DEF ReportNotified, WithWait
  <2>2. /\ SamePath(mContext, mContext') /\ mContext'.status = mContext.status
        /\ mContext'.reportedData = mContext.reportedData /\ mContext'.responses = mContext.responses
    BY <1>0, <2>1, WaitUpdate
  <2> QED
    BY <1>0, <1>18, <2>2, ContextStep DEF ReportNotified, IInv, AnsweredStatus, ReportsFollowResponse
<1>19. CASE ReportTimedOut
  <2> DEFINE path == mContext.path
  <2>1. /\ mContext'.path = path /\ mContext'.waitingForReport = FALSE
        /\ mContext'.status = "SUBSCRIPTION_RESPONSE"
        /\ mContext'.reportedData = mContext.reportedData /\ mContext'.responses = mContext.responses
        /\ pc' = "Close" /\ pc = "WaitForReport" /\ path \in Paths
    BY <1>0, <1>19, TimeoutStep DEF ReportTimedOut, SamePath, FuzzerContext
  <2>2. /\ mSubscriptionTimeouts[path] < kMaxSubscriptionTimeouts
        /\ mSubscriptionTimeouts[path] \in Nat /\ canGenerateReport[path]
    BY <1>0, <2>1 DEF IInv, WaitsBelowLimit, SilencedAtLimit, TypeOK
  <2>3. SilencedAtLimit'
    <3> SUFFICES ASSUME NEW p \in Paths
                 PROVE  /\ mSubscriptionTimeouts'[p] <= kMaxSubscriptionTimeouts
                        /\ canGenerateReport'[p] <=> mSubscriptionTimeouts'[p] < kMaxSubscriptionTimeouts
      BY DEF SilencedAtLimit
    <3>1. CASE p = path
      <4>1. \/ /\ mSubscriptionTimeouts'[path] = mSubscriptionTimeouts[path] + 1
               /\ canGenerateReport'[path] <=> mSubscriptionTimeouts[path] + 1 < kMaxSubscriptionTimeouts
            \/ mSubscriptionTimeouts'[path] = 0 /\ canGenerateReport'[path]
        BY <1>0, <1>19, <2>2, TimeoutStep, Zenon
      <4> HIDE DEF path
      <4> QED
        BY <2>2, <3>1, <4>1, FuzzerAssumption
    <3>2. CASE p # path
      <4>1. /\ mSubscriptionTimeouts'[p] = mSubscriptionTimeouts[p]
            /\ canGenerateReport'[p] = canGenerateReport[p]
        BY <1>0, <1>19, <3>2, TimeoutStep
      <4> QED
        BY <4>1 DEF IInv, SilencedAtLimit
    <3> QED
      BY <3>1, <3>2
  <2> QED
    BY <1>0, <2>1, <2>3 DEF IInv, WaitsBelowLimit, AnsweredStatus, ReportsFollowResponse, TerminatedIsClosing
<1>20. CASE Close
  <2>1. mContext.id \in Nat /\ mContext.path \in Paths
    BY <1>0 DEF FuzzerContext
  <2>2. /\ ~mContext'.waitingForReport /\ mContext'.status = "NONE" /\ mContext'.reportedData = 0
    BY <1>20, <2>1, NewContextType DEF Close
  <2> QED
    BY <1>0, <1>20, <2>2 DEF Close, IInv, SilencedAtLimit, WaitsBelowLimit, AnsweredStatus,
                            ReportsFollowResponse, TerminatedIsClosing
<1>21. CASE OnDeviceConnected
  <2>1. CASE EnsureContextValidity
    <3>1. mContext' = WithStatus(mContext, "INVOKE_REQUEST")
      BY <1>21, <2>1 DEF OnDeviceConnected, WithStatus
    <3>2. /\ SamePath(mContext, mContext') /\ mContext'.status = "INVOKE_REQUEST"
          /\ mContext'.waitingForReport = mContext.waitingForReport
          /\ mContext'.reportedData = mContext.reportedData /\ mContext'.responses = mContext.responses
      BY <1>0, <3>1, StatusUpdate
    <3> QED
      BY <1>0, <1>21, <3>2, ContextStep DEF OnDeviceConnected, IInv, ReportsFollowResponse
  <2>2. CASE ~EnsureContextValidity
    BY <1>0, <1>21, <2>2, QuietStep DEF OnDeviceConnected
  <2> QED
    BY <2>1, <2>2
<1>22. ASSUME NEW sender \in Pending, OnResponse(sender) PROVE IInv'
  <2>1. PICK success \in BOOLEAN : OnInvokeResponse(sender, success)
    BY <1>22 DEF OnResponse
  <2>2. UNCHANGED <<pc, mSubscriptionTimeouts, canGenerateReport>>
    BY <1>22 DEF OnResponse
  <2>3. CASE mContext' = mContext
    BY <1>0, <2>2, <2>3, QuietStep
  <2>4. CASE mContext' # mContext
    <3>1. /\ SamePath(mContext, mContext')
          /\ mContext'.waitingForReport = mContext.waitingForReport
          /\ mContext'.status = "INVOKE_RESPONSE" /\ mContext'.responses # {}
      BY <1>0, <2>1, <2>4, AnswerStep
    <3> QED
      BY <1>0, <2>2, <3>1, ContextStep
  <2> QED
    BY <2>3, <2>4
<1>23. ASSUME NEW sender \in Pending, OnError(sender) PROVE IInv'
  <2>1. PICK success \in BOOLEAN : OnInvokeResponse(sender, success)
    BY <1>23 DEF OnError
  <2>2. UNCHANGED <<pc, mSubscriptionTimeouts, canGenerateReport>>
    BY <1>23 DEF OnError
  <2>3. CASE mContext' = mContext
    BY <1>0, <2>2, <2>3, QuietStep
  <2>4. CASE mContext' # mContext
    <3>1. /\ SamePath(mContext, mContext')
          /\ mContext'.waitingForReport = mContext.waitingForReport
          /\ mContext'.status = "INVOKE_RESPONSE" /\ mContext'.responses # {}
      BY <1>0, <2>1, <2>4, AnswerStep
    <3> QED
      BY <1>0, <2>2, <3>1, ContextStep
  <2> QED
    BY <2>3, <2>4
<1>24. CASE RequireSubscriptionReport
  <2>1. UNCHANGED <<pc, mSubscriptionTimeouts, canGenerateReport>>
    BY <1>24 DEF RequireSubscriptionReport
  <2>2. CASE mContext' = mContext
    BY <1>0, <2>1, <2>2, QuietStep
  <2>3. CASE mContext' # mContext
    BY <1>0, <1>24, <2>1, <2>3, RequireStep, ContextStep DEF IInv, AnsweredStatus, ReportsFollowResponse
  <2> QED
    BY <2>2, <2>3
<1>25. CASE OnSubscriptionReport
  BY <1>0, <1>25, ReportStep, ContextStep
     DEF OnSubscriptionReport, IInv, AnsweredStatus, ReportsFollowResponse
<1> QED
  BY <1>1, <1>2, <1>3, <1>4, <1>5, <1>6, <1>7, <1>8, <1>9, <1>10, <1>11, <1>12, <1>13, <1>14,
     <1>15, <1>16, <1>17, <1>18, <1>19, <1>20, <1>21, <1>22, <1>23, <1>24, <1>25
     DEF Next, CommandThread, EventLoopWork

\* The invariant holds before the first test.
LEMMA InvInit == Init => IInv
<1> SUFFICES ASSUME Init
             PROVE  IInv
  OBVIOUS
<1>1. PICK path \in Paths : mContext = NewContext(0, path, "NONE")
  BY DEF Init
<1>2. /\ mContext \in FuzzerContext /\ ~mContext.waitingForReport
      /\ mContext.status = "NONE" /\ mContext.reportedData = 0
  BY <1>1, NewContextType
<1>3. canGenerateReport \in [Paths -> BOOLEAN]
  BY Zenon DEF Init
<1>4. TypeOK
  <2>1. pc = "idle" /\ loop = "poll" /\ queue = <<>> /\ mCommandSender = <<>>
    BY Zenon DEF Init
  <2>2. /\ result \in Errors \cup {"NO_ERROR"} /\ mCommandExitStatus \in Errors \cup {"NO_ERROR"}
        /\ mError \in Errors \cup {"NO_ERROR"}
    BY Zenon DEF Init, Errors
  <2>3. consecutiveTimeouts \in Nat /\ nextId \in Nat /\ reports \in Nat
    BY DEF Init
  <2>4. /\ waitingForResponse \in BOOLEAN /\ connecting \in BOOLEAN /\ alive \in BOOLEAN
        /\ waitOutlastsSender \in BOOLEAN
    BY Zenon DEF Init
  <2>5. mSubscriptionTimeouts \in [Paths -> Nat]
    BY DEF Init
  <2> QED
    BY <1>2, <1>3, <2>1, <2>2, <2>3, <2>4, <2>5 DEF TypeOK
<1>5. SilencedAtLimit
  <2>1. ASSUME NEW p \in Paths
        PROVE  /\ mSubscriptionTimeouts[p] <= kMaxSubscriptionTimeouts
               /\ mSubscriptionTimeouts[p] < kMaxSubscriptionTimeouts
    BY FuzzerAssumption DEF Init
  <2>2. ASSUME NEW p \in Paths
        PROVE  canGenerateReport[p]
    BY Zenon DEF Init
  <2> QED
    BY <2>1, <2>2, Zenon DEF SilencedAtLimit
<1> QED
  BY <1>2, <1>4, <1>5 DEF Init, IInv, WaitsBelowLimit, AnsweredStatus, ReportsFollowResponse,
     TerminatedIsClosing

\* The inductive invariant holds in every state of the fuzzer's test loop.
LEMMA InvHolds == Spec => []IInv
<1>1. IInv /\ UNCHANGED vars => IInv'
  BY DEF IInv, vars, commandVars, objectVars, loopVars, statsVars, TypeOK, SilencedAtLimit,
         WaitsBelowLimit, AnsweredStatus, ReportsFollowResponse, TerminatedIsClosing
<1> QED
  BY <1>1, InvInit, InvStep, PTL DEF Spec

\* The vector of senders, the queue of work, the context and the statistics stay
\* well-formed whatever answers, reports and timeouts come.
THEOREM FuzzerTypeOK == Spec => []TypeOK
<1>1. IInv => TypeOK
  BY DEF IInv
<1> QED
  BY <1>1, InvHolds, PTL

\* The counter of subscription timeouts of a path stops exactly at the limit and
\* agrees with the flag in the command spec (StatsMonitor), for any limit.
THEOREM SilencedAtLimitHolds == Spec => []SilencedAtLimit
<1>1. IInv => SilencedAtLimit
  BY DEF IInv
<1> QED
  BY <1>1, InvHolds, PTL

\* Reported data is kept only by a context that has its answer, for any number of
\* commands and reports (ContextManager::OnSubscriptionReport).
THEOREM ReportsFollowResponseHolds == Spec => []ReportsFollowResponse
<1>1. IInv => ReportsFollowResponse
  BY DEF IInv
<1> QED
  BY <1>1, InvHolds, PTL

\* A context terminated by a timeout takes in no answer, report or observation
\* until Close (ContextManager::EnsureContextValidity).
THEOREM TerminatedContextIsFrozenHolds == Spec => TerminatedContextIsFrozen
<1> DEFINE Frozen == mContext.status = "TERMINATED" /\ mContext'.status # "NONE"
                       => /\ mContext'.status = "TERMINATED"
                          /\ mContext'.responses = mContext.responses
                          /\ mContext'.reportedData = mContext.reportedData
                          /\ mContext'.observations = mContext.observations
<1>1. ASSUME IInv, Next, mContext.status = "TERMINATED"
      PROVE  Frozen
  <2> USE DEF sharedVars, objectVars, loopVars, statsVars, commandVars
  <2>1. /\ TypeOK /\ pc = "Close" /\ ~EnsureContextValidity
        /\ mContext \in FuzzerContext
    BY <1>1 DEF IInv, TypeOK, TerminatedIsClosing, EnsureContextValidity
  <2>2. CASE Close
    <3>1. mContext.id \in Nat /\ mContext.path \in Paths
      BY <2>1 DEF FuzzerContext
    <3> QED
      BY <2>2, <3>1, NewContextType DEF Close
  <2>3. CASE RequireSubscriptionReport
    BY <2>1, <2>3, RequireStep, <1>1
  <2>4. CASE OnSubscriptionReport
    BY <2>1, <2>4, ReportStep, <1>1
  <2>5. CASE OnDeviceConnected
    BY <2>1, <2>5, <1>1 DEF OnDeviceConnected
  <2>6. ASSUME NEW sender \in Pending, OnResponse(sender) \/ OnError(sender)
        PROVE  Frozen
    BY <2>1, <2>6, <1>1 DEF OnResponse, OnError, OnInvokeResponse
  <2>7. CASE RunQueuedCommand \/ RunCommandCleanup \/ OnDeviceConnectionFailure \/ OnDone \/ NotifyResponse
    BY <2>7, <1>1 DEF RunQueuedCommand, RunCommandCleanup, OnDeviceConnectionFailure, OnDone, NotifyResponse
  <2>8. ASSUME CommandThread, ~Close
        PROVE  FALSE
    BY <2>1, <2>8 DEF CommandThread, SkipTestCase, StartWaiting, MayContinue, ResponseNotified,
       ResponseTimedOut, SetTimeoutStatus, ReadStatus, ScheduleCleanup, CleanupNotified,
       OnResponseTimeout, EnterReportWait, CommandFailed, ReportNotified, ReportTimedOut, EndOfTests
  <2> QED
    BY <1>1, <2>2, <2>3, <2>4, <2>5, <2>6, <2>7, <2>8 DEF Next, EventLoopWork
<1>2. IInv /\ [Next]_vars => [Frozen]_vars
  BY <1>1
<1> QED
  BY <1>2, InvHolds, PTL DEF Spec, TerminatedContextIsFrozen

----------------------------------------------------------------------------
\* Where the event loop stands: queued work, a connection attempt, the number of
\* senders, and the place in the current handler.
LoopAt(work, attempt, senders, place) ==
    /\ queue = work /\ connecting = attempt
    /\ Len(mCommandSender) = senders /\ loop = place

Rests == LoopAt(<<>>, FALSE, 0, "poll")

\* The context as Initialize made it, whatever orphaned reports came.
Unanswered ==
    /\ mContext.responses = {} /\ mContext.observations = 0 /\ ~mContext.waitingForReport

\* What the event loop still owes the command that the command thread waits for:
\* exactly one thing.
OwesCommand ==
    \/ LoopAt(<<"RunQueuedCommand">>, FALSE, 0, "poll") /\ Unanswered
    \/ LoopAt(<<>>, TRUE, 0, "poll") /\ Unanswered
    \/ /\ LoopAt(<<>>, FALSE, 1, "poll") /\ Unanswered
       /\ mCommandSender[1].for = mContext.id
    \/ LoopAt(<<>>, FALSE, 1, "RequireSubscriptionReport") /\ mContext.observations = 0
    \/ LoopAt(<<>>, FALSE, 1, "OnDone")
    \/ LoopAt(<<>>, FALSE, 0, "NotifyResponse")

OwesCleanup ==
    \/ LoopAt(<<"RunCommandCleanup">>, FALSE, 0, "poll")
    \/ LoopAt(<<>>, FALSE, 0, "NotifyResponse")

\* The two threads take turns.
TakeTurns ==
    /\ pc # "TimedOut"
    /\ mContext.status = "NONE" <=> pc \in {"idle", "ended"}
    /\ pc = "WaitForResponse" => mContext.status # "TERMINATED"
    /\ \/ Rests /\ (pc \in {"WaitForResponse", "WaitForCleanup"} => ~waitingForResponse)
       \/ pc = "WaitForResponse" /\ waitingForResponse /\ OwesCommand
       \/ pc = "WaitForCleanup" /\ waitingForResponse /\ OwesCleanup

\* A context that was observed is not waited on any more.
ObservedOnce ==
    /\ mContext.observations \in {0, 1}
    /\ mContext.observations = 1 => ~mContext.waitingForReport /\ pc # "WaitForReport"

OutlastInv ==
    waitOutlastsSender =>
        /\ alive
        /\ TakeTurns
        /\ ObservedOnce
        /\ mContext.responses \subseteq {mContext.id}

\* One piece of work comes and goes.
LEMMA OneWork ==
    ASSUME NEW w \in Works
    PROVE  /\ Append(<<>>, w) = <<w>>
           /\ <<w>> # <<>> /\ Head(<<w>>) = w /\ Tail(<<w>>) = <<>>
  OBVIOUS

\* One sender comes, finishes and goes.
LEMMA OneSender ==
    ASSUME NEW s \in Senders
    PROVE  /\ \A id \in Nat : Len(s) = 0 =>
                LET a == Append(s, [for |-> id, done |-> FALSE])
                IN Len(a) = 1 /\ a[1].for = id
           /\ \A i \in 1 .. Len(s) : Len([s EXCEPT ![i].done = TRUE]) = Len(s)
           /\ Len(s) = 1 => Len(SubSeq(s, 2, Len(s))) = 0
<1> DEFINE S == [for : Nat, done : BOOLEAN]
<1>1. s \in Seq(S)
  BY DEF Senders
<1>2. ASSUME NEW id \in Nat, Len(s) = 0
      PROVE  LET a == Append(s, [for |-> id, done |-> FALSE])
             IN Len(a) = 1 /\ a[1].for = id
  <2> DEFINE r == [for |-> id, done |-> FALSE]
  <2>1. r \in S /\ r.for = id
    OBVIOUS
  <2> HIDE DEF S, r
  <2>2. Len(Append(s, r)) = 1 /\ Append(s, r)[1] = r
    BY <1>1, <1>2, <2>1
  <2> QED
    BY <2>1, <2>2 DEF r
<1>3. ASSUME NEW i \in 1 .. Len(s)
      PROVE  Len([s EXCEPT ![i].done = TRUE]) = Len(s)
  <2> HIDE DEF S
  <2> QED
    BY <1>1
<1>4. ASSUME Len(s) = 1
      PROVE  Len(SubSeq(s, 2, Len(s))) = 0
  <2> HIDE DEF S
  <2> QED
    BY <1>1, <1>4
<1> QED
  BY <1>2, <1>3, <1>4

\* Where a step of the command thread leaves the event loop alone.
LEMMA RestsStep ==
    ASSUME Rests, UNCHANGED <<queue, connecting, mCommandSender, loop>>
    PROVE  Rests'
  BY DEF Rests, LoopAt

\* The parts of the invariant that hold of a context that stays as it was.
LEMMA SameContext ==
    ASSUME ObservedOnce, mContext.responses \subseteq {mContext.id}, mContext' = mContext,
           pc' = "WaitForReport" => pc = "WaitForReport" \/ mContext.waitingForReport
    PROVE  ObservedOnce' /\ mContext'.responses \subseteq {mContext'.id}
  BY DEF ObservedOnce

\* The command thread waits for one thing at a time.
LEMMA CommandThreadTurn ==
    ASSUME IInv, TypeOK', OutlastInv, waitOutlastsSender, CommandThread
    PROVE  alive' /\ TakeTurns' /\ ObservedOnce' /\ mContext'.responses \subseteq {mContext'.id}
<1> USE DEF sharedVars, objectVars, loopVars, statsVars, commandVars
<1>0. /\ TypeOK /\ mContext \in FuzzerContext /\ alive /\ TakeTurns /\ ObservedOnce
      /\ mContext.responses \subseteq {mContext.id}
      /\ mContext.id \in Nat /\ mContext.path \in Paths
  BY DEF IInv, TypeOK, OutlastInv, FuzzerContext
<1>1. ASSUME UNCHANGED <<alive, mContext, waitingForResponse, queue, connecting, mCommandSender, loop>>,
             Rests, pc' # "TimedOut", pc' # "WaitForResponse",
             pc' \in {"idle", "ended"} <=> pc \in {"idle", "ended"},
             pc' # "WaitForCleanup",
             pc' = "WaitForReport" => pc = "WaitForReport" \/ mContext.waitingForReport
      PROVE  alive' /\ TakeTurns' /\ ObservedOnce' /\ mContext'.responses \subseteq {mContext'.id}
  <2>1. ObservedOnce' /\ mContext'.responses \subseteq {mContext'.id}
    BY <1>0, <1>1, SameContext
  <2>2. Rests'
    BY <1>1, RestsStep
  <2> QED
    BY <1>0, <1>1, <2>1, <2>2 DEF TakeTurns
<1>2. CASE SkipTestCase
  BY <1>0, <1>1, <1>2 DEF SkipTestCase, MayContinue, TakeTurns
<1>3. CASE ResponseNotified
  BY <1>0, <1>1, <1>3 DEF ResponseNotified, TakeTurns
<1>4. CASE ResponseTimedOut
  BY <1>4 DEF ResponseTimedOut
<1>5. CASE SetTimeoutStatus
  BY <1>0, <1>5 DEF SetTimeoutStatus, TakeTurns
<1>6. CASE ReadStatus
  BY <1>0, <1>1, <1>6 DEF ReadStatus, TakeTurns
<1>7. CASE CleanupNotified
  BY <1>0, <1>1, <1>7 DEF CleanupNotified, TakeTurns
<1>8. CASE EnterReportWait
  BY <1>0, <1>1, <1>8 DEF EnterReportWait, TakeTurns
<1>9. CASE CommandFailed
  BY <1>0, <1>1, <1>9 DEF CommandFailed, TakeTurns
<1>10. CASE EndOfTests
  BY <1>0, <1>1, <1>10 DEF EndOfTests, TakeTurns
<1>11. ASSUME NEW path \in Paths, StartWaiting(path)
       PROVE  alive' /\ TakeTurns' /\ ObservedOnce' /\ mContext'.responses \subseteq {mContext'.id}
  <2>1. mContext.status = "NONE" /\ Rests
    BY <1>0, <1>11 DEF StartWaiting, MayContinue, TakeTurns
  <2>2. /\ mContext' = NewContext(nextId, path, "INITIALIZED") /\ nextId \in Nat
        /\ queue' = Append(queue, "RunQueuedCommand") /\ waitingForResponse'
        /\ pc' = "WaitForResponse" /\ UNCHANGED <<alive, connecting, mCommandSender, loop>>
    BY <1>0, <1>11, <2>1 DEF StartWaiting, RunOnMatterQueue, IsInitialized, TypeOK
  <2>3. /\ mContext'.status = "INITIALIZED" /\ ~mContext'.waitingForReport
        /\ mContext'.observations = 0 /\ mContext'.responses = {}
    BY <2>2, NewContextType
  <2>4. OwesCommand'
    BY <2>1, <2>2, <2>3, OneWork DEF OwesCommand, Rests, LoopAt, Unanswered, Works
  <2> QED
    BY <1>0, <2>2, <2>3, <2>4 DEF TakeTurns, ObservedOnce
<1>12. CASE ScheduleCleanup
  <2>1. mContext.status # "NONE" /\ Rests /\ pc = "Cleanup"
    BY <1>0, <1>12 DEF ScheduleCleanup, TakeTurns
  <2>2. /\ mContext' = mContext
        /\ queue' = Append(queue, "RunCommandCleanup") /\ waitingForResponse'
        /\ pc' = "WaitForCleanup" /\ UNCHANGED <<alive, connecting, mCommandSender, loop>>
    BY <1>12, <2>1 DEF ScheduleCleanup, RunOnMatterQueue, IsInitialized
  <2>3. OwesCleanup'
    BY <2>1, <2>2, OneWork DEF OwesCleanup, Rests, LoopAt, Works
  <2>4. ObservedOnce' /\ mContext'.responses \subseteq {mContext'.id}
    BY <1>0, <2>2, SameContext
  <2> QED
    BY <1>0, <2>1, <2>2, <2>3, <2>4 DEF TakeTurns
<1>13. CASE OnResponseTimeout
  <2>1. /\ mContext.status # "NONE" /\ Rests /\ pc = "Conclude" /\ pc' = "Close"
        /\ UNCHANGED <<alive, queue, connecting, mCommandSender, loop, waitingForResponse>>
    BY <1>0, <1>13 DEF OnResponseTimeout, TakeTurns
  <2>2. /\ mContext'.status # "NONE" /\ mContext'.waitingForReport = mContext.waitingForReport
        /\ mContext'.observations = mContext.observations
        /\ mContext'.responses = mContext.responses /\ mContext'.id = mContext.id
    <3>1. CASE EnsureContextValidity
      <4>1. mContext' = WithStatus(mContext, "TERMINATED")
        BY <1>13, <3>1 DEF OnResponseTimeout, WithStatus
      <4> QED
        BY <1>0, <4>1, StatusUpdate DEF SamePath
    <3>2. CASE ~EnsureContextValidity
      BY <1>13, <2>1, <3>2 DEF OnResponseTimeout
    <3> QED
      BY <3>1, <3>2
  <2>3. Rests'
    BY <2>1, RestsStep
  <2> QED
    BY <1>0, <2>1, <2>2, <2>3 DEF TakeTurns, ObservedOnce
<1>14. CASE ReportNotified
  <2>1. /\ mContext.status # "NONE" /\ Rests /\ pc = "WaitForReport" /\ pc' = pc
        /\ UNCHANGED <<alive, queue, connecting, mCommandSender, loop, waitingForResponse>>
        /\ mContext' = WithWait(mContext, TRUE)
    BY <1>0, <1>14 DEF ReportNotified, TakeTurns, WithWait
  <2>2. /\ mContext'.status = mContext.status
        /\ mContext'.observations = mContext.observations
        /\ mContext'.responses = mContext.responses /\ mContext'.id = mContext.id
    BY <1>0, <2>1, WaitUpdate DEF SamePath
  <2>3. Rests'
    BY <2>1, RestsStep
  <2> QED
    BY <1>0, <2>1, <2>2, <2>3 DEF TakeTurns, ObservedOnce
<1>15. CASE ReportTimedOut
  <2>1. /\ Rests /\ pc = "WaitForReport" /\ pc' = "Close"
        /\ UNCHANGED <<alive, queue, connecting, mCommandSender, loop, waitingForResponse>>
    BY <1>0, <1>15 DEF ReportTimedOut, TakeTurns
  <2>2. /\ mContext'.status = "SUBSCRIPTION_RESPONSE" /\ mContext'.waitingForReport = FALSE
        /\ mContext'.observations = mContext.observations + 1
        /\ mContext'.responses = mContext.responses /\ mContext'.id = mContext.id
    BY <1>0, <1>15, TimeoutStep DEF SamePath
  <2>3. mContext.observations = 0
    BY <1>0, <2>1 DEF ObservedOnce
  <2>4. Rests'
    BY <2>1, RestsStep
  <2> QED
    BY <1>0, <2>1, <2>2, <2>3, <2>4 DEF TakeTurns, ObservedOnce
<1>16. CASE Close
  <2>1. /\ Rests /\ pc = "Close" /\ pc' = "idle"
        /\ UNCHANGED <<alive, queue, connecting, mCommandSender, loop, waitingForResponse>>
        /\ mContext' = NewContext(mContext.id, mContext.path, "NONE")
    BY <1>0, <1>16 DEF Close, TakeTurns
  <2>2. /\ mContext'.status = "NONE" /\ mContext'.observations = 0 /\ mContext'.responses = {}
    BY <1>0, <2>1, NewContextType
  <2>3. Rests'
    BY <2>1, RestsStep
  <2> QED
    BY <1>0, <2>1, <2>2, <2>3 DEF TakeTurns, ObservedOnce
<1> QED
  BY <1>2, <1>3, <1>4, <1>5, <1>6, <1>7, <1>8, <1>9, <1>10, <1>11, <1>12, <1>13, <1>14, <1>15,
     <1>16 DEF CommandThread

\* The event loop does what it owes and nothing else.
LEMMA EventLoopTurn ==
    ASSUME IInv, TypeOK', OutlastInv, waitOutlastsSender, EventLoopWork \/ OnSubscriptionReport
    PROVE  alive' /\ TakeTurns' /\ ObservedOnce' /\ mContext'.responses \subseteq {mContext'.id}
<1> USE DEF sharedVars, objectVars, loopVars, statsVars, commandVars
<1>0. /\ TypeOK /\ mContext \in FuzzerContext /\ alive /\ TakeTurns /\ ObservedOnce
      /\ mContext.responses \subseteq {mContext.id} /\ mContext.id \in Nat
      /\ mCommandSender \in Senders
  BY DEF IInv, TypeOK, OutlastInv, FuzzerContext, Senders
<1>1. CASE RunQueuedCommand
  <2>1. /\ loop = "poll" /\ queue # <<>> /\ Head(queue) = "RunQueuedCommand"
        /\ queue' = Tail(queue)
        /\ \/ connecting' = TRUE /\ loop' = loop
           \/ loop' = "NotifyResponse" /\ connecting' = connecting
        /\ UNCHANGED <<alive, pc, mContext, waitingForResponse, mCommandSender>>
    BY <1>1 DEF RunQueuedCommand, SetCommandExitStatus
  <2>2. /\ pc = "WaitForResponse" /\ waitingForResponse
        /\ LoopAt(<<"RunQueuedCommand">>, FALSE, 0, "poll") /\ Unanswered
    BY <1>0, <2>1, OneWork DEF TakeTurns, Rests, OwesCommand, OwesCleanup, LoopAt, Works
  <2>3. queue' = <<>>
    BY <2>1, <2>2, OneWork DEF LoopAt, Works
  <2>4. OwesCommand'
    BY <2>1, <2>2, <2>3 DEF OwesCommand, LoopAt, Unanswered
  <2> QED
    BY <1>0, <2>1, <2>2, <2>4, SameContext DEF TakeTurns
<1>2. CASE RunCommandCleanup
  <2>1. /\ loop = "poll" /\ queue # <<>> /\ Head(queue) = "RunCommandCleanup"
        /\ queue' = Tail(queue) /\ loop' = "NotifyResponse" /\ connecting' = FALSE
        /\ UNCHANGED <<alive, pc, mContext, waitingForResponse, mCommandSender>>
    BY <1>2 DEF RunCommandCleanup
  <2>2. /\ pc = "WaitForCleanup" /\ waitingForResponse
        /\ LoopAt(<<"RunCommandCleanup">>, FALSE, 0, "poll")
    BY <1>0, <2>1, OneWork DEF TakeTurns, Rests, OwesCommand, OwesCleanup, LoopAt, Works
  <2>3. queue' = <<>>
    BY <2>1, <2>2, OneWork DEF LoopAt, Works
  <2>4. OwesCleanup'
    BY <2>1, <2>2, <2>3 DEF OwesCleanup, LoopAt
  <2> QED
    BY <1>0, <2>1, <2>2, <2>4, SameContext DEF TakeTurns
<1>3. ASSUME loop = "poll", connecting
      PROVE  /\ pc = "WaitForResponse" /\ waitingForResponse
             /\ LoopAt(<<>>, TRUE, 0, "poll") /\ Unanswered
             /\ EnsureContextValidity
  BY <1>0, <1>3 DEF TakeTurns, Rests, OwesCommand, OwesCleanup, LoopAt, EnsureContextValidity
<1>4. CASE OnDeviceConnected
  <2>1. /\ loop = "poll" /\ connecting /\ connecting' = FALSE
        /\ UNCHANGED <<alive, pc, waitingForResponse, queue>>
    BY <1>4 DEF OnDeviceConnected
  <2>2. mContext' = WithStatus(mContext, "INVOKE_REQUEST")
    BY <1>3, <1>4, <2>1 DEF OnDeviceConnected, WithStatus
  <2>3. /\ mContext'.status = "INVOKE_REQUEST" /\ mContext'.id = mContext.id
        /\ mContext'.waitingForReport = mContext.waitingForReport
        /\ mContext'.observations = mContext.observations
        /\ mContext'.responses = mContext.responses
    BY <1>0, <2>2, StatusUpdate DEF SamePath
  <2>4. \/ /\ mCommandSender' = Append(mCommandSender, [for |-> mContext.id, done |-> FALSE])
           /\ loop' = "poll"
        \/ loop' = "NotifyResponse" /\ mCommandSender' = mCommandSender
    BY <1>4, <2>1 DEF OnDeviceConnected, SetCommandExitStatus
  <2>5. \/ Len(mCommandSender') = 1 /\ mCommandSender'[1].for = mContext.id /\ loop' = "poll"
        \/ Len(mCommandSender') = 0 /\ loop' = "NotifyResponse"
    BY <1>0, <1>3, <2>1, <2>4, OneSender DEF LoopAt
  <2>6. OwesCommand'
    BY <1>3, <2>1, <2>3, <2>5 DEF OwesCommand, LoopAt, Unanswered
  <2> QED
    BY <1>0, <1>3, <2>1, <2>3, <2>6 DEF TakeTurns, ObservedOnce
<1>5. CASE OnDeviceConnectionFailure
  <2>1. /\ loop = "poll" /\ connecting /\ connecting' = FALSE /\ loop' = "NotifyResponse"
        /\ UNCHANGED <<alive, pc, waitingForResponse, queue, mContext, mCommandSender>>
    BY <1>5 DEF OnDeviceConnectionFailure, SetCommandExitStatus
  <2>2. OwesCommand'
    BY <1>3, <2>1 DEF OwesCommand, LoopAt
  <2> QED
    BY <1>0, <1>3, <2>1, <2>2, SameContext DEF TakeTurns
<1>6. ASSUME NEW sender \in Pending, OnResponse(sender) \/ OnError(sender)
      PROVE  alive' /\ TakeTurns' /\ ObservedOnce' /\ mContext'.responses \subseteq {mContext'.id}
  <2>1. /\ loop = "poll" /\ FinishSender(sender)
        /\ UNCHANGED <<alive, pc, waitingForResponse, connecting, queue>>
    BY <1>6 DEF OnResponse, OnError
  <2>2. PICK success \in BOOLEAN :
          /\ OnInvokeResponse(sender, success)
          /\ loop' = IF success THEN "RequireSubscriptionReport" ELSE "OnDone"
    BY <1>6 DEF OnResponse, OnError
  <2>3. sender \in 1 .. Len(mCommandSender) /\ Len(mCommandSender) \in Nat
    BY <1>0 DEF Pending, Senders
  <2>4. /\ pc = "WaitForResponse" /\ waitingForResponse
        /\ LoopAt(<<>>, FALSE, 1, "poll") /\ Unanswered
        /\ mCommandSender[1].for = mContext.id /\ sender = 1
        /\ mContext.status \notin {"NONE", "TERMINATED"}
    <3>1. Len(mCommandSender) # 0
      BY <2>3
    <3>2. /\ pc = "WaitForResponse" /\ waitingForResponse /\ OwesCommand
          /\ mContext.status \notin {"NONE", "TERMINATED"}
      BY <1>0, <3>1 DEF TakeTurns, Rests, OwesCleanup, LoopAt
    <3>3. /\ LoopAt(<<>>, FALSE, 1, "poll") /\ Unanswered
          /\ mCommandSender[1].for = mContext.id
      BY <2>1, <3>1, <3>2 DEF OwesCommand, LoopAt
    <3>4. sender = 1
      BY <2>3, <3>3 DEF LoopAt
    <3> QED
      BY <3>2, <3>3, <3>4
  <2>5. /\ mContext'.waitingForReport = mContext.waitingForReport /\ mContext'.id = mContext.id
        /\ mContext'.status = "INVOKE_RESPONSE"
        /\ mContext'.responses = mContext.responses \cup {mContext.id}
        /\ mContext'.observations = IF success THEN mContext.observations
                                               ELSE mContext.observations + 1
    <3>1. EnsureContextValidity
      BY <2>4 DEF EnsureContextValidity
    <3> QED
      BY <1>0, <2>2, <2>4, <3>1, AnswerStep DEF SamePath
  <2>6. Len(mCommandSender') = 1
    BY <1>0, <2>1, <2>3, <2>4, OneSender DEF FinishSender, LoopAt
  <2>7. OwesCommand'
    BY <2>1, <2>2, <2>4, <2>5, <2>6 DEF OwesCommand, LoopAt, Unanswered
  <2> QED
    BY <1>0, <2>1, <2>4, <2>5, <2>7 DEF TakeTurns, ObservedOnce, Unanswered
<1>7. CASE RequireSubscriptionReport
  <2>1. /\ loop = "RequireSubscriptionReport"
        /\ UNCHANGED <<pc, waitingForResponse, mCommandSender, connecting, queue>>
    BY <1>7 DEF RequireSubscriptionReport
  <2>2. /\ pc = "WaitForResponse" /\ waitingForResponse /\ mContext.observations = 0
        /\ LoopAt(<<>>, FALSE, 1, "RequireSubscriptionReport")
        /\ mContext.status \notin {"NONE", "TERMINATED"}
    BY <1>0, <2>1 DEF TakeTurns, Rests, OwesCommand, OwesCleanup, LoopAt
  <2>3. loop' = "OnDone" /\ alive' = alive
    BY <1>7, <2>2 DEF RequireSubscriptionReport, IsInitialized
  <2>4. /\ mContext'.status = mContext.status /\ mContext'.id = mContext.id
        /\ mContext'.responses = mContext.responses
        /\ mContext'.observations = mContext.observations
    BY <1>0, <1>7, RequireStep DEF SamePath
  <2>5. OwesCommand'
    BY <2>1, <2>2, <2>3 DEF OwesCommand, LoopAt
  <2> QED
    BY <1>0, <2>1, <2>2, <2>3, <2>4, <2>5 DEF TakeTurns, ObservedOnce
<1>8. CASE OnDone
  <2>1. /\ loop = "OnDone" /\ mCommandSender' = SubSeq(mCommandSender, 2, Len(mCommandSender))
        /\ loop' = "NotifyResponse"
        /\ UNCHANGED <<alive, pc, mContext, waitingForResponse, connecting, queue>>
    BY <1>8 DEF OnDone, SetCommandExitStatus
  <2>2. pc = "WaitForResponse" /\ waitingForResponse /\ LoopAt(<<>>, FALSE, 1, "OnDone")
    BY <1>0, <2>1 DEF TakeTurns, Rests, OwesCommand, OwesCleanup, LoopAt
  <2>3. Len(mCommandSender') = 0
    BY <1>0, <2>1, <2>2, OneSender DEF LoopAt
  <2>4. OwesCommand'
    BY <2>1, <2>2, <2>3 DEF OwesCommand, LoopAt
  <2> QED
    BY <1>0, <2>1, <2>2, <2>4, SameContext DEF TakeTurns
<1>9. CASE NotifyResponse
  <2>1. /\ loop = "NotifyResponse"
        /\ UNCHANGED <<pc, mContext, connecting, mCommandSender, queue>>
    BY <1>9 DEF NotifyResponse
  <2>2. /\ pc \in {"WaitForResponse", "WaitForCleanup"}
        /\ LoopAt(<<>>, FALSE, 0, "NotifyResponse")
        /\ mContext.status # "NONE"
    BY <1>0, <2>1 DEF TakeTurns, Rests, OwesCommand, OwesCleanup, LoopAt
  <2>3. waitingForResponse' = FALSE /\ loop' = "poll" /\ alive' = alive
    BY <1>9, <2>2 DEF NotifyResponse, IsInitialized
  <2>4. Rests'
    BY <2>1, <2>2, <2>3 DEF Rests, LoopAt
  <2> QED
    BY <1>0, <2>1, <2>2, <2>3, <2>4, SameContext DEF TakeTurns
<1>10. CASE OnSubscriptionReport
  <2>1. /\ loop = "poll"
        /\ UNCHANGED <<alive, pc, waitingForResponse, connecting, mCommandSender, queue, loop>>
    BY <1>10 DEF OnSubscriptionReport
  <2>2. /\ mContext'.status = mContext.status /\ mContext'.responses = mContext.responses
        /\ mContext'.observations = mContext.observations
        /\ mContext'.waitingForReport = FALSE /\ mContext'.id = mContext.id
    BY <1>0, <1>10, ReportStep DEF SamePath
  <2>3. ObservedOnce' /\ mContext'.responses \subseteq {mContext'.id}
    BY <1>0, <2>1, <2>2 DEF ObservedOnce
  <2>4. (Rests => Rests') /\ (OwesCommand => OwesCommand') /\ (OwesCleanup => OwesCleanup')
    BY <2>1, <2>2 DEF Rests, OwesCommand, OwesCleanup, LoopAt, Unanswered
  <2> QED
    BY <1>0, <2>1, <2>2, <2>3, <2>4 DEF TakeTurns
<1> QED
  BY <1>1, <1>2, <1>4, <1>5, <1>6, <1>7, <1>8, <1>9, <1>10 DEF EventLoopWork

\* The event loop has nothing to do before the first test.
LEMMA OutlastInit == Init => OutlastInv
<1> SUFFICES ASSUME Init
             PROVE  OutlastInv
  OBVIOUS
<1>1. PICK path \in Paths : mContext = NewContext(0, path, "NONE")
  BY DEF Init
<1>2. /\ mContext.status = "NONE" /\ mContext.observations = 0 /\ mContext.responses = {}
  BY <1>1, NewContextType
<1>3. Rests /\ pc = "idle" /\ alive
  BY DEF Init, Rests, LoopAt
<1> QED
  BY <1>2, <1>3 DEF OutlastInv, TakeTurns, ObservedOnce

\* Every step keeps the turns.
LEMMA OutlastStep == IInv /\ IInv' /\ OutlastInv /\ [Next]_vars => OutlastInv'
<1> SUFFICES ASSUME IInv, IInv', OutlastInv, [Next]_vars, waitOutlastsSender'
             PROVE  alive' /\ TakeTurns' /\ ObservedOnce' /\ mContext'.responses \subseteq {mContext'.id}
  BY DEF OutlastInv
<1>1. CASE Next
  <2>1. waitOutlastsSender /\ (CommandThread \/ EventLoopWork \/ OnSubscriptionReport)
    BY <1>1 DEF Next
  <2>2. TypeOK'
    BY DEF IInv
  <2> QED
    BY <2>1, <2>2, CommandThreadTurn, EventLoopTurn
<1>2. CASE UNCHANGED vars
  BY <1>2 DEF vars, commandVars, objectVars, loopVars, statsVars, OutlastInv, TakeTurns, Rests,
     LoopAt, Unanswered, OwesCommand, OwesCleanup, ObservedOnce
<1> QED
  BY <1>1, <1>2

\* When no wait of the command thread gives up before the sender does, every callback
\* of ContextManager finds the context of the command it belongs to, and the copy of
\* the device state is moved away once, for any number of commands and reports.
THEOREM CallbacksMeetTheirContextHolds == Spec => []CallbacksMeetTheirContext
<1>1. IInv /\ OutlastInv => CallbacksMeetTheirContext
  BY DEF OutlastInv, ObservedOnce, CallbacksMeetTheirContext
<1> QED
  BY <1>1, InvHolds, OutlastInit, OutlastStep, PTL DEF Spec
===============================================================================
