--------------------------- MODULE FuzzerContext ---------------------------
(***************************************************************************)
(* The test loop of the fuzzer: FuzzingStartCommand::RunCommand executes   *)
(* one generated invoke command after the other on the command thread,     *)
(* while the Matter event loop runs the command, the callbacks of its      *)
(* CommandSender and those of the subscriptions set up beforehand.  The    *)
(* two threads meet in ContextManager, under its mutex: one action below   *)
(* is one critical section, or one access to the command object's own      *)
(* unlocked members (mCommandExitStatus, mError).                          *)
(*                                                                         *)
(* Modelled: the testing phase, in mode TESTING, where every command is    *)
(* "any command-by-id" - one command object, hence one mutex, one flag     *)
(* mWaitingForResponse and one vector of senders for the whole loop.  Left *)
(* out: timestamps, the payloads of answers and reports, the tuner.        *)
(* Dereferencing a null mContext, like VerifyOrDie, ends the process       *)
(* (alive = FALSE).                                                        *)
(***************************************************************************)
EXTENDS Naturals, Sequences

CONSTANTS Paths,                     \* the command paths of the generated tests
          kMaxSubscriptionTimeouts,  \* StatsMonitor.h
          kMaxConsecutiveTimeouts,   \* ForwardDeclarations.h
          MaxContexts, MaxReports    \* bounds on contexts and on reports

ASSUME FuzzerAssumption ==
    /\ kMaxSubscriptionTimeouts \in Nat \ {0} /\ kMaxConsecutiveTimeouts \in Nat
    /\ MaxContexts \in Nat /\ MaxReports \in Nat

VARIABLES
    pc,                   \* where the command thread is
    result,               \* the status RunFuzzing returned to ExecuteCommand
    consecutiveTimeouts,  \* of the test loop
    mContext,             \* the FuzzerContext, status "NONE" when it is null
    nextId,               \* the id Initialize gives the next context
    waitingForResponse,   \* the flag of the command object
    mCommandExitStatus, mError,   \* of the command object, not protected by the mutex
    mCommandSender,       \* its CommandSenders, oldest first
    connecting,           \* are its device connection callbacks registered?
    queue,                \* work scheduled on the event loop
    loop,                 \* where the event loop is in its current handler
    mSubscriptionTimeouts, canGenerateReport,   \* StatsMonitor, command spec
    reports,              \* number of reports the device has sent so far
    waitOutlastsSender,   \* was the fuzzer started with a --timeout beyond the
                          \* senders' own response timeout?
    alive

commandVars == <<pc, result, consecutiveTimeouts, nextId>>
objectVars  == <<mCommandExitStatus, mError, mCommandSender, connecting>>
loopVars    == <<queue, loop, reports>>
statsVars   == <<mSubscriptionTimeouts, canGenerateReport>>
sharedVars  == <<mContext, waitingForResponse, objectVars, loopVars, statsVars, alive>>
vars == <<commandVars, mContext, waitingForResponse, objectVars, loopVars, statsVars, alive,
          waitOutlastsSender>>

Errors == {"FAILURE", "TIMEOUT"}

\* responses: the contexts whose commands the recorded answers were sent for;
\* observations: how often the copy of the device state was handed to
\* AddObservation (which moves it away).
FuzzerContext ==
    [id : Nat, path : Paths, waitingForReport : BOOLEAN, reportedData : Nat, observations : Nat,
     responses : SUBSET Nat,
     status : {"NONE", "INITIALIZED", "INVOKE_REQUEST", "INVOKE_RESPONSE",
               "SUBSCRIPTION_RESPONSE", "TERMINATED"}]

NewContext(id, path, status) ==
    [id |-> id, path |-> path, waitingForReport |-> FALSE, reportedData |-> 0,
     observations |-> 0, responses |-> {}, status |-> status]

IsInitialized == mContext.status # "NONE"
\* Mutant: a terminated context still counts as valid.
EnsureContextValidityAnyStatus == IsInitialized

EnsureContextValidity == mContext.status \notin {"NONE", "TERMINATED"}

\* Senders that can still call back (a finished one may be left in the vector).
Pending == {i \in 1 .. Len(mCommandSender) : ~mCommandSender[i].done}

----------------------------------------------------------------------------
(* The command thread: the test loop, ExecuteCommand and CHIPCommand::Run. *)

\* Initialize or RequireResponse, then ScheduleWork; only the command thread
\* creates and destroys contexts, so nothing the event loop does separates them.
RunOnMatterQueue(work, fresh) ==
    /\ mContext' = IF IsInitialized THEN mContext ELSE fresh
    /\ nextId' = IF IsInitialized THEN nextId ELSE nextId + 1
    /\ waitingForResponse' = TRUE
    /\ queue' = Append(queue, work)

MayContinue == pc = "idle" /\ consecutiveTimeouts <= kMaxConsecutiveTimeouts

\* The generated arguments could not be parsed: TrackSkipped, no context.
SkipTestCase ==
    /\ MayContinue
    /\ consecutiveTimeouts' = 0
    /\ UNCHANGED <<pc, result, nextId, sharedVars>>

\* CHIPCommand::StartWaiting schedules RunQueuedCommand.
StartWaiting(path) ==
    /\ MayContinue /\ nextId < MaxContexts
    /\ RunOnMatterQueue("RunQueuedCommand", NewContext(nextId, path, "INITIALIZED"))
    /\ pc' = "WaitForResponse"
    /\ UNCHANGED <<result, consecutiveTimeouts, objectVars, loop, reports, statsVars, alive>>

\* wait_until returns because the flag was cleared ...
ResponseNotified ==
    /\ pc = "WaitForResponse" /\ ~waitingForResponse
    /\ pc' = "ReadStatus"
    /\ UNCHANGED <<result, consecutiveTimeouts, nextId, sharedVars>>

\* ... or because the deadline passed.
ResponseTimedOut ==
    /\ pc = "WaitForResponse" /\ waitingForResponse
    /\ ~waitOutlastsSender
    /\ pc' = "TimedOut"
    /\ UNCHANGED <<result, consecutiveTimeouts, nextId, sharedVars>>

SetTimeoutStatus ==
    /\ pc = "TimedOut"
    /\ mCommandExitStatus' = "TIMEOUT"
    /\ pc' = "ReadStatus"
    /\ UNCHANGED <<result, consecutiveTimeouts, nextId, mContext, waitingForResponse, mError,
                   mCommandSender, connecting, loopVars, statsVars, alive>>

ReadStatus ==
    /\ pc = "ReadStatus"
    /\ result' = mCommandExitStatus
    /\ pc' = "Cleanup"
    /\ UNCHANGED <<consecutiveTimeouts, nextId, sharedVars>>

\* CHIPCommand::Run schedules the cleanup and waits for it (up to two hours,
\* after which VerifyOrDie: not modelled, CommandEnds shows it is not needed).
ScheduleCleanup ==
    /\ pc = "Cleanup"
    /\ RunOnMatterQueue("RunCommandCleanup", NewContext(nextId, mContext.path, "INITIALIZED"))
    /\ pc' = "WaitForCleanup"
    /\ UNCHANGED <<result, consecutiveTimeouts, objectVars, loop, reports, statsVars, alive>>

CleanupNotified ==
    /\ pc = "WaitForCleanup" /\ ~waitingForResponse
    /\ pc' = "Conclude"
    /\ UNCHANGED <<result, consecutiveTimeouts, nextId, sharedVars>>

OnResponseTimeout ==
    /\ pc = "Conclude" /\ result = "TIMEOUT"
    /\ mContext' = IF EnsureContextValidity THEN [mContext EXCEPT !.status = "TERMINATED"] ELSE mContext
    /\ pc' = "Close"
    /\ UNCHANGED <<result, consecutiveTimeouts, nextId, waitingForResponse, objectVars,
                   loopVars, statsVars, alive>>

\* WaitForSubscriptionReport, up to its first wait.
EnterReportWait ==
    /\ pc = "Conclude" /\ result = "NO_ERROR"
    /\ pc' = IF mContext.status = "INVOKE_RESPONSE" /\ mContext.waitingForReport
             THEN "WaitForReport" ELSE "Close"
    /\ UNCHANGED <<result, consecutiveTimeouts, nextId, sharedVars>>

CommandFailed ==
    /\ pc = "Conclude" /\ result \notin {"NO_ERROR", "TIMEOUT"}
    /\ pc' = "Close"
    /\ UNCHANGED <<result, consecutiveTimeouts, nextId, sharedVars>>

\* A report ended this wait: wait again, for a full timeout.
ReportNotified ==
    /\ pc = "WaitForReport" /\ ~mContext.waitingForReport
    /\ mContext' = [mContext EXCEPT !.waitingForReport = TRUE]
    /\ UNCHANGED <<commandVars, waitingForResponse, objectVars, loopVars, statsVars, alive>>

IncrementSubscriptionTimeouts(path) ==
    LET count == mSubscriptionTimeouts[path] + 1 IN
    /\ mSubscriptionTimeouts' = [mSubscriptionTimeouts EXCEPT ![path] = count]
    /\ canGenerateReport' = [canGenerateReport EXCEPT ![path] = @ /\ count < kMaxSubscriptionTimeouts]

\* Mutant: a report takes one timeout back instead of all.
ResetSubscriptionTimeoutsByOne(path) ==
    /\ mSubscriptionTimeouts' = [mSubscriptionTimeouts EXCEPT ![path] = @ - 1]
    /\ UNCHANGED canGenerateReport

ResetSubscriptionTimeouts(path) ==
    /\ mSubscriptionTimeouts' = [mSubscriptionTimeouts EXCEPT ![path] = 0]
    /\ UNCHANGED canGenerateReport

\* No report within the timeout: the rest of WaitForSubscriptionReport.
ReportTimedOut ==
    /\ pc = "WaitForReport" /\ mContext.waitingForReport
    /\ mContext' = [mContext EXCEPT !.status = "SUBSCRIPTION_RESPONSE", !.waitingForReport = FALSE,
                                    !.observations = @ + 1]
    /\ IF mContext.reportedData = 0 THEN IncrementSubscriptionTimeouts(mContext.path)
                                    ELSE ResetSubscriptionTimeouts(mContext.path)
    /\ pc' = "Close"
    /\ UNCHANGED <<result, consecutiveTimeouts, nextId, waitingForResponse, objectVars, loopVars, alive>>

Close ==
    /\ pc = "Close"
    /\ mContext' = NewContext(mContext.id, mContext.path, "NONE")
    /\ consecutiveTimeouts' = IF result = "TIMEOUT" THEN consecutiveTimeouts + 1 ELSE 0
    /\ result' = "NO_ERROR"      \* not read again before it is set
    /\ pc' = "idle"
    /\ UNCHANGED <<nextId, waitingForResponse, objectVars, loopVars, statsVars, alive>>

\* The file of tests is used up, a signal asked to stop, or too many timeouts.
EndOfTests ==
    /\ pc = "idle"
    /\ pc' = "ended"
    /\ UNCHANGED <<result, consecutiveTimeouts, nextId, sharedVars>>

CommandThread ==
    \/ SkipTestCase \/ \E path \in Paths : StartWaiting(path)
    \/ ResponseNotified \/ ResponseTimedOut \/ SetTimeoutStatus \/ ReadStatus
    \/ ScheduleCleanup \/ CleanupNotified
    \/ OnResponseTimeout \/ EnterReportWait \/ CommandFailed
    \/ ReportNotified \/ ReportTimedOut \/ Close \/ EndOfTests

----------------------------------------------------------------------------
(* The event loop: work scheduled by the command thread, callbacks of the  *)
(* connection attempt, of the senders and of the subscriptions.            *)

\* SetCommandExitStatus: the status, then NotifyResponse in a step of its own.
SetCommandExitStatus(status) ==
    /\ mCommandExitStatus' = status
    /\ loop' = "NotifyResponse"

\* RunCommand starts connecting to the device, or fails at once.
RunQueuedCommand ==
    /\ loop = "poll" /\ queue # <<>> /\ Head(queue) = "RunQueuedCommand"
    /\ queue' = Tail(queue)
    /\ \/ connecting' = TRUE /\ UNCHANGED <<mCommandExitStatus, loop>>
       \/ SetCommandExitStatus("FAILURE") /\ UNCHANGED connecting
    /\ UNCHANGED <<commandVars, mContext, waitingForResponse, mError, mCommandSender, reports, statsVars, alive>>

\* Mutant: the cleanup does not call StopWaiting.
RunCommandCleanupSilently ==
    /\ loop = "poll" /\ queue # <<>> /\ Head(queue) = "RunCommandCleanup"
    /\ queue' = Tail(queue)
    /\ mError' = "NO_ERROR"
    /\ connecting' = FALSE
    /\ UNCHANGED <<commandVars, mContext, waitingForResponse, mCommandExitStatus, mCommandSender,
                   loop, reports, statsVars, alive>>

\* Shutdown cancels the connection callbacks and resets mError; ClusterCommand
\* has no Cleanup of its own, so its senders stay.
RunCommandCleanup ==
    /\ loop = "poll" /\ queue # <<>> /\ Head(queue) = "RunCommandCleanup"
    /\ queue' = Tail(queue)
    /\ mError' = "NO_ERROR"
    /\ connecting' = FALSE
    /\ loop' = "NotifyResponse"
    /\ UNCHANGED <<commandVars, mContext, waitingForResponse, mCommandExitStatus, mCommandSender,
                   reports, statsVars, alive>>

\* Mutant: the command is reported as done as soon as its request is sent.
OnDeviceConnectedThenStop ==
    /\ loop = "poll" /\ connecting
    /\ connecting' = FALSE
    /\ mContext' = IF EnsureContextValidity THEN [mContext EXCEPT !.status = "INVOKE_REQUEST"] ELSE mContext
    /\ mCommandSender' = Append(mCommandSender, [for |-> mContext.id, done |-> FALSE])
    /\ SetCommandExitStatus("NO_ERROR")
    /\ UNCHANGED <<commandVars, waitingForResponse, mError, queue, reports, statsVars, alive>>

\* SendCommand: OnInvokeRequest, then the sender is created and its request sent.
OnDeviceConnected ==
    /\ loop = "poll" /\ connecting
    /\ connecting' = FALSE
    /\ mContext' = IF EnsureContextValidity THEN [mContext EXCEPT !.status = "INVOKE_REQUEST"] ELSE mContext
    /\ \/ /\ EnsureContextValidity
          /\ mCommandSender' = Append(mCommandSender, [for |-> mContext.id, done |-> FALSE])
          /\ UNCHANGED <<mCommandExitStatus, loop>>
       \/ SetCommandExitStatus("FAILURE") /\ UNCHANGED mCommandSender
    /\ UNCHANGED <<commandVars, waitingForResponse, mError, queue, reports, statsVars, alive>>

OnDeviceConnectionFailure ==
    /\ loop = "poll" /\ connecting
    /\ connecting' = FALSE
    /\ \E error \in Errors : SetCommandExitStatus(error)
    /\ UNCHANGED <<commandVars, mContext, waitingForResponse, mError, mCommandSender, queue, reports,
                   statsVars, alive>>

\* ContextManager::OnInvokeResponse: whichever context is active takes the answer.
OnInvokeResponse(sender, success) ==
    mContext' = IF EnsureContextValidity
                THEN [mContext EXCEPT !.status = "INVOKE_RESPONSE",
                                      !.responses = @ \cup {mCommandSender[sender].for},
                                      !.observations = IF success THEN @ ELSE @ + 1]
                ELSE mContext

FinishSender(sender) == mCommandSender' = [mCommandSender EXCEPT ![sender].done = TRUE]

OnResponse(sender) ==
    /\ loop = "poll"
    /\ FinishSender(sender)
    /\ \E success \in BOOLEAN :
         /\ OnInvokeResponse(sender, success)
         /\ mError' = IF success THEN mError ELSE "FAILURE"
         /\ loop' = IF success THEN "RequireSubscriptionReport" ELSE "OnDone"
    /\ UNCHANGED <<commandVars, waitingForResponse, mCommandExitStatus, connecting, queue, reports,
                   statsVars, alive>>

\* Mutant: off by one at the limit of subscription timeouts.
RequireSubscriptionReportOnceMore ==
    /\ loop = "RequireSubscriptionReport"
    /\ IF IsInitialized
       THEN /\ mContext' = [mContext EXCEPT !.waitingForReport =
                                @ \/ mSubscriptionTimeouts[mContext.path] <= kMaxSubscriptionTimeouts]
            /\ mError' \in {mError, "FAILURE"}
            /\ loop' = "OnDone"
            /\ UNCHANGED alive
       ELSE /\ alive' = FALSE
            /\ UNCHANGED <<mContext, mError, loop>>
    /\ UNCHANGED <<commandVars, waitingForResponse, mCommandExitStatus, mCommandSender, connecting, queue,
                   reports, statsVars>>

\* Dereferences mContext without a check; the response may also fail to decode.
RequireSubscriptionReport ==
    /\ loop = "RequireSubscriptionReport"
    /\ IF IsInitialized
       THEN /\ mContext' = [mContext EXCEPT !.waitingForReport =
                                @ \/ mSubscriptionTimeouts[mContext.path] < kMaxSubscriptionTimeouts]
            /\ mError' \in {mError, "FAILURE"}
            /\ loop' = "OnDone"
            /\ UNCHANGED alive
       ELSE /\ alive' = FALSE
            /\ UNCHANGED <<mContext, mError, loop>>
    /\ UNCHANGED <<commandVars, waitingForResponse, mCommandExitStatus, mCommandSender, connecting, queue,
                   reports, statsVars>>

\* An error answer, or the sender's own response timeout.
OnError(sender) ==
    /\ loop = "poll"
    /\ FinishSender(sender)
    /\ OnInvokeResponse(sender, FALSE)
    /\ mError' \in Errors
    /\ loop' = "OnDone"
    /\ UNCHANGED <<commandVars, waitingForResponse, mCommandExitStatus, connecting, queue, reports,
                   statsVars, alive>>

\* Frees the oldest sender, whichever one finished.
OnDone ==
    /\ loop = "OnDone"
    /\ mCommandSender' = SubSeq(mCommandSender, 2, Len(mCommandSender))
    /\ SetCommandExitStatus(mError)
    /\ UNCHANGED <<commandVars, mContext, waitingForResponse, mError, connecting, queue, reports,
                   statsVars, alive>>

\* Dereferences mContext without a check.
NotifyResponse ==
    /\ loop = "NotifyResponse"
    /\ IF IsInitialized
       THEN waitingForResponse' = FALSE /\ loop' = "poll" /\ UNCHANGED alive
       ELSE alive' = FALSE /\ UNCHANGED <<waitingForResponse, loop>>
    /\ UNCHANGED <<commandVars, mContext, objectVars, queue, reports, statsVars>>

\* Mutant: every report is data of the active context.
OnSubscriptionReportAlways ==
    /\ loop = "poll" /\ reports < MaxReports
    /\ reports' = reports + 1
    /\ mContext' = [mContext EXCEPT !.waitingForReport = FALSE, !.reportedData = @ + 1]
    /\ UNCHANGED <<commandVars, waitingForResponse, objectVars, queue, loop, statsVars, alive>>

\* A report counts in a context that has its response; in any other state of an
\* active context it is an orphan, and without a context it is only counted.
OnSubscriptionReport ==
    /\ loop = "poll" /\ reports < MaxReports
    /\ reports' = reports + 1
    /\ mContext' = [mContext EXCEPT !.waitingForReport = FALSE,
                                    !.reportedData = IF mContext.status = "INVOKE_RESPONSE" THEN @ + 1 ELSE @]
    /\ UNCHANGED <<commandVars, waitingForResponse, objectVars, queue, loop, statsVars, alive>>

\* What the event loop owes: queued work, and the end of every attempt it began.
EventLoopWork ==
    \/ RunQueuedCommand \/ RunCommandCleanup
    \/ OnDeviceConnected \/ OnDeviceConnectionFailure
    \/ \E sender \in Pending : OnResponse(sender) \/ OnError(sender)
    \/ RequireSubscriptionReport \/ OnDone \/ NotifyResponse

----------------------------------------------------------------------------
Init ==
    /\ pc = "idle" /\ result = "NO_ERROR" /\ consecutiveTimeouts = 0
    /\ \E path \in Paths : mContext = NewContext(0, path, "NONE")
    /\ nextId = 0
    /\ waitingForResponse = FALSE
    /\ mCommandExitStatus = "FAILURE"       \* CHIP_ERROR_INTERNAL
    /\ mError = "NO_ERROR" /\ mCommandSender = <<>> /\ connecting = FALSE
    /\ queue = <<>> /\ loop = "poll" /\ reports = 0
    /\ mSubscriptionTimeouts = [p \in Paths |-> 0]
    /\ canGenerateReport = [p \in Paths |-> TRUE]
    /\ alive = TRUE /\ waitOutlastsSender \in BOOLEAN

Next ==
    /\ alive
    /\ CommandThread \/ EventLoopWork \/ OnSubscriptionReport
    /\ UNCHANGED waitOutlastsSender

Spec == Init /\ [][Next]_vars

FairSpec ==
    /\ Spec
    /\ WF_vars(Next /\ CommandThread)
    /\ WF_vars(Next /\ EventLoopWork)

----------------------------------------------------------------------------
(* Properties *)

TypeOK ==
    /\ pc \in {"idle", "WaitForResponse", "TimedOut", "ReadStatus", "Cleanup", "WaitForCleanup",
               "Conclude", "WaitForReport", "Close", "ended"}
    /\ result \in Errors \cup {"NO_ERROR"} /\ consecutiveTimeouts \in Nat
    /\ mContext \in FuzzerContext /\ nextId \in Nat /\ waitingForResponse \in BOOLEAN
    /\ mCommandExitStatus \in Errors \cup {"NO_ERROR"} /\ mError \in Errors \cup {"NO_ERROR"}
    /\ mCommandSender \in Seq([for : Nat, done : BOOLEAN]) /\ connecting \in BOOLEAN
    /\ queue \in Seq({"RunQueuedCommand", "RunCommandCleanup"})
    /\ loop \in {"poll", "RequireSubscriptionReport", "OnDone", "NotifyResponse"}
    /\ reports \in Nat /\ alive \in BOOLEAN /\ waitOutlastsSender \in BOOLEAN
    /\ mSubscriptionTimeouts \in [Paths -> Nat] /\ canGenerateReport \in [Paths -> BOOLEAN]

\* A path whose commands were found not to generate reports stays so: the
\* counter stops at the limit, agrees with the flag in the command spec, and
\* is never reset from there.  (StatsMonitor::ResetSubscriptionTimeouts has a
\* branch for a silenced path that reports after all; it is never taken.)
SilencedAtLimit ==
    \A p \in Paths :
        /\ mSubscriptionTimeouts[p] <= kMaxSubscriptionTimeouts
        /\ canGenerateReport[p] <=> mSubscriptionTimeouts[p] < kMaxSubscriptionTimeouts

\* Reported data is only ever kept by a context that already has an answer:
\* reports that overtake the response, or come before the request of their
\* command went out, are orphans (ContextManager::OnSubscriptionReport).
ReportsFollowResponse == mContext.reportedData > 0 => mContext.responses # {}

\* A context that was terminated by a timeout takes in nothing more: no answer,
\* no report and no observation of the callbacks that still arrive before Close
\* (ContextManager::EnsureContextValidity).
TerminatedContextIsFrozen ==
    [][mContext.status = "TERMINATED" /\ mContext'.status # "NONE"
          => /\ mContext'.status = "TERMINATED"
             /\ mContext'.responses = mContext.responses
             /\ mContext'.reportedData = mContext.reportedData
             /\ mContext'.observations = mContext.observations]_vars

\* Every command ends: the command thread gets through both waits on the event
\* loop and the wait for reports, and is back at the test loop (or the process
\* is gone).  In particular the cleanup never needs its two-hour deadline
\* (CHIPCommand::Run, ContextManager::NotifyResponse).
CommandEnds == (pc \notin {"idle", "ended"}) ~> (pc = "idle" \/ ~alive)

\* If no wait gives up before the sender does, every callback finds a context,
\* the context it finds is that of the command it belongs to, and the context's
\* copy of the device state is moved into at most one observation
\* (ContextManager::NotifyResponse, RequireSubscriptionReport, OnInvokeResponse,
\* which have no other way to tell contexts apart).
CallbacksMeetTheirContext ==
    waitOutlastsSender =>
        /\ alive
        /\ mContext.responses \subseteq {mContext.id}
        /\ mContext.observations <= 1

\* Once the cleanup of a command has run and its context is closed, the command
\* object holds no sender that can still call back (CHIPCommand::Cleanup).
CleanupReleasesSenders == pc = "idle" /\ queue = <<>> => Pending = {}

\* A report that a context is waiting for finds the command thread blocked in the
\* wait of WaitForSubscriptionReport (ContextManager::OnSubscriptionReport).
ReportWakesSender ==
    [][mContext.waitingForReport /\ mContext'.reportedData > mContext.reportedData
          => pc = "WaitForReport"]_vars
=============================================================================
