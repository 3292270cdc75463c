---------------------------- MODULE CheckInNumbers ----------------------------
(***************************************************************************)
(* The Check-In counter of an intermittently connected device:             *)
(* CheckInCounter (protocols/secure_channel/CheckInCounter.cpp) as the     *)
(* ICDManager uses it (app/icd/server/ICDManager.cpp).  A Check-In message *)
(* carries the counter AFTER it is advanced, the initial value is random,  *)
(* and two test event triggers jump over half or all of the range.         *)
(***************************************************************************)
EXTENDS PersistedCounter

VARIABLE
    sent \* history: the values of all Check-In messages, in any boot

checkInVars == <<counterVars, sent>>

CheckInTypeOK ==
    /\ CounterTypeOK
    /\ sent \subseteq Values

CheckInInit ==
    /\ CounterInit
    /\ sent = {}

\* ICDManager::Init.
CheckInBoot(ok) ==
    /\ InitCounter(ok)
    /\ UNCHANGED sent

GetNextCheckInCounterValue == Wrap(mCounterValue + 1)

\* SendCheckInMsgs with at least one client to send to: the value is read
\* first, the counter advances once, errors are only logged.
SendCheckInMsgs(ok) ==
    /\ up
    /\ sent' = sent \cup {GetNextCheckInCounterValue}
    /\ Advance(ok)

Jump(n, ok) ==
    /\ up
    /\ AdvanceBy(n, ok)
    /\ UNCHANGED sent

\* InvalidateHalfCheckInCounterValues and InvalidateAllCheckInCounterValues.
InvalidateHalfCheckInCounterValues(ok) == Jump(MaxValue \div 2, ok)
InvalidateAllCheckInCounterValues(ok) == Jump(MaxValue, ok)

CheckInReboot ==
    /\ LosePower
    /\ UNCHANGED sent

CheckInNext ==
    \/ \E ok \in WriteResults : CheckInBoot(ok)
    \/ \E ok \in WriteResults : SendCheckInMsgs(ok)
    \/ \E ok \in WriteResults : InvalidateHalfCheckInCounterValues(ok)
    \/ \E ok \in WriteResults : InvalidateAllCheckInCounterValues(ok)
    \/ CheckInReboot

CheckInSpec == CheckInInit /\ [][CheckInNext]_checkInVars

-------------------------------------------------------------------------------
\* The next Check-In message carries a value above all values ever sent, over
\* reboots, failed writes and jumps, as long as nothing in the counter wrapped
\* and no reboot fell into an epoch whose write failed.
FreshCheckInValue ==
    up /\ ~wrapped /\ ~lostEpoch =>
        \A n \in sent : n < GetNextCheckInCounterValue

\* What a reboot will resume from is at least every value sent.
CheckInStorageAhead ==
    ~up /\ ~wrapped /\ ~lostEpoch => \A n \in sent : n <= storage

\* The inductive invariant behind FreshCheckInValue.
CheckInIndInv ==
    /\ CheckInTypeOK
    /\ up => storage # NotFound
    /\ up /\ ~unwritten => storage = mNextEpoch
    /\ storage = NotFound => sent = {}
    /\ up /\ ~wrapped => mCounterValue < mNextEpoch
    /\ VerifyNeverFails
    /\ up /\ ~wrapped /\ ~lostEpoch => \A n \in sent : n <= mCounterValue
    /\ CheckInStorageAhead
===============================================================================
