----------------------------- MODULE EventNumbers -----------------------------
(***************************************************************************)
(* Event numbers: EventManagement stamps every logged event with           *)
(* mLastEventNumber and then draws the next one from the persisted global  *)
(* event counter (app/EventManagement.cpp, app/server/Server.cpp).         *)
(***************************************************************************)
EXTENDS PersistedCounter

VARIABLES
    mLastEventNumber, \* EventManagement::mLastEventNumber
    logged            \* history: every number given to an event, in any boot

vars == <<counterVars, mLastEventNumber, logged>>

TypeOK ==
    /\ CounterTypeOK
    /\ mLastEventNumber \in Values
    /\ logged \subseteq Values

Init ==
    /\ CounterInit
    /\ mLastEventNumber = 0
    /\ logged = {}

\* Server::Init with EventManagement::Init first, which sees the old value.
BootReadsCounterFirst(ok) ==
    /\ InitCounter(ok)
    /\ mLastEventNumber' = mCounterValue
    /\ UNCHANGED logged

\* Server::Init: the counter first, then EventManagement::Init reads it.
Boot(ok) ==
    /\ InitCounter(ok)
    /\ mLastEventNumber' = mCounterValue'
    /\ UNCHANGED logged

\* VendEventNumber: an error of Advance() is logged and otherwise ignored.
VendEventNumber(ok) ==
    /\ Advance(ok)
    /\ mLastEventNumber' = mCounterValue'

\* LogEventPrivate of an event that was written to the buffers.
LogEvent(ok) ==
    /\ up
    /\ logged' = logged \cup {mLastEventNumber}
    /\ VendEventNumber(ok)

Reboot ==
    /\ LosePower
    /\ UNCHANGED <<mLastEventNumber, logged>>

Next ==
    \/ \E ok \in WriteResults : Boot(ok)
    \/ \E ok \in WriteResults : LogEvent(ok)
    \/ Reboot

Spec == Init /\ [][Next]_vars

-------------------------------------------------------------------------------
\* No failure of the platform is in the way: no 64-bit rollover, and no
\* reboot inside an epoch whose start could not be written.
Undisturbed == ~wrapped /\ ~lostEpoch

\* The number the next event will get is larger than every number any event
\* got in this or an earlier boot, although VendEventNumber ignores the errors
\* of Advance() and flash writes may fail: a failed write hurts only if the
\* device reboots before the next epoch is written.
FreshEventNumber ==
    up /\ Undisturbed => \A n \in logged : n < mLastEventNumber

\* What a reboot will resume from is above every number given out.
StorageAhead ==
    ~up /\ Undisturbed => \A n \in logged : n < storage

\* The inductive invariant behind FreshEventNumber.
IndInv ==
    /\ TypeOK
    /\ up => storage # NotFound
    /\ up /\ ~unwritten => storage = mNextEpoch
    /\ storage = NotFound => logged = {}
    /\ up => mLastEventNumber = mCounterValue
    /\ up /\ ~wrapped => mCounterValue < mNextEpoch
    /\ ~wrapped => err # "CHIP_ERROR_INTERNAL"
    /\ FreshEventNumber
    /\ StorageAhead
===============================================================================
