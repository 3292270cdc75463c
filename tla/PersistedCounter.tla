--------------------------- MODULE PersistedCounter ---------------------------
(***************************************************************************)
(* The counter that survives reboots: PersistedCounter<T> of               *)
(* lib/support/PersistedCounter.h on top of MonotonicallyIncreasingCounter *)
(* of lib/support/CHIPCounter.h.  Only the start of the NEXT epoch is ever *)
(* written to flash; the value itself lives in RAM.  The module gives the  *)
(* state and one operator per method; a client module (EventNumbers,       *)
(* CheckInNumbers) turns them into actions.                                *)
(*                                                                         *)
(* The parameter `ok' of an operator is the outcome of its one storage     *)
(* write (PersistentStorageDelegate::SyncSetKeyValue).                     *)
(***************************************************************************)
EXTENDS Integers

CONSTANTS
    MaxValue,      \* std::numeric_limits<T>::max()
    Epoch,         \* aEpoch of Init()
    InitialValues, \* what GetInitialCounterValue() may return
    WriteResults   \* the outcomes of a storage write that are explored

ASSUME CounterAssumption ==
    /\ MaxValue \in Nat
    /\ Epoch \in 1 .. MaxValue
    /\ InitialValues \subseteq 0 .. MaxValue
    /\ WriteResults \subseteq BOOLEAN

VARIABLES
    storage,       \* the value under mKey, or NotFound
    up,            \* the device runs and Init() succeeded in this boot
    mCounterValue, \* MonotonicallyIncreasingCounter::mCounterValue
    mNextEpoch,    \* PersistedCounter::mNextEpoch
    err,           \* what the last method returned
    wrapped,       \* history: an addition exceeded MaxValue
    unwritten,     \* history: the last write of mNextEpoch reported an error
    lostEpoch      \* history: some reboot happened while unwritten

counterVars == <<storage, up, mCounterValue, mNextEpoch, err, wrapped,
                 unwritten, lostEpoch>>

NotFound == -1
Values == 0 .. MaxValue
Errors == {"CHIP_NO_ERROR", "CHIP_ERROR_INTERNAL", "STORAGE_ERROR"}

\* Arithmetic of the unsigned type T.
Wrap(n) == n % (MaxValue + 1)

CounterTypeOK ==
    /\ storage \in Values \cup {NotFound}
    /\ up \in BOOLEAN
    /\ mCounterValue \in Values
    /\ mNextEpoch \in Values
    /\ err \in Errors
    /\ wrapped \in BOOLEAN
    /\ unwritten \in BOOLEAN
    /\ lostEpoch \in BOOLEAN

CounterInit ==
    /\ storage = NotFound
    /\ up = FALSE
    /\ mCounterValue = 0
    /\ mNextEpoch = 0
    /\ err = "CHIP_NO_ERROR"
    /\ wrapped = FALSE
    /\ unwritten = FALSE
    /\ lostEpoch = FALSE

-------------------------------------------------------------------------------
\* ReadStartValue: the stored value, or the initial one on first use.
ReadStartValue ==
    IF storage = NotFound THEN InitialValues ELSE {storage}

\* As PersistNextEpochStart, without reaching the flash.
PersistNextEpochStartInRamOnly(ref, ok) ==
    /\ mNextEpoch' = Wrap(ref + Epoch)
    /\ storage' = IF ok /\ storage = NotFound THEN Wrap(ref + Epoch) ELSE storage
    /\ wrapped' = (wrapped \/ ref + Epoch > MaxValue)
    /\ unwritten' = ~ok

\* PersistNextEpochStart(ref + Epoch): mNextEpoch changes in RAM before the
\* write is tried and keeps its new value when the write fails.
PersistNextEpochStart(ref, ok) ==
    /\ mNextEpoch' = Wrap(ref + Epoch)
    /\ storage' = IF ok THEN Wrap(ref + Epoch) ELSE storage
    /\ wrapped' = (wrapped \/ ref + Epoch > MaxValue)
    /\ unwritten' = ~ok

\* PersistAndVerifyNextEpochStart: persist, then compare with the counter.
PersistAndVerifyNextEpochStart(ref, ok) ==
    /\ PersistNextEpochStart(ref, ok)
    /\ err' = CASE ~ok -> "STORAGE_ERROR"
                [] ok /\ Wrap(mCounterValue' + Epoch) # mNextEpoch' ->
                          "CHIP_ERROR_INTERNAL"
                [] OTHER -> "CHIP_NO_ERROR"

NoEpochUpdate ==
    /\ err' = "CHIP_NO_ERROR"
    /\ UNCHANGED <<storage, mNextEpoch, wrapped, unwritten>>

\* Advance() that persists one step after the epoch is reached.
AdvancePersistsLate(ok) ==
    /\ mCounterValue' = Wrap(mCounterValue + 1)
    /\ IF mCounterValue' > mNextEpoch
         THEN PersistAndVerifyNextEpochStart(mNextEpoch, ok)
         ELSE NoEpochUpdate
    /\ UNCHANGED <<up, lostEpoch>>

\* Advance().
Advance(ok) ==
    /\ mCounterValue' = Wrap(mCounterValue + 1)
    /\ IF mCounterValue' >= mNextEpoch
         THEN PersistAndVerifyNextEpochStart(mNextEpoch, ok)
         ELSE NoEpochUpdate
    /\ UNCHANGED <<up, lostEpoch>>

\* The two reasons AdvanceBy() has to write.
ShouldDoEpochUpdate(n) ==
    \/ Wrap(mCounterValue + n) >= mNextEpoch
    \/ mCounterValue > MaxValue - n

\* AdvanceBy(n) that keeps counting epochs from the old one.
AdvanceByFromOldEpoch(n, ok) ==
    /\ mCounterValue' = Wrap(mCounterValue + n)
    /\ IF n > 0 /\ ShouldDoEpochUpdate(n)
         THEN PersistAndVerifyNextEpochStart(mNextEpoch, ok)
         ELSE NoEpochUpdate
    /\ UNCHANGED <<up, lostEpoch>>

\* AdvanceBy(n); the new epoch is counted from the new value.
AdvanceBy(n, ok) ==
    /\ mCounterValue' = Wrap(mCounterValue + n)
    /\ IF n > 0 /\ ShouldDoEpochUpdate(n)
         THEN PersistAndVerifyNextEpochStart(mCounterValue + n, ok)
         ELSE NoEpochUpdate
    /\ UNCHANGED <<up, lostEpoch>>

\* PersistedCounter::Init() at boot: a failed write fails the initialization
\* and the counter is never used in this boot.
InitCounter(ok) ==
    /\ ~up
    /\ \E startValue \in ReadStartValue :
         /\ PersistNextEpochStart(startValue, ok)
         /\ mCounterValue' = IF ok THEN startValue ELSE mCounterValue
    /\ up' = ok
    /\ err' = IF ok THEN "CHIP_NO_ERROR" ELSE "STORAGE_ERROR"
    /\ UNCHANGED lostEpoch

\* Power loss or restart: RAM is gone, the flash stays.
LosePower ==
    /\ up
    /\ up' = FALSE
    /\ lostEpoch' = (lostEpoch \/ unwritten)
    /\ UNCHANGED <<storage, mCounterValue, mNextEpoch, err, wrapped, unwritten>>

-------------------------------------------------------------------------------
\* Before any rollover neither Advance() nor AdvanceBy() reports
\* CHIP_ERROR_INTERNAL: the check of PersistAndVerifyNextEpochStart can only
\* fail at the end of the range.
VerifyNeverFails ==
    ~wrapped => err # "CHIP_ERROR_INTERNAL"
===============================================================================
