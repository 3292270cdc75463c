------------------------- MODULE DeviceCountersProofs -------------------------
(***************************************************************************)
(* The counters of a device give no number out twice: event numbers,       *)
(* Check-In values and counters of group messages, for every width, epoch  *)
(* and initial value and every pattern of reboots and failed flash writes, *)
(* up to the rollover.  The receive window has a module of its own.        *)
(***************************************************************************)
EXTENDS DeviceCounters, ReplayWindowProofs, TLAPS

-------------------------------------------------------------------------------
(* Event numbers. *)

\* Unsigned arithmetic stays in range and is exact below the rollover.
LEMMA WrapRange ==
    ASSUME NEW n \in Nat
    PROVE  /\ Wrap(n) \in Values
           /\ n <= MaxValue => Wrap(n) = n
  BY CounterAssumption DEF Wrap, Values

\* Init() of the counter starts in range.
LEMMA StartValueRange ==
    ASSUME CounterTypeOK, NEW s \in ReadStartValue
    PROVE  s \in Values
  BY CounterAssumption DEF CounterTypeOK, ReadStartValue, Values

\* The initial state satisfies the inductive invariant.
LEMMA EventInitIndInv == Init => IndInv
  <1> SUFFICES ASSUME Init
               PROVE  IndInv
    OBVIOUS
  <1>0. 0 \in Values
    BY CounterAssumption DEF Values
  <1>1. TypeOK
    BY <1>0, Zenon DEF Init, CounterInit, TypeOK, CounterTypeOK, Errors
  <1>2. FreshEventNumber /\ StorageAhead
    BY DEF Init, FreshEventNumber, StorageAhead
  <1> QED
    BY <1>1, <1>2, Zenon DEF Init, CounterInit, IndInv

\* Booting preserves it: the stored epoch start is above every number given
\* out, and the next start is persisted before the first number is used.
LEMMA EventBootIndInv ==
    ASSUME IndInv, NEW ok \in WriteResults, Boot(ok)
    PROVE  IndInv'
  <1> USE CounterAssumption
  <1>1. PICK s \in ReadStartValue :
          /\ PersistNextEpochStart(s, ok)
          /\ mCounterValue' = IF ok THEN s ELSE mCounterValue
    BY DEF Boot, InitCounter
  <1>2. s \in Values /\ ok \in BOOLEAN
    BY StartValueRange DEF IndInv, TypeOK
  <1>3. s + Epoch \in Nat
    BY <1>2 DEF Values
  <1>4. /\ Wrap(s + Epoch) \in Values
        /\ s + Epoch <= MaxValue => Wrap(s + Epoch) = s + Epoch
    BY <1>3, WrapRange
  <1>5. TypeOK'
    BY <1>1, <1>2, <1>4
    DEF IndInv, TypeOK, CounterTypeOK, Boot, InitCounter,
        PersistNextEpochStart, Errors
  <1>6. \A n \in logged : ~wrapped /\ ~lostEpoch => n < s
    BY <1>1 DEF Boot, InitCounter, IndInv, StorageAhead, Undisturbed,
                ReadStartValue
  <1>7. (storage = NotFound => logged = {})' /\ (up => storage # NotFound)'
    BY <1>1, <1>2, <1>4
    DEF IndInv, Boot, InitCounter, PersistNextEpochStart, NotFound, Values
  <1>8. /\ (up => mLastEventNumber = mCounterValue)'
        /\ (up /\ ~unwritten => storage = mNextEpoch)'
    BY <1>1 DEF Boot, InitCounter, PersistNextEpochStart
  <1>9. (up /\ ~wrapped => mCounterValue < mNextEpoch)'
    <2>1. up' => mCounterValue' = s /\ mNextEpoch' = Wrap(s + Epoch)
      BY <1>1 DEF Boot, InitCounter, PersistNextEpochStart
    <2>2. ~wrapped' => ~(s + Epoch > MaxValue)
      BY <1>1, Zenon DEF PersistNextEpochStart
    <2>3. ~(s + Epoch > MaxValue) => s < Wrap(s + Epoch)
      BY <1>2, <1>4 DEF Values
    <2> QED
      BY <2>1, <2>2, <2>3
  <1>10. (~wrapped => err # "CHIP_ERROR_INTERNAL")'
    BY DEF Boot, InitCounter
  <1>11. FreshEventNumber'
    BY <1>1, <1>2, <1>6
    DEF Boot, InitCounter, PersistNextEpochStart, FreshEventNumber, Undisturbed
  <1>12. StorageAhead'
    BY <1>1, <1>2
    DEF IndInv, Boot, InitCounter, PersistNextEpochStart, StorageAhead, Undisturbed
  <1> QED
    BY <1>5, <1>7, <1>8, <1>9, <1>10, <1>11, <1>12 DEF IndInv

\* Logging an event preserves it, whatever becomes of the write.
LEMMA LogEventIndInv ==
    ASSUME IndInv, NEW ok \in WriteResults, LogEvent(ok)
    PROVE  IndInv'
  <1> USE CounterAssumption
  <1>1. /\ up /\ up' /\ lostEpoch' = lostEpoch
        /\ logged' = logged \cup {mLastEventNumber}
        /\ mLastEventNumber' = mCounterValue'
        /\ mCounterValue' = Wrap(mCounterValue + 1)
        /\ ok \in BOOLEAN
    BY DEF LogEvent, VendEventNumber, Advance
  <1>2. /\ mCounterValue \in Values /\ mNextEpoch \in Values
        /\ mLastEventNumber = mCounterValue
        /\ mCounterValue + 1 \in Nat /\ mNextEpoch + Epoch \in Nat
    BY <1>1 DEF IndInv, TypeOK, CounterTypeOK, Values
  <1>3. /\ Wrap(mCounterValue + 1) \in Values
        /\ mCounterValue + 1 <= MaxValue =>
             Wrap(mCounterValue + 1) = mCounterValue + 1
        /\ Wrap(mNextEpoch + Epoch) \in Values
        /\ mNextEpoch + Epoch <= MaxValue =>
             Wrap(mNextEpoch + Epoch) = mNextEpoch + Epoch
    BY <1>2, WrapRange
  <1>4. ~wrapped => mCounterValue' = mCounterValue + 1 /\ mCounterValue' <= mNextEpoch
    BY <1>1, <1>2, <1>3 DEF IndInv, Values
  <1>5. ~wrapped' => ~wrapped
    BY DEF LogEvent, VendEventNumber, Advance, NoEpochUpdate,
           PersistAndVerifyNextEpochStart, PersistNextEpochStart
  <1>6. FreshEventNumber'
    BY <1>1, <1>2, <1>4, <1>5
    DEF IndInv, TypeOK, Values, FreshEventNumber, Undisturbed
  <1>7. CASE mCounterValue' >= mNextEpoch
    <2>1. PersistAndVerifyNextEpochStart(mNextEpoch, ok)
      BY <1>7 DEF LogEvent, VendEventNumber, Advance
    <2>2. TypeOK'
      BY <1>1, <1>2, <1>3, <2>1
      DEF IndInv, TypeOK, CounterTypeOK, PersistAndVerifyNextEpochStart,
          PersistNextEpochStart, Errors
    <2>3. (up => storage # NotFound)'
      BY <1>1, <1>3, <2>1
      DEF IndInv, PersistAndVerifyNextEpochStart, PersistNextEpochStart,
          NotFound, Values
    <2>4. ~wrapped' => /\ mNextEpoch' = mNextEpoch + Epoch
                       /\ mCounterValue' = mNextEpoch
                       /\ mNextEpoch + Epoch <= MaxValue
      <3>1. ~wrapped' => ~(mNextEpoch + Epoch > MaxValue)
        BY <2>1, Zenon
        DEF PersistAndVerifyNextEpochStart, PersistNextEpochStart
      <3>2. mNextEpoch' = Wrap(mNextEpoch + Epoch)
        BY <2>1 DEF PersistAndVerifyNextEpochStart, PersistNextEpochStart
      <3>3. ~(mNextEpoch + Epoch > MaxValue) =>
              mNextEpoch + Epoch <= MaxValue
        BY <1>2 DEF Values
      <3>4. ~wrapped' => mCounterValue' = mNextEpoch
        BY <1>1, <1>2, <1>3, <1>4, <1>5, <1>7 DEF Values
      <3> QED
        BY <1>3, <3>1, <3>2, <3>3, <3>4
    <2>5. (up /\ ~wrapped => mCounterValue < mNextEpoch)'
      BY <1>2, <2>4 DEF Values
    <2>6. (~wrapped => err # "CHIP_ERROR_INTERNAL")'
      BY <1>1, <1>3, <2>1, <2>4
      DEF PersistAndVerifyNextEpochStart
    <2>7. (up /\ ~unwritten => storage = mNextEpoch)'
      BY <2>1 DEF PersistAndVerifyNextEpochStart, PersistNextEpochStart
    <2> QED
      BY <1>1, <1>6, <2>2, <2>3, <2>5, <2>6, <2>7 DEF IndInv, StorageAhead
  <1>8. CASE ~(mCounterValue' >= mNextEpoch)
    <2>1. NoEpochUpdate
      BY <1>8 DEF LogEvent, VendEventNumber, Advance
    <2>2. TypeOK'
      BY <1>1, <1>2, <1>3, <2>1
      DEF IndInv, TypeOK, CounterTypeOK, NoEpochUpdate, Errors
    <2>3. (up /\ ~wrapped => mCounterValue < mNextEpoch)'
      BY <1>1, <1>2, <1>3, <1>8, <2>1 DEF NoEpochUpdate, Values
    <2> QED
      BY <1>1, <1>6, <2>1, <2>2, <2>3 DEF IndInv, StorageAhead, NoEpochUpdate
  <1> QED
    BY <1>7, <1>8

\* Losing power preserves it: below the rollover the stored epoch start is
\* above the counter unless its write failed, which lostEpoch records.
LEMMA EventRebootIndInv ==
    ASSUME IndInv, Reboot
    PROVE  IndInv'
  <1> USE CounterAssumption
  <1>1. /\ up /\ ~up' /\ lostEpoch' = (lostEpoch \/ unwritten)
        /\ UNCHANGED <<storage, mCounterValue, mNextEpoch, err, wrapped,
                       unwritten, mLastEventNumber, logged>>
    BY DEF Reboot, LosePower
  <1>2. TypeOK'
    BY <1>1 DEF IndInv, TypeOK, CounterTypeOK, Reboot, LosePower
  <1>3. StorageAhead'
    <2>1. Undisturbed' => Undisturbed /\ storage' = mNextEpoch
      BY <1>1, Zenon DEF Undisturbed, IndInv
    <2>2. Undisturbed => /\ mCounterValue < mNextEpoch
                         /\ \A n \in logged : n < mCounterValue
      BY <1>1 DEF IndInv, FreshEventNumber, Undisturbed
    <2> QED
      BY <1>1, <2>1, <2>2
      DEF IndInv, TypeOK, CounterTypeOK, StorageAhead, Values
  <1> QED
    BY <1>1, <1>2, <1>3 DEF IndInv, FreshEventNumber

\* Every step preserves the inductive invariant.
LEMMA EventNextIndInv == IndInv /\ [Next]_vars => IndInv'
  <1> SUFFICES ASSUME IndInv, [Next]_vars
               PROVE  IndInv'
    OBVIOUS
  <1>1. CASE UNCHANGED vars
    BY <1>1 DEF IndInv, TypeOK, CounterTypeOK, FreshEventNumber, StorageAhead,
                Undisturbed, vars, counterVars
  <1>2. CASE Next
    BY <1>2, EventBootIndInv, LogEventIndInv, EventRebootIndInv DEF Next
  <1> QED
    BY <1>1, <1>2

\* For every counter width, epoch, initial value and pattern of reboots and
\* failed writes: the next event number is above all numbers of logged events
\* (no reuse after a reboot) until a rollover or a reboot with an unwritten
\* epoch start.
THEOREM EventNumbersAreFresh == Spec => []FreshEventNumber
  <1>1. IndInv => FreshEventNumber
    BY DEF IndInv
  <1> QED
    BY <1>1, EventInitIndInv, EventNextIndInv, PTL DEF Spec

\* Before a rollover the self-check of PersistAndVerifyNextEpochStart holds.
THEOREM EventNumbersVerify == Spec => []VerifyNeverFails
  <1>1. IndInv => VerifyNeverFails
    BY DEF IndInv, VerifyNeverFails
  <1> QED
    BY <1>1, EventInitIndInv, EventNextIndInv, PTL DEF Spec

-------------------------------------------------------------------------------
(* Check-In values. *)

\* What PersistNextEpochStart leaves behind: a value of the type, and one
\* epoch above its argument unless that wrapped.
LEMMA PersistedStart ==
    ASSUME NEW ref \in Nat, NEW ok \in BOOLEAN, CounterTypeOK,
           PersistNextEpochStart(ref, ok)
    PROVE  /\ mNextEpoch' \in Values
           /\ storage' \in Values \cup {NotFound}
           /\ storage' = IF ok THEN mNextEpoch' ELSE storage
           /\ wrapped' \in BOOLEAN /\ unwritten' \in BOOLEAN
           /\ ~unwritten' => storage' = mNextEpoch'
           /\ ~wrapped' => ~wrapped
           /\ ~wrapped' => /\ mNextEpoch' = ref + Epoch
                           /\ ref < mNextEpoch'
                           /\ ref + Epoch <= MaxValue
  <1> USE CounterAssumption
  <1>1. ref + Epoch \in Nat
    OBVIOUS
  <1>2. /\ Wrap(ref + Epoch) \in Values
        /\ ref + Epoch <= MaxValue => Wrap(ref + Epoch) = ref + Epoch
    BY <1>1, WrapRange
  <1>3. ~wrapped' => ~wrapped /\ ~(ref + Epoch > MaxValue)
    BY Zenon DEF PersistNextEpochStart
  <1>4. /\ wrapped' \in BOOLEAN /\ unwritten' \in BOOLEAN
        /\ ~unwritten' => ok
    BY Zenon DEF PersistNextEpochStart
  <1>5. ~(ref + Epoch > MaxValue) => ref + Epoch <= MaxValue /\ ref < ref + Epoch
    BY <1>1
  <1>6. /\ mNextEpoch' = Wrap(ref + Epoch)
        /\ storage' = IF ok THEN Wrap(ref + Epoch) ELSE storage
    BY DEF PersistNextEpochStart
  <1> QED
    BY <1>2, <1>3, <1>4, <1>5, <1>6 DEF CounterTypeOK

\* The initial state satisfies the inductive invariant.
LEMMA CheckInInitIndInv == CheckInInit => CheckInIndInv
  <1> SUFFICES ASSUME CheckInInit
               PROVE  CheckInIndInv
    OBVIOUS
  <1>0. 0 \in Values
    BY CounterAssumption DEF Values
  <1>1. CheckInTypeOK
    BY <1>0, Zenon DEF CheckInInit, CounterInit, CheckInTypeOK, CounterTypeOK, Errors
  <1>2. /\ \A n \in sent : n <= mCounterValue
        /\ CheckInStorageAhead /\ VerifyNeverFails
    BY DEF CheckInInit, CounterInit, CheckInStorageAhead, VerifyNeverFails
  <1> QED
    BY <1>1, <1>2, Zenon DEF CheckInInit, CounterInit, CheckInIndInv

\* Booting preserves it.
LEMMA CheckInBootIndInv ==
    ASSUME CheckInIndInv, NEW ok \in WriteResults, CheckInBoot(ok)
    PROVE  CheckInIndInv'
  <1> USE CounterAssumption
  <1>1. PICK s \in ReadStartValue :
          /\ PersistNextEpochStart(s, ok)
          /\ mCounterValue' = IF ok THEN s ELSE mCounterValue
    BY DEF CheckInBoot, InitCounter
  <1>2. s \in Values /\ s \in Nat /\ ok \in BOOLEAN
    BY DEF CheckInIndInv, CheckInTypeOK, CounterTypeOK, ReadStartValue, Values
  <1>3. CounterTypeOK /\ CheckInTypeOK
    BY DEF CheckInIndInv, CheckInTypeOK
  <1>4. /\ mNextEpoch' \in Values
        /\ storage' \in Values \cup {NotFound}
        /\ storage' = IF ok THEN mNextEpoch' ELSE storage
        /\ wrapped' \in BOOLEAN /\ unwritten' \in BOOLEAN
        /\ ~unwritten' => storage' = mNextEpoch'
        /\ ~wrapped' => ~wrapped
        /\ ~wrapped' => s < mNextEpoch'
    BY <1>1, <1>2, <1>3, PersistedStart
  <1>5. /\ ~up /\ up' = ok /\ sent' = sent /\ lostEpoch' = lostEpoch
        /\ err' \in Errors /\ err' # "CHIP_ERROR_INTERNAL"
    BY DEF CheckInBoot, InitCounter, Errors
  <1>6. CheckInTypeOK'
    BY <1>1, <1>2, <1>3, <1>4, <1>5 DEF CheckInTypeOK, CounterTypeOK
  <1>7. (up => storage # NotFound)' /\ (storage = NotFound => sent = {})'
    BY <1>2, <1>4, <1>5 DEF CheckInIndInv, NotFound, Values
  <1>8. /\ (up /\ ~wrapped => mCounterValue < mNextEpoch)'
        /\ (up /\ ~unwritten => storage = mNextEpoch)'
    BY <1>1, <1>4, <1>5
  <1>9. ~wrapped /\ ~lostEpoch => \A n \in sent : n <= s
    BY <1>5 DEF CheckInIndInv, CheckInStorageAhead, ReadStartValue
  <1>10. (up /\ ~wrapped /\ ~lostEpoch => \A n \in sent : n <= mCounterValue)'
    BY <1>1, <1>4, <1>5, <1>9
  <1>11. CheckInStorageAhead' /\ VerifyNeverFails'
    BY <1>2, <1>4, <1>5 DEF CheckInIndInv, CheckInStorageAhead, VerifyNeverFails
  <1> QED
    BY <1>6, <1>7, <1>8, <1>10, <1>11, Zenon DEF CheckInIndInv

\* What both ways of advancing the counter preserve, given where they leave
\* the counter and the epoch below the rollover.
LEMMA CheckInAdvancedIndInv ==
    ASSUME CheckInIndInv, CheckInTypeOK', up, up', lostEpoch' = lostEpoch,
           storage' # NotFound,
           ~unwritten' => storage' = mNextEpoch',
           ~wrapped' => ~wrapped,
           ~wrapped' => mCounterValue <= mCounterValue',
           ~wrapped' => mCounterValue' < mNextEpoch',
           sent' \subseteq sent \cup {mCounterValue'},
           VerifyNeverFails'
    PROVE  CheckInIndInv'
  <1>1. (~wrapped /\ ~lostEpoch => \A n \in sent : n <= mCounterValue)'
    <2>1. ~wrapped' /\ ~lostEpoch' => \A n \in sent : n <= mCounterValue
      BY Zenon DEF CheckInIndInv
    <2>2. /\ mCounterValue \in Nat /\ mCounterValue' \in Nat
          /\ \A n \in sent : n \in Nat
      BY CounterAssumption DEF CheckInIndInv, CheckInTypeOK, CounterTypeOK, Values
    <2> QED
      BY <2>1, <2>2
  <1>2. CheckInStorageAhead'
    BY Zenon DEF CheckInStorageAhead
  <1> QED
    BY <1>1, <1>2, Zenon DEF CheckInIndInv

\* Sending Check-In messages preserves it.
LEMMA CheckInSendIndInv ==
    ASSUME CheckInIndInv, NEW ok \in WriteResults, SendCheckInMsgs(ok)
    PROVE  CheckInIndInv'
  <1> USE CounterAssumption
  <1>1. /\ up /\ up' = up /\ lostEpoch' = lostEpoch
        /\ sent' = sent \cup {mCounterValue'}
        /\ mCounterValue' = Wrap(mCounterValue + 1)
        /\ ok \in BOOLEAN
    BY DEF SendCheckInMsgs, Advance, GetNextCheckInCounterValue
  <1>2. /\ CounterTypeOK /\ CheckInTypeOK /\ up \in BOOLEAN /\ lostEpoch \in BOOLEAN
        /\ mCounterValue \in Values /\ mNextEpoch \in Values
        /\ mCounterValue \in Nat /\ mNextEpoch \in Nat
    BY DEF CheckInIndInv, CheckInTypeOK, CounterTypeOK, Values
  <1>3. /\ mCounterValue' \in Values
        /\ mCounterValue + 1 <= MaxValue => mCounterValue' = mCounterValue + 1
    BY <1>1, <1>2, WrapRange
  <1>4. ~wrapped => /\ mCounterValue' = mCounterValue + 1
                    /\ mCounterValue <= mCounterValue'
                    /\ mCounterValue' <= mNextEpoch
    BY <1>1, <1>2, <1>3 DEF CheckInIndInv, Values
  <1>5. CASE mCounterValue' >= mNextEpoch
    <2>1. /\ PersistNextEpochStart(mNextEpoch, ok)
          /\ err' = CASE ~ok -> "STORAGE_ERROR"
                      [] ok /\ Wrap(mCounterValue' + Epoch) # mNextEpoch' ->
                                "CHIP_ERROR_INTERNAL"
                      [] OTHER -> "CHIP_NO_ERROR"
      BY <1>5 DEF SendCheckInMsgs, Advance, PersistAndVerifyNextEpochStart
    <2>2. /\ mNextEpoch' \in Values
          /\ storage' \in Values \cup {NotFound}
          /\ storage' = IF ok THEN mNextEpoch' ELSE storage
          /\ wrapped' \in BOOLEAN /\ unwritten' \in BOOLEAN
          /\ ~unwritten' => storage' = mNextEpoch'
          /\ ~wrapped' => ~wrapped
          /\ ~wrapped' => /\ mNextEpoch' = mNextEpoch + Epoch
                          /\ mNextEpoch < mNextEpoch'
                          /\ mNextEpoch + Epoch <= MaxValue
      BY <1>1, <1>2, <2>1, PersistedStart
    <2>3. storage' # NotFound
      BY <1>1, <2>2 DEF CheckInIndInv, NotFound, Values
    <2>4. ~wrapped' => mCounterValue' = mNextEpoch
      BY <1>2, <1>3, <1>4, <1>5, <2>2 DEF Values
    <2>5. VerifyNeverFails'
      <3>1. ~wrapped' => Wrap(mCounterValue' + Epoch) = mNextEpoch'
        BY <1>2, <2>2, <2>4, WrapRange
      <3> QED
        BY <1>1, <2>1, <3>1 DEF VerifyNeverFails
    <2>6. err' \in Errors
      BY <1>1, <2>1 DEF Errors
    <2>7. CheckInTypeOK'
      BY <1>1, <1>2, <1>3, <2>2, <2>6 DEF CheckInTypeOK, CounterTypeOK
    <2>8. ~wrapped' => /\ mCounterValue <= mCounterValue'
                       /\ mCounterValue' < mNextEpoch'
      BY <1>4, <2>2, <2>4
    <2> QED
      BY <1>1, <2>2, <2>3, <2>5, <2>7, <2>8, CheckInAdvancedIndInv
  <1>6. CASE ~(mCounterValue' >= mNextEpoch)
    <2>1. NoEpochUpdate
      BY <1>6 DEF SendCheckInMsgs, Advance
    <2>2. /\ CheckInTypeOK' /\ VerifyNeverFails' /\ storage' # NotFound
          /\ ~unwritten' => storage' = mNextEpoch'
      BY <1>1, <1>2, <1>3, <2>1
      DEF CheckInIndInv, CheckInTypeOK, CounterTypeOK, NoEpochUpdate, Errors, VerifyNeverFails
    <2>3. /\ ~wrapped' => ~wrapped
          /\ ~wrapped' => mCounterValue <= mCounterValue'
          /\ ~wrapped' => mCounterValue' < mNextEpoch'
      BY <1>2, <1>3, <1>4, <1>6, <2>1 DEF NoEpochUpdate, Values
    <2> QED
      BY <1>1, <2>2, <2>3, CheckInAdvancedIndInv
  <1> QED
    BY <1>5, <1>6

\* AdvanceBy() preserves it: a jump past the epoch, or over the end of the
\* range, always persists one epoch above the new value.
LEMMA CheckInJumpIndInv ==
    ASSUME CheckInIndInv, NEW n \in Values, NEW ok \in WriteResults, Jump(n, ok)
    PROVE  CheckInIndInv'
  <1> USE CounterAssumption
  <1>1. /\ up /\ up' = up /\ lostEpoch' = lostEpoch
        /\ sent' = sent
        /\ mCounterValue' = Wrap(mCounterValue + n)
        /\ ok \in BOOLEAN
    BY DEF Jump, AdvanceBy
  <1>2. /\ CounterTypeOK /\ CheckInTypeOK /\ up \in BOOLEAN /\ lostEpoch \in BOOLEAN
        /\ mCounterValue \in Values /\ mNextEpoch \in Values
        /\ mCounterValue \in Nat /\ mNextEpoch \in Nat /\ n \in Nat
        /\ mCounterValue + n \in Nat
    BY DEF CheckInIndInv, CheckInTypeOK, CounterTypeOK, Values
  <1>3. /\ mCounterValue' \in Values
        /\ mCounterValue + n <= MaxValue => mCounterValue' = mCounterValue + n
    BY <1>1, <1>2, WrapRange
  <1>5. CASE n > 0 /\ ShouldDoEpochUpdate(n)
    <2>1. /\ PersistNextEpochStart(mCounterValue + n, ok)
          /\ err' = CASE ~ok -> "STORAGE_ERROR"
                      [] ok /\ Wrap(mCounterValue' + Epoch) # mNextEpoch' ->
                                "CHIP_ERROR_INTERNAL"
                      [] OTHER -> "CHIP_NO_ERROR"
      BY <1>5 DEF Jump, AdvanceBy, PersistAndVerifyNextEpochStart
    <2>2. /\ mNextEpoch' \in Values
          /\ storage' \in Values \cup {NotFound}
          /\ storage' = IF ok THEN mNextEpoch' ELSE storage
          /\ wrapped' \in BOOLEAN /\ unwritten' \in BOOLEAN
          /\ ~unwritten' => storage' = mNextEpoch'
          /\ ~wrapped' => ~wrapped
          /\ ~wrapped' => /\ mNextEpoch' = mCounterValue + n + Epoch
                          /\ mCounterValue + n < mNextEpoch'
                          /\ mCounterValue + n + Epoch <= MaxValue
      BY <1>1, <1>2, <2>1, PersistedStart
    <2>3. storage' # NotFound
      BY <1>1, <2>2 DEF CheckInIndInv, NotFound, Values
    <2>4. ~wrapped' => mCounterValue' = mCounterValue + n
      BY <1>2, <1>3, <2>2
    <2>5. VerifyNeverFails'
      <3>1. ~wrapped' => Wrap(mCounterValue' + Epoch) = mNextEpoch'
        BY <1>2, <2>2, <2>4, WrapRange
      <3> QED
        BY <1>1, <2>1, <3>1 DEF VerifyNeverFails
    <2>6. err' \in Errors
      BY <1>1, <2>1 DEF Errors
    <2>7. CheckInTypeOK'
      BY <1>1, <1>2, <1>3, <2>2, <2>6 DEF CheckInTypeOK, CounterTypeOK
    <2>8. ~wrapped' => /\ mCounterValue <= mCounterValue'
                       /\ mCounterValue' < mNextEpoch'
      BY <1>2, <2>2, <2>4
    <2> QED
      BY <1>1, <2>2, <2>3, <2>5, <2>7, <2>8, CheckInAdvancedIndInv
  <1>6. CASE ~(n > 0 /\ ShouldDoEpochUpdate(n))
    <2>1. NoEpochUpdate
      BY <1>6 DEF Jump, AdvanceBy
    <2>2. /\ CheckInTypeOK' /\ VerifyNeverFails' /\ storage' # NotFound
          /\ ~unwritten' => storage' = mNextEpoch'
      BY <1>1, <1>2, <1>3, <2>1
      DEF CheckInIndInv, CheckInTypeOK, CounterTypeOK, NoEpochUpdate, Errors, VerifyNeverFails
    <2>3. mCounterValue' = mCounterValue + n
      BY <1>1, <1>2, <1>3, <1>6 DEF ShouldDoEpochUpdate, Values
    <2>4. ~wrapped => mCounterValue' < mNextEpoch
      BY <1>1, <1>2, <1>3, <1>6, <2>3 DEF CheckInIndInv, ShouldDoEpochUpdate, Values
    <2>5. /\ ~wrapped' => ~wrapped
          /\ ~wrapped' => mCounterValue <= mCounterValue'
          /\ ~wrapped' => mCounterValue' < mNextEpoch'
      BY <1>2, <2>1, <2>3, <2>4 DEF NoEpochUpdate
    <2> QED
      BY <1>1, <2>2, <2>5, CheckInAdvancedIndInv
  <1> QED
    BY <1>5, <1>6

\* Losing power preserves it.
LEMMA CheckInRebootIndInv ==
    ASSUME CheckInIndInv, CheckInReboot
    PROVE  CheckInIndInv'
  <1> USE CounterAssumption
  <1>1. /\ up /\ ~up' /\ lostEpoch' = (lostEpoch \/ unwritten)
        /\ up' = FALSE
        /\ UNCHANGED <<storage, mCounterValue, mNextEpoch, err, wrapped,
                       unwritten, sent>>
    BY DEF CheckInReboot, LosePower
  <1>2. CheckInTypeOK'
    BY <1>1 DEF CheckInIndInv, CheckInTypeOK, CounterTypeOK
  <1>3. CheckInStorageAhead'
    <2>1. ~wrapped' /\ ~lostEpoch' => ~wrapped /\ ~lostEpoch /\ storage' = mNextEpoch
      BY <1>1, Zenon DEF CheckInIndInv
    <2>2. ~wrapped /\ ~lostEpoch => /\ mCounterValue < mNextEpoch
                                    /\ \A n \in sent : n <= mCounterValue
      BY <1>1 DEF CheckInIndInv
    <2> QED
      BY <1>1, <2>1, <2>2
      DEF CheckInIndInv, CheckInTypeOK, CounterTypeOK, CheckInStorageAhead, Values
  <1> QED
    BY <1>1, <1>2, <1>3 DEF CheckInIndInv, VerifyNeverFails

\* Every step preserves the inductive invariant.
LEMMA CheckInNextIndInv == CheckInIndInv /\ [CheckInNext]_checkInVars => CheckInIndInv'
  <1> SUFFICES ASSUME CheckInIndInv, [CheckInNext]_checkInVars
               PROVE  CheckInIndInv'
    OBVIOUS
  <1>1. CASE UNCHANGED checkInVars
    BY <1>1 DEF CheckInIndInv, CheckInTypeOK, CounterTypeOK, VerifyNeverFails, CheckInStorageAhead,
                checkInVars, counterVars
  <1>2. CASE CheckInNext
    <2>1. MaxValue \in Values /\ MaxValue \div 2 \in Values
      BY CounterAssumption DEF Values
    <2> QED
      BY <1>2, <2>1, CheckInBootIndInv, CheckInSendIndInv, CheckInJumpIndInv, CheckInRebootIndInv
      DEF CheckInNext, InvalidateHalfCheckInCounterValues,
          InvalidateAllCheckInCounterValues
  <1> QED
    BY <1>1, <1>2

\* For every width, epoch and initial value, over reboots, failed writes and
\* invalidations: the next Check-In value is above all values sent.
THEOREM CheckInValuesAreFresh == CheckInSpec => []FreshCheckInValue
  <1>1. CheckInIndInv => FreshCheckInValue
    <2> SUFFICES ASSUME CheckInIndInv, up, ~wrapped, ~lostEpoch, NEW n \in sent
                 PROVE  n < Wrap(mCounterValue + 1)
      BY DEF FreshCheckInValue, GetNextCheckInCounterValue
    <2>1. /\ n <= mCounterValue /\ mCounterValue < mNextEpoch
          /\ n \in Nat /\ mCounterValue \in Nat /\ mNextEpoch <= MaxValue
          /\ mNextEpoch \in Nat
      BY CounterAssumption DEF CheckInIndInv, CheckInTypeOK, CounterTypeOK, Values
    <2>2. mCounterValue + 1 <= MaxValue
      BY <2>1, CounterAssumption
    <2>3. Wrap(mCounterValue + 1) = mCounterValue + 1
      BY <2>1, <2>2, WrapRange
    <2> QED
      BY <2>1, <2>3
  <1> QED
    BY <1>1, CheckInInitIndInv, CheckInNextIndInv, PTL DEF CheckInSpec

\* Before a rollover neither Advance() nor AdvanceBy() reports
\* CHIP_ERROR_INTERNAL.
THEOREM CheckInValuesVerify == CheckInSpec => []VerifyNeverFails
  <1>1. CheckInIndInv => VerifyNeverFails
    BY DEF CheckInIndInv
  <1> QED
    BY <1>1, CheckInInitIndInv, CheckInNextIndInv, PTL DEF CheckInSpec

-------------------------------------------------------------------------------
(* The counters of outgoing group messages. *)

\* Addition to a group counter stays in range and is exact below the end of it.
LEMMA PlusRange ==
    ASSUME NEW n \in 0..MaxGroupCounter, NEW i \in 0..MaxGroupCounter
    PROVE  /\ Plus(n, i) \in 0..MaxGroupCounter
           /\ n + i <= MaxGroupCounter => Plus(n, i) = n + i
  BY GroupCounterAssumption DEF Plus

\* A new device satisfies the inductive invariant.
LEMMA GroupInitIndInv == GroupInit => GroupIndInv
  <1> SUFFICES ASSUME GroupInit PROVE GroupIndInv
    OBVIOUS
  <1>1. GroupTypeOK
    <2>1. 0 \in 0..MaxGroupCounter
      BY GroupCounterAssumption
    <2> QED
      BY <2>1 DEF GroupInit, GroupTypeOK
  <1>2. /\ ~groupUp
        /\ \A c \in Kinds : groupSent[c] = {}
    BY DEF GroupInit
  <1>3. FreshGroupCounter /\ \A c \in Kinds : Reserved(c)
    BY <1>2 DEF FreshGroupCounter, Reserved
  <1> QED
    BY <1>1, <1>3 DEF GroupIndInv

\* SessionManager::Init preserves it, whichever of its two writes fail.
LEMMA GroupBootIndInv ==
    ASSUME GroupIndInv, NEW okControl \in StoreResults, NEW okData \in StoreResults,
           GroupCountersInit(okControl, okData)
    PROVE  GroupIndInv'
  <1> DEFINE ok == [control |-> okControl, data |-> okControl /\ okData]
  <1>0. okControl \in BOOLEAN /\ okData \in BOOLEAN /\ MinIncrement \in 1..MaxGroupCounter
        /\ MaxGroupCounter \in Nat
    BY GroupCounterAssumption
  <1>1. /\ ~groupUp /\ groupUp' = (okControl /\ okData)
        /\ groupStored' = [c \in Kinds |-> IF ok[c] THEN Plus(groupCounter'[c], MinIncrement)
                                                    ELSE groupStored[c]]
        /\ groupWrapped' = (groupWrapped \/ \E c \in Kinds : groupCounter'[c] + MinIncrement > MaxGroupCounter)
        /\ groupLate' = [c \in Kinds |-> FALSE]
        /\ groupSent' = groupSent /\ groupReused' = groupReused
    BY DEF GroupCountersInit
  <1>2. \A c \in Kinds : ok[c] \in BOOLEAN /\ (groupUp' => ok[c])
    BY <1>0, <1>1 DEF Kinds
  <1>3. \A c \in Kinds : groupCounter'[c] \in Start(c)
    BY DEF GroupCountersInit, Kinds
  <1>4. groupCounter' = [c \in Kinds |-> groupCounter'[c]]
    <2>1. PICK control \in Start("control"), data \in Start("data") :
             groupCounter' = [control |-> control, data |-> data]
      BY DEF GroupCountersInit
    <2> QED
      BY <2>1 DEF Kinds
  <1> HIDE DEF ok
  <1>5. \A c \in Kinds : /\ groupCounter'[c] \in 0..MaxGroupCounter
                         /\ groupStored[c] # Absent => groupCounter'[c] = groupStored[c]
    <2> SUFFICES ASSUME NEW c \in Kinds
                 PROVE  /\ groupCounter'[c] \in 0..MaxGroupCounter
                        /\ groupStored[c] # Absent => groupCounter'[c] = groupStored[c]
      OBVIOUS
    <2>1. CASE groupStored[c] = Absent
      <3>1. groupCounter'[c] \in RandomStarts
        BY <1>3, <2>1 DEF Start
      <3>2. groupCounter'[c] \in 1..MaxGroupCounter
        BY <3>1, GroupCounterAssumption
      <3> QED
        BY <1>0, <2>1, <3>2
    <2>2. CASE groupStored[c] # Absent
      <3>1. groupCounter'[c] = groupStored[c]
        BY <1>3, <2>2 DEF Start
      <3>2. groupStored[c] \in (0..MaxGroupCounter) \cup {Absent}
        BY DEF GroupIndInv, GroupTypeOK
      <3> QED
        BY <2>2, <3>1, <3>2
    <2> QED
      BY <2>1, <2>2
  <1>6. \A c \in Kinds :
           /\ Plus(groupCounter'[c], MinIncrement) \in 0..MaxGroupCounter
           /\ groupCounter'[c] + MinIncrement <= MaxGroupCounter =>
                Plus(groupCounter'[c], MinIncrement) = groupCounter'[c] + MinIncrement
    <2>1. MinIncrement \in 0..MaxGroupCounter
      BY <1>0
    <2> QED
      BY <1>5, <2>1, PlusRange
  <1>7. GroupTypeOK'
    <2>1. groupCounter' \in [Kinds -> 0..MaxGroupCounter]
      BY <1>4, <1>5
    <2>2. groupStored' \in [Kinds -> (0..MaxGroupCounter) \cup {Absent}]
      BY <1>1, <1>2, <1>6 DEF GroupIndInv, GroupTypeOK
    <2>3. groupWrapped' \in BOOLEAN /\ groupUp' \in BOOLEAN /\ groupLate' \in [Kinds -> BOOLEAN]
      BY <1>0, <1>1 DEF GroupIndInv, GroupTypeOK
    <2> QED
      BY <1>1, <2>1, <2>2, <2>3 DEF GroupIndInv, GroupTypeOK
  <1>8. ASSUME NEW c \in Kinds PROVE Reserved(c)'
    <2> DEFINE old == groupStored[c]
               new == groupStored'[c]
               value == groupCounter'[c]
    <2>1. /\ new = IF ok[c] THEN Plus(value, MinIncrement) ELSE old
          /\ old \in (0..MaxGroupCounter) \cup {Absent}
          /\ groupSent[c] \subseteq 0..MaxGroupCounter
          /\ value \in 0..MaxGroupCounter
          /\ old # Absent => value = old
      BY <1>1, <1>5 DEF GroupIndInv, GroupTypeOK
    <2>2. /\ old = Absent => groupSent[c] = {}
          /\ ~groupWrapped /\ ~groupReused[c] => \A n \in groupSent[c] : n < old
      BY <1>1 DEF GroupIndInv, Reserved
    <2>3. ~groupWrapped' => ~groupWrapped /\ value + MinIncrement <= MaxGroupCounter
      <3>1. ~groupWrapped' => ~groupWrapped /\ ~(value + MinIncrement > MaxGroupCounter)
        BY <1>1, Zenon
      <3> QED
        BY <1>0, <2>1, <3>1
    <2>4. ~groupWrapped' /\ ok[c] => new = value + MinIncrement /\ value < new
      BY <1>0, <1>6, <2>1, <2>3
    <2>5. ok[c] => new # Absent
      BY <1>6, <2>1 DEF Absent
    <2> HIDE DEF old, new, value
    <2>6. ASSUME ~groupWrapped', ~groupReused[c], NEW n \in groupSent[c] PROVE n < new
      <3>1. n < old /\ old # Absent /\ n \in 0..MaxGroupCounter
        BY <2>1, <2>2, <2>3, <2>6
      <3>2. old \in 0..MaxGroupCounter /\ value = old
        BY <2>1, <3>1
      <3>3. CASE ok[c]
        BY <1>0, <2>4, <2>6, <3>1, <3>2, <3>3
      <3>4. CASE ~ok[c]
        BY <2>1, <3>1, <3>4
      <3> QED
        BY <3>3, <3>4
    <2>7. /\ groupUp' => new # Absent
          /\ new = Absent => groupSent[c] = {}
      BY <1>2, <2>1, <2>2, <2>5
    <2>8. ~groupWrapped' =>
            /\ groupUp' => value + MinIncrement <= MaxGroupCounter
            /\ groupUp' => value < new
      BY <1>2, <2>3, <2>4
    <2> QED
      BY <1>1, <2>6, <2>7, <2>8 DEF Reserved, new, value
  <1>9. FreshGroupCounter'
    <2> SUFFICES ASSUME groupUp', ~groupWrapped', NEW c \in Kinds, ~groupReused[c],
                        NEW n \in groupSent[c]
                 PROVE  n < groupCounter'[c]
      BY <1>1 DEF FreshGroupCounter
    <2>1. ~groupWrapped
      BY <1>1
    <2>2. n < groupStored[c] /\ groupStored[c] # Absent
      BY <1>1, <2>1 DEF GroupIndInv, Reserved
    <2> QED
      BY <1>5, <2>2
  <1> QED
    BY <1>7, <1>8, <1>9 DEF GroupIndInv

\* A message takes the counter and moves it on; what it does to the reservation
\* keeps the counter below it, or the counter is late.
LEMMA GroupSendIndInv ==
    ASSUME GroupIndInv, NEW k \in Kinds, NEW ok \in StoreResults, SendGroupMessage(k, ok)
    PROVE  GroupIndInv'
  <1> DEFINE next == Plus(groupCounter[k], 1)
             room == Plus(next, MinIncrement)
             reached == groupStored[k] = next
  <1>0. ok \in BOOLEAN /\ MinIncrement \in 1..MaxGroupCounter /\ MaxGroupCounter \in Nat
        /\ 1 \in 0..MaxGroupCounter /\ GroupTypeOK
    BY GroupCounterAssumption DEF GroupIndInv
  <1>1. /\ groupUp /\ groupUp' = groupUp /\ groupReused' = groupReused
        /\ groupSent' = [groupSent EXCEPT ![k] = @ \cup {groupCounter[k]}]
        /\ groupCounter' = [groupCounter EXCEPT ![k] = next]
        /\ groupStored' = IF reached /\ ok THEN [groupStored EXCEPT ![k] = Plus(groupCounter'[k], MinIncrement)]
                                           ELSE groupStored
        /\ groupLate' = IF reached THEN [groupLate EXCEPT ![k] = ~ok] ELSE groupLate
        /\ groupWrapped' = (groupWrapped \/ groupCounter'[k] + MinIncrement > MaxGroupCounter)
    BY DEF SendGroupMessage, IncrementCounter
  <1>2. groupCounter[k] \in 0..MaxGroupCounter
    BY <1>0 DEF GroupTypeOK
  <1>3. /\ next \in 0..MaxGroupCounter
        /\ groupCounter[k] + 1 <= MaxGroupCounter => next = groupCounter[k] + 1
    BY <1>0, <1>2, PlusRange
  <1> HIDE DEF next
  <1>4. /\ room \in 0..MaxGroupCounter
        /\ next + MinIncrement <= MaxGroupCounter => room = next + MinIncrement
    <2>1. MinIncrement \in 0..MaxGroupCounter
      BY <1>0
    <2> QED
      BY <1>3, <2>1, PlusRange DEF room
  <1> HIDE DEF room
  <1>5. /\ groupCounter'[k] = next
        /\ \A c \in Kinds \ {k} : groupCounter'[c] = groupCounter[c]
        /\ groupSent'[k] = groupSent[k] \cup {groupCounter[k]}
        /\ \A c \in Kinds \ {k} : groupSent'[c] = groupSent[c]
    BY <1>0, <1>1 DEF GroupTypeOK
  <1>6. /\ groupStored' = IF reached /\ ok THEN [groupStored EXCEPT ![k] = room] ELSE groupStored
        /\ groupWrapped' = (groupWrapped \/ next + MinIncrement > MaxGroupCounter)
    <2>1. Plus(groupCounter'[k], MinIncrement) = room
      BY <1>5 DEF room
    <2>2. groupCounter'[k] = next
      BY <1>5
    <2> HIDE DEF reached
    <2>3. groupWrapped' = (groupWrapped \/ next + MinIncrement > MaxGroupCounter)
      BY <1>1, <2>2, Zenon
    <2>4. groupStored' = IF reached /\ ok THEN [groupStored EXCEPT ![k] = room] ELSE groupStored
      <3>1. CASE reached /\ ok
        <4> DEFINE kept == Plus(groupCounter'[k], MinIncrement)
        <4>1. groupStored' = [groupStored EXCEPT ![k] = kept]
          BY <1>1, <3>1
        <4>2. kept = room
          BY <2>1
        <4> HIDE DEF kept
        <4> QED
          BY <3>1, <4>1, <4>2
      <3>2. CASE ~(reached /\ ok)
        BY <1>1, <3>2
      <3> QED
        BY <3>1, <3>2
    <2> QED
      BY ONLY <2>3, <2>4
  <1>7. /\ groupStored'[k] = IF reached /\ ok THEN room ELSE groupStored[k]
        /\ groupLate'[k] = IF reached THEN ~ok ELSE groupLate[k]
        /\ \A c \in Kinds \ {k} : groupStored'[c] = groupStored[c] /\ groupLate'[c] = groupLate[c]
    BY <1>0, <1>1, <1>6 DEF GroupTypeOK
  <1>8. GroupTypeOK'
    <2>1. groupCounter' \in [Kinds -> 0..MaxGroupCounter]
      BY <1>0, <1>1, <1>3 DEF GroupTypeOK
    <2>2. groupStored' \in [Kinds -> (0..MaxGroupCounter) \cup {Absent}]
      BY <1>0, <1>4, <1>6 DEF GroupTypeOK
    <2>3. groupLate' \in [Kinds -> BOOLEAN]
      BY <1>0, <1>1 DEF GroupTypeOK
    <2>4. groupSent' \in [Kinds -> SUBSET (0..MaxGroupCounter)]
      BY <1>0, <1>1, <1>2 DEF GroupTypeOK
    <2> QED
      BY <1>0, <1>1, <2>1, <2>2, <2>3, <2>4 DEF GroupTypeOK
  <1>9. ~groupWrapped' => /\ ~groupWrapped /\ next + MinIncrement <= MaxGroupCounter
                          /\ next = groupCounter[k] + 1
    <2> SUFFICES ASSUME ~groupWrapped'
                 PROVE  /\ ~groupWrapped /\ next + MinIncrement <= MaxGroupCounter
                        /\ next = groupCounter[k] + 1
      OBVIOUS
    <2>1. ~groupWrapped /\ ~(next + MinIncrement > MaxGroupCounter)
      BY <1>6, Zenon
    <2>2. groupCounter[k] + MinIncrement <= MaxGroupCounter
      BY <1>1, <2>1 DEF GroupIndInv, Reserved
    <2> QED
      BY <1>0, <1>2, <1>3, <2>1, <2>2
  <1>10. \A c \in Kinds : Reserved(c)
    BY DEF GroupIndInv
  <1>11. groupStored[k] # Absent /\ groupStored[k] \in 0..MaxGroupCounter
    BY <1>0, <1>1, <1>10 DEF Reserved, GroupTypeOK
  <1>12. Reserved(k)'
    <2>1. groupStored'[k] # Absent
      BY <1>4, <1>7, <1>11 DEF Absent
    <2>2. ~groupWrapped' => next + MinIncrement <= MaxGroupCounter
      BY <1>9
    <2>3. ~groupWrapped' /\ ~groupLate'[k] => next < groupStored'[k]
      <3> SUFFICES ASSUME ~groupWrapped', ~groupLate'[k] PROVE next < groupStored'[k]
        OBVIOUS
      <3>1. CASE reached
        <4>1. ok /\ groupStored'[k] = room
          BY <1>0, <1>7, <3>1
        <4>2. room = next + MinIncrement
          BY <1>4, <1>9
        <4> QED
          BY <1>0, <1>3, <4>1, <4>2
      <3>2. CASE ~reached
        <4>1. ~groupLate[k] /\ groupStored'[k] = groupStored[k] /\ ~groupWrapped
          BY <1>7, <1>9, <3>2
        <4>2. groupCounter[k] < groupStored[k]
          BY <1>1, <1>10, <4>1 DEF Reserved
        <4> QED
          BY <1>2, <1>9, <1>11, <3>2, <4>1, <4>2
      <3> QED
        BY <3>1, <3>2
    <2> QED
      BY <1>1, <1>5, <2>1, <2>2, <2>3 DEF Reserved
  <1>13. \A c \in Kinds \ {k} : Reserved(c)'
    BY <1>1, <1>5, <1>7, <1>9, <1>10 DEF Reserved
  <1>14. FreshGroupCounter'
    <2> SUFFICES ASSUME ~groupWrapped', NEW c \in Kinds, ~groupReused[c], NEW n \in groupSent'[c]
                 PROVE  n < groupCounter'[c]
      BY <1>1 DEF FreshGroupCounter
    <2>1. ~groupWrapped /\ \A m \in groupSent[c] : m < groupCounter[c]
      BY <1>1, <1>9 DEF GroupIndInv, FreshGroupCounter
    <2>2. CASE c # k
      BY <1>5, <2>1, <2>2
    <2>3. CASE c = k
      <3>1. n \in 0..MaxGroupCounter /\ n <= groupCounter[k]
        <4>1. groupSent[k] \subseteq 0..MaxGroupCounter
          BY <1>0 DEF GroupTypeOK
        <4> QED
          BY <1>2, <1>5, <2>1, <2>3, <4>1
      <3> QED
        BY <1>2, <1>5, <1>9, <2>3, <3>1
    <2> QED
      BY <2>2, <2>3
  <1> QED
    BY <1>8, <1>12, <1>13, <1>14 DEF GroupIndInv

\* A reboot loses the counters; what storage holds is above them unless late.
LEMMA GroupRebootIndInv ==
    ASSUME GroupIndInv, GroupReboot
    PROVE  GroupIndInv'
  <1>1. /\ groupUp /\ groupUp' = FALSE
        /\ groupReused' = [c \in Kinds |-> groupReused[c] \/ groupLate[c]]
        /\ UNCHANGED <<groupCounter, groupStored, groupSent, groupLate, groupWrapped>>
    BY DEF GroupReboot
  <1>2. GroupTypeOK'
    BY <1>1 DEF GroupIndInv, GroupTypeOK
  <1>3. ASSUME NEW c \in Kinds PROVE Reserved(c)'
    <2>1. /\ groupStored[c] # Absent /\ groupStored[c] \in 0..MaxGroupCounter
          /\ groupCounter[c] \in 0..MaxGroupCounter /\ groupSent[c] \subseteq 0..MaxGroupCounter
      BY <1>1 DEF GroupIndInv, Reserved, GroupTypeOK
    <2>2. ~groupWrapped /\ ~groupReused'[c] => \A n \in groupSent[c] : n < groupStored[c]
      <3> SUFFICES ASSUME ~groupWrapped, ~groupReused'[c], NEW n \in groupSent[c]
                   PROVE  n < groupStored[c]
        OBVIOUS
      <3>1. ~groupReused[c] /\ ~groupLate[c]
        BY <1>1
      <3>2. n < groupCounter[c] /\ groupCounter[c] < groupStored[c]
        BY <1>1, <3>1 DEF GroupIndInv, Reserved, FreshGroupCounter
      <3> QED
        BY <2>1, <3>2
    <2> QED
      BY <1>1, <2>1, <2>2 DEF Reserved
  <1> QED
    BY <1>1, <1>2, <1>3 DEF GroupIndInv, FreshGroupCounter

\* Every step preserves the inductive invariant.
LEMMA GroupNextIndInv == GroupIndInv /\ [GroupNext]_groupVars => GroupIndInv'
  <1> SUFFICES ASSUME GroupIndInv, [GroupNext]_groupVars
               PROVE  GroupIndInv'
    OBVIOUS
  <1>1. CASE UNCHANGED groupVars
    BY <1>1 DEF GroupIndInv, GroupTypeOK, Reserved, FreshGroupCounter, groupVars
  <1>2. CASE GroupNext
    BY <1>2, GroupBootIndInv, GroupSendIndInv, GroupRebootIndInv DEF GroupNext
  <1> QED
    BY <1>1, <1>2

\* For every width, increment and start, over reboots and failed writes: no group
\* message takes a counter that an earlier one took, unless a reboot followed a
\* failed reservation or the range was used up (GroupOutgoingCounters).
THEOREM GroupCountersAreFresh == CountersSpec => []FreshGroupCounter
  <1>1. CountersInit => GroupIndInv
    BY GroupInitIndInv DEF CountersInit
  <1>2. GroupIndInv /\ [CountersNext]_allVars => GroupIndInv'
    <2>1. [CountersNext]_allVars => [GroupNext]_groupVars
      BY DEF CountersNext, allVars, groupVars
    <2> QED
      BY <2>1, GroupNextIndInv
  <1>3. GroupIndInv => FreshGroupCounter
    BY DEF GroupIndInv
  <1> QED
    BY <1>1, <1>2, <1>3, PTL DEF CountersSpec

-------------------------------------------------------------------------------
(* All counters of a device. *)

\* Whichever counter a behaviour is about keeps its inductive invariant: what
\* was given out stays below what comes next and what a reboot resumes from, and
\* the bits of the receive window are the counters accepted below the maximum.
THEOREM EveryClientKeepsItsInvariant == CountersSpec => []ClientInvariant
  <1>1. CountersInit => ClientInvariant
    BY EventInitIndInv, CheckInInitIndInv, GroupInitIndInv, WindowInitIndInv
    DEF CountersInit, ClientInvariant
  <1>2. ClientInvariant /\ [CountersNext]_allVars => ClientInvariant'
    <2> SUFFICES ASSUME ClientInvariant, [CountersNext]_allVars PROVE ClientInvariant'
      OBVIOUS
    <2>0. client' = client
      BY DEF CountersNext, allVars
    <2>1. client = "EventManagement" => IndInv'
      <3>1. client = "EventManagement" => [Next]_vars
        BY DEF CountersNext, allVars
      <3> QED
        BY <3>1, EventNextIndInv DEF ClientInvariant
    <2>2. client = "ICDManager" => CheckInIndInv'
      <3>1. client = "ICDManager" => [CheckInNext]_checkInVars
        BY DEF CountersNext, allVars, vars, checkInVars
      <3> QED
        BY <3>1, CheckInNextIndInv DEF ClientInvariant
    <2>3. client = "GroupSender" => GroupIndInv'
      <3>1. client = "GroupSender" => [GroupNext]_groupVars
        BY DEF CountersNext, allVars
      <3> QED
        BY <3>1, GroupNextIndInv DEF ClientInvariant
    <2>4. client = "Receiver" => WindowIndInv'
      <3>1. client = "Receiver" => [WindowNext]_windowVars
        BY DEF CountersNext, allVars
      <3> QED
        BY <3>1, WindowNextIndInv DEF ClientInvariant
    <2> QED
      BY <2>0, <2>1, <2>2, <2>3, <2>4 DEF ClientInvariant
  <1> QED
    BY <1>1, <1>2, PTL DEF CountersSpec
===============================================================================
