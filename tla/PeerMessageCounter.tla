-------------------------- MODULE PeerMessageCounter --------------------------
(***************************************************************************)
(* Replay detection of transport/PeerMessageCounter.h as operators on the  *)
(* record [synced, mMaxCounter, mWindow].  mWindow is the set of the       *)
(* positions whose bit is set: bit b stands for counter mMaxCounter-b-1.   *)
(***************************************************************************)
EXTENDS Integers

CONSTANTS
    MaxCounter, \* the largest counter, 2^32 - 1 in the code
    WindowSize  \* CHIP_CONFIG_MESSAGE_COUNTER_WINDOW_SIZE

ASSUME WindowAssumption ==
    /\ MaxCounter \in Nat
    /\ WindowSize \in Nat \ {0}
    /\ 2 * (WindowSize + 1) <= MaxCounter + 1

Counters == 0 .. MaxCounter
Bits == 0 .. WindowSize - 1

\* a - b in the arithmetic of uint32_t.
Minus(a, b) == IF a >= b THEN a - b ELSE a + (MaxCounter + 1) - b

\* futureCounterWindow of ClassifyWithRollover, 2^31 - 1 in the code.
FutureCounterWindow == (MaxCounter + 1) \div 2 - 1

PeerCounters == [synced : BOOLEAN, mMaxCounter : Counters, mWindow : SUBSET Bits]

NotSynced == [synced |-> FALSE, mMaxCounter |-> 0, mWindow |-> {}]

SetCounter(value) == [synced |-> TRUE, mMaxCounter |-> value, mWindow |-> {}]

-------------------------------------------------------------------------------
\* ClassifyNonFutureCounter with a window one counter too narrow.
ClassifyWithNarrowWindow(st, counter) ==
    CASE counter = st.mMaxCounter -> "MaxCounter"
      [] counter # st.mMaxCounter /\ Minus(st.mMaxCounter, counter) < WindowSize ->
             "InWindow"
      [] OTHER -> "BeforeWindow"

\* Positions of a counter relative to mMaxCounter.
ClassifyNonFutureCounter(st, counter) ==
    CASE counter = st.mMaxCounter -> "MaxCounter"
      [] counter # st.mMaxCounter /\ Minus(st.mMaxCounter, counter) <= WindowSize ->
             "InWindow"
      [] OTHER -> "BeforeWindow"

ClassifyWithoutRollover(st, counter) ==
    IF counter > st.mMaxCounter
      THEN "FutureCounter"
      ELSE ClassifyNonFutureCounter(st, counter)

\* ClassifyWithRollover with a future window one counter too wide.
ClassifyWithWideFuture(st, counter) ==
    IF Minus(counter, st.mMaxCounter) \in 1 .. FutureCounterWindow + 1
      THEN "FutureCounter"
      ELSE ClassifyNonFutureCounter(st, counter)

ClassifyWithRollover(st, counter) ==
    IF Minus(counter, st.mMaxCounter) \in 1 .. FutureCounterWindow
      THEN "FutureCounter"
      ELSE ClassifyNonFutureCounter(st, counter)

\* mWindow.test(offset - 1) for a counter in the window.
SeenInWindow(st, counter) == Minus(st.mMaxCounter, counter) - 1 \in st.mWindow

\* TRUE stands for CHIP_NO_ERROR, FALSE for CHIP_ERROR_DUPLICATE_MESSAGE_RECEIVED.
VerifyPositionEncrypted(st, position, counter) ==
    \/ position = "FutureCounter"
    \/ position = "InWindow" /\ ~SeenInWindow(st, counter)

VerifyPositionUnencrypted(st, position, counter) ==
    \/ position \in {"FutureCounter", "BeforeWindow"}
    \/ position = "InWindow" /\ ~SeenInWindow(st, counter)

\* CommitWithPosition without the bit of the former maximum.
CommitForgetsOldMax(st, position, counter) ==
    LET shift == Minus(counter, st.mMaxCounter)
        moved == {b \in Bits : b - shift \in st.mWindow}
    IN CASE position = "InWindow" ->
              [st EXCEPT !.mWindow = @ \cup {Minus(st.mMaxCounter, counter) - 1}]
         [] position = "MaxCounter" -> st
         [] OTHER -> [st EXCEPT !.mMaxCounter = counter,
                                !.mWindow = IF shift > WindowSize THEN {} ELSE moved]

\* CommitWithPosition: set the bit, or move the window up to the new maximum.
CommitWithPosition(st, position, counter) ==
    LET shift == Minus(counter, st.mMaxCounter)
        moved == {b \in Bits : b - shift \in st.mWindow}
    IN CASE position = "InWindow" ->
              [st EXCEPT !.mWindow = @ \cup {Minus(st.mMaxCounter, counter) - 1}]
         [] position = "MaxCounter" -> st
         [] OTHER -> [st EXCEPT !.mMaxCounter = counter,
                                !.mWindow = IF shift > WindowSize
                                              THEN {}
                                              ELSE moved \cup {shift - 1}]

-------------------------------------------------------------------------------
\* Secure unicast sessions: synced from the start, no rollover.
VerifyEncryptedUnicast(st, counter) ==
    /\ st.synced
    /\ VerifyPositionEncrypted(st, ClassifyWithoutRollover(st, counter), counter)

CommitEncryptedUnicast(st, counter) ==
    CommitWithPosition(st, ClassifyWithoutRollover(st, counter), counter)

\* Group messages and unencrypted messages trust the first counter they see:
\* verification itself then sets the counter.
TrustFirst(st, counter) == IF st.synced THEN st ELSE SetCounter(counter)

VerifyOrTrustFirstGroup(st, counter) ==
    ~st.synced \/ VerifyPositionEncrypted(st, ClassifyWithRollover(st, counter), counter)

VerifyUnencrypted(st, counter) ==
    ~st.synced \/ VerifyPositionUnencrypted(st, ClassifyWithRollover(st, counter), counter)

CommitWithRollover(st, counter) ==
    LET trusted == TrustFirst(st, counter)
    IN CommitWithPosition(trusted, ClassifyWithRollover(trusted, counter), counter)
===============================================================================
