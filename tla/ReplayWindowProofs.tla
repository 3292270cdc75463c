-------------------------- MODULE ReplayWindowProofs --------------------------
(***************************************************************************)
(* The bounded replay window decides exactly like a receiver that          *)
(* remembers every counter: for every window size and counter width, in    *)
(* all three modes.                                                        *)
(***************************************************************************)
EXTENDS ReplayWindow, TLAPS

N == MaxCounter + 1

Positions == {"MaxCounter", "InWindow", "BeforeWindow", "FutureCounter"}

\* The remainder of an integer is in range.
LEMMA ModRange ==
    ASSUME NEW n \in Nat \ {0}, NEW t \in Int
    PROVE  (t % n) \in 0 .. (n - 1)
  OBVIOUS

\* Division with remainder.
LEMMA ModDecompose ==
    ASSUME NEW n \in Nat \ {0}, NEW t \in Int
    PROVE  (t \div n) \in Int /\ t = (t \div n) * n + (t % n)
  OBVIOUS

\* Remainders are unique.
LEMMA ModUnique ==
    ASSUME NEW n \in Nat \ {0}, NEW q \in Int, NEW r \in 0 .. (n - 1)
    PROVE  ((q * n + r) % n) = r
  OBVIOUS

\* Unsigned subtraction is subtraction modulo N, in range, zero only on equal
\* arguments, and complementary.
LEMMA MinusFacts ==
    ASSUME NEW a \in Counters, NEW b \in Counters
    PROVE  /\ Minus(a, b) \in Counters
           /\ Minus(a, b) = 0 <=> a = b
           /\ a # b => Minus(a, b) + Minus(b, a) = N
           /\ a >= b => Minus(a, b) = a - b
  BY WindowAssumption DEF Counters, Minus, N

\* The distance from the unwrapped maximum equals the code's subtraction.
LEMMA AheadIsMinus ==
    ASSUME NEW t \in Int, NEW c \in Counters, NEW m \in Counters,
           m = (t % N)
    PROVE  /\ ((c - t) % N) = Minus(c, m)
           /\ ((t + Minus(c, m)) % N) = c
  <1> DEFINE q == t \div N
  <1>1. N \in Nat \ {0} /\ c \in 0 .. (N - 1) /\ m \in 0 .. (N - 1)
    BY WindowAssumption DEF N, Counters
  <1>2. q \in Int /\ t = q * N + m
    BY <1>1, ModDecompose
  <1> HIDE DEF q
  <1>3. CASE c >= m
    <2>1. c - t = (-q) * N + (c - m) /\ t + (c - m) = q * N + c
      BY <1>1, <1>2
    <2>2. (c - m) \in 0 .. (N - 1) /\ -q \in Int
      BY <1>1, <1>2, <1>3
    <2>3. (((-q) * N + (c - m)) % N) = c - m
      BY <1>1, <2>2, ModUnique
    <2>4. ((q * N + c) % N) = c
      BY <1>1, <1>2, ModUnique
    <2>5. Minus(c, m) = c - m
      BY <1>3 DEF Minus
    <2> QED
      BY <2>1, <2>3, <2>4, <2>5
  <1>4. CASE ~(c >= m)
    <2>1. /\ c - t = (-q - 1) * N + (c + N - m)
          /\ t + (c + N - m) = (q + 1) * N + c
      BY <1>1, <1>2
    <2>2. (c + N - m) \in 0 .. (N - 1) /\ (-q - 1) \in Int /\ (q + 1) \in Int
      BY <1>1, <1>2, <1>4
    <2>3. (((-q - 1) * N + (c + N - m)) % N) = c + N - m
      BY <1>1, <2>2, ModUnique
    <2>4. (((q + 1) * N + c) % N) = c
      BY <1>1, <2>2, ModUnique
    <2>5. Minus(c, m) = c + N - m
      BY <1>4 DEF Minus, N
    <2> QED
      BY <2>1, <2>3, <2>4, <2>5
  <1> QED
    BY <1>3, <1>4

-------------------------------------------------------------------------------
\* How the code's position of a counter places its unwrapped value.
LEMMA PositionMeaning ==
    ASSUME WindowIndInv, counter.synced, NEW c \in Counters
    PROVE  LET m == counter.mMaxCounter
               p == Classify(c)
               u == Unwrapped(c)
           IN /\ m \in Counters /\ top \in Int /\ u \in Int
              /\ p \in Positions
              /\ p = "FutureCounter" => u = top + Minus(c, m) /\ Minus(c, m) >= 1
              /\ p # "FutureCounter" => u = top - Minus(m, c)
              /\ p = "MaxCounter" => c = m /\ u = top
              /\ p = "InWindow" => Minus(m, c) \in 1 .. WindowSize
              /\ p = "BeforeWindow" => Minus(m, c) > WindowSize
              /\ p = "BeforeWindow" /\ mode # "unicast" =>
                    Minus(c, m) > WindowSize
              /\ p = "FutureCounter" => (u % N) = c
  <1> DEFINE m == counter.mMaxCounter
  <1>1. m \in Counters /\ top \in Int /\ m = (top % N)
    BY DEF WindowIndInv, WindowTypeOK, PeerCounters, TopMatches, N
  <1> HIDE DEF m
  <1>2. /\ Minus(c, m) \in Nat /\ Minus(m, c) \in Nat
        /\ Minus(c, m) <= MaxCounter /\ Minus(m, c) <= MaxCounter
        /\ Minus(c, m) = 0 <=> c = m
        /\ Minus(m, c) = 0 <=> c = m
        /\ c # m => Minus(c, m) + Minus(m, c) = N
        /\ c >= m => Minus(c, m) = c - m
        /\ m >= c => Minus(m, c) = m - c
    <2>1. /\ Minus(c, m) \in Counters
          /\ Minus(c, m) = 0 <=> c = m
          /\ c # m => Minus(c, m) + Minus(m, c) = N
          /\ c >= m => Minus(c, m) = c - m
      BY <1>1, MinusFacts
    <2>2. /\ Minus(m, c) \in Counters
          /\ Minus(m, c) = 0 <=> m = c
          /\ m >= c => Minus(m, c) = m - c
      BY <1>1, MinusFacts
    <2> QED
      BY <2>1, <2>2, WindowAssumption DEF Counters
  <1>3. /\ ((c - top) % N) = Minus(c, m)
        /\ ((top + Minus(c, m)) % N) = c
    BY <1>1, AheadIsMinus
  <1>4. CASE mode = "unicast"
    <2>1. Unwrapped(c) = c /\ top = m
      BY <1>4 DEF Unwrapped, WindowIndInv, TopMatches, m
    <2>2. Classify(c) = IF c > m THEN "FutureCounter"
                                 ELSE ClassifyNonFutureCounter(counter, c)
      BY <1>4 DEF Classify, ClassifyWithoutRollover, m
    <2>3. CASE c > m
      BY <1>1, <1>2, <1>3, <1>4, <2>1, <2>2, <2>3, WindowAssumption
      DEF Positions, Counters, m
    <2>4. CASE ~(c > m)
      <3>1. Classify(c) = ClassifyNonFutureCounter(counter, c)
        BY <2>2, <2>4
      <3>2. Minus(m, c) = m - c
        BY <1>1, <1>2, <2>4 DEF Counters
      <3>3. top - Minus(m, c) = c
        BY <1>1, <2>1, <3>2 DEF Counters
      <3>4. CASE c = m
        BY <1>1, <1>2, <1>4, <2>1, <3>1, <3>3, <3>4
        DEF Positions, Counters, m, ClassifyNonFutureCounter
      <3>5. CASE c # m
        <4>1. Minus(m, c) >= 1
          BY <1>2, <3>5
        <4>2. CASE Minus(m, c) <= WindowSize
          <5>1. Classify(c) = "InWindow"
            BY <3>1, <3>5, <4>2 DEF ClassifyNonFutureCounter, m
          <5> QED
            BY <1>1, <1>2, <1>4, <2>1, <3>3, <4>1, <4>2, <5>1, WindowAssumption
            DEF Positions, Counters, m
        <4>3. CASE ~(Minus(m, c) <= WindowSize)
          <5>1. Classify(c) = "BeforeWindow"
            BY <3>1, <3>5, <4>3 DEF ClassifyNonFutureCounter, m
          <5> QED
            BY <1>1, <1>2, <1>4, <2>1, <3>3, <4>3, <5>1, WindowAssumption
            DEF Positions, Counters, m
        <4> QED
          BY <4>2, <4>3
      <3> QED
        BY <3>4, <3>5
    <2> QED
      BY <2>3, <2>4
  <1>5. CASE mode # "unicast"
    <2>1. /\ Minus(c, m) < (N \div 2) => Unwrapped(c) = top + Minus(c, m)
          /\ ~(Minus(c, m) < (N \div 2)) => Unwrapped(c) = top + Minus(c, m) - N
      BY <1>3, <1>5 DEF Unwrapped, N
    <2>2. Classify(c) = IF Minus(c, m) \in 1 .. (N \div 2) - 1
                          THEN "FutureCounter"
                          ELSE ClassifyNonFutureCounter(counter, c)
      BY <1>5 DEF Classify, ClassifyWithRollover, FutureCounterWindow, N, m
    <2>3. (N \div 2) \in Nat /\ WindowSize < (N \div 2) /\ N \in Nat
      BY WindowAssumption DEF N
    <2>4. CASE Minus(c, m) \in 1 .. (N \div 2) - 1
      BY <1>1, <1>2, <1>3, <1>5, <2>1, <2>2, <2>3, <2>4
      DEF Positions, m
    <2>5. CASE c = m
      BY <1>1, <1>2, <1>5, <2>1, <2>2, <2>3, <2>5, WindowAssumption
      DEF Positions, m, ClassifyNonFutureCounter
    <2>6. CASE c # m /\ ~(Minus(c, m) \in 1 .. (N \div 2) - 1)
      <3>1. /\ ~(Minus(c, m) < (N \div 2))
            /\ Unwrapped(c) = top - Minus(m, c)
            /\ Minus(c, m) > WindowSize
        BY <1>1, <1>2, <2>1, <2>3, <2>6, WindowAssumption
      <3>2. Classify(c) = ClassifyNonFutureCounter(counter, c)
        BY <2>2, <2>6
      <3> QED
        BY <1>1, <1>2, <1>5, <2>6, <3>1, <3>2, WindowAssumption
        DEF Positions, m, ClassifyNonFutureCounter
    <2> QED
      BY <2>4, <2>5, <2>6
  <1> QED
    BY <1>4, <1>5

\* Verification in terms of the position.
LEMMA VerifyMeaning ==
    ASSUME WindowIndInv, counter.synced, NEW c \in Counters
    PROVE  /\ Classify(c) = "FutureCounter" => Verify(c)
           /\ Classify(c) = "MaxCounter" => ~Verify(c)
           /\ Classify(c) = "InWindow" =>
                (Verify(c) <=> Minus(counter.mMaxCounter, c) - 1 \notin counter.mWindow)
           /\ Classify(c) = "BeforeWindow" => (Verify(c) <=> mode = "unencrypted")
  BY DEF WindowIndInv, WindowTypeOK, Modes, Verify, Classify, VerifyEncryptedUnicast, VerifyOrTrustFirstGroup,
      VerifyUnencrypted, VerifyPositionEncrypted, VerifyPositionUnencrypted,
      SeenInWindow

\* The inductive invariant gives the exactness of the window.
LEMMA IndInvExact == WindowIndInv => WindowExact
  <1> SUFFICES ASSUME WindowIndInv, counter.synced, NEW c \in Counters
               PROVE  Verify(c) <=> IF Unwrapped(c) >= top - WindowSize
                                      THEN Unwrapped(c) \notin seen
                                      ELSE mode = "unencrypted"
    BY DEF WindowExact
  <1> DEFINE m == counter.mMaxCounter
             u == Unwrapped(c)
             p == Classify(c)
  <1>1. /\ m \in Counters /\ top \in Int /\ u \in Int
        /\ p \in Positions
        /\ p = "FutureCounter" => u = top + Minus(c, m) /\ Minus(c, m) >= 1
        /\ p # "FutureCounter" => u = top - Minus(m, c)
        /\ p = "MaxCounter" => c = m /\ u = top
        /\ p = "InWindow" => Minus(m, c) \in 1 .. WindowSize
        /\ p = "BeforeWindow" => Minus(m, c) > WindowSize
    BY PositionMeaning
  <1>2. /\ top \in seen /\ \A s \in seen : s <= top
        /\ \A b \in Bits : b \in counter.mWindow <=> top - (b + 1) \in seen
    BY DEF WindowIndInv, WindowTracksSeen
  <1>3. Minus(c, m) \in Int /\ Minus(m, c) \in Int /\ WindowSize \in Nat
    <2>1. Minus(c, m) \in Counters /\ Minus(m, c) \in Counters
      BY <1>1, MinusFacts
    <2> QED
      BY <2>1, WindowAssumption DEF Counters
  <1> HIDE DEF u, p, m
  <1>4. CASE p = "FutureCounter"
    <2>1. Verify(c)
      BY <1>4, VerifyMeaning DEF p
    <2>2. u > top /\ u >= top - WindowSize
      BY <1>1, <1>3, <1>4
    <2>3. u \notin seen
      BY <1>1, <1>2, <2>2
    <2> QED
      BY <2>1, <2>2, <2>3 DEF u
  <1>5. CASE p = "MaxCounter"
    <2>1. ~Verify(c)
      BY <1>5, VerifyMeaning DEF p
    <2>2. u >= top - WindowSize /\ u \in seen
      BY <1>1, <1>2, <1>3, <1>5
    <2> QED
      BY <2>1, <2>2 DEF u
  <1>6. CASE p = "InWindow"
    <2>1. Verify(c) <=> Minus(m, c) - 1 \notin counter.mWindow
      BY <1>6, VerifyMeaning DEF p, m
    <2>2. /\ Minus(m, c) - 1 \in Bits
          /\ top - ((Minus(m, c) - 1) + 1) = u
          /\ u >= top - WindowSize
      BY <1>1, <1>3, <1>6 DEF Bits
    <2>3. Minus(m, c) - 1 \in counter.mWindow <=> u \in seen
      BY <1>2, <2>2
    <2> QED
      BY <2>1, <2>2, <2>3 DEF u
  <1>7. CASE p = "BeforeWindow"
    <2>1. Verify(c) <=> mode = "unencrypted"
      BY <1>7, VerifyMeaning DEF p
    <2>2. ~(u >= top - WindowSize)
      BY <1>1, <1>3, <1>7
    <2> QED
      BY <2>1, <2>2 DEF u
  <1> QED
    BY <1>1, <1>4, <1>5, <1>6, <1>7 DEF Positions

-------------------------------------------------------------------------------
\* A counter just set has seen exactly itself.
LEMMA FreshCounterInv ==
    ASSUME NEW c \in Counters, counter' = SetCounter(c), top' = c, seen' = {c},
           mode' \in Modes
    PROVE  WindowIndInv'
  <1>1. c \in Int /\ (c % N) = c
    BY WindowAssumption DEF Counters, N
  <1>2. counter' \in PeerCounters /\ counter'.synced
    BY DEF SetCounter, PeerCounters
  <1>3. WindowTypeOK'
    BY <1>1, <1>2 DEF WindowTypeOK
  <1>4. WindowTracksSeen'
    BY <1>1, WindowAssumption DEF WindowTracksSeen, SetCounter, Bits
  <1>5. TopMatches'
    BY <1>1, <1>2 DEF TopMatches, SetCounter, N
  <1> QED
    BY <1>3, <1>4, <1>5 DEF WindowIndInv

\* The initial states satisfy the inductive invariant.
LEMMA WindowInitIndInv == WindowInit => WindowIndInv
  <1> SUFFICES ASSUME WindowInit
               PROVE  WindowIndInv
    OBVIOUS
  <1>1. 0 \in Counters /\ (0 % N) = 0 /\ 0 \in Int
    BY WindowAssumption DEF Counters, N
  <1>2. CASE mode = "unicast"
    <2>1. counter = SetCounter(0) /\ top = 0 /\ seen = {0}
      BY <1>2 DEF WindowInit, kInitialSyncValue
    <2>2. WindowTypeOK
      BY <1>1, <2>1 DEF WindowInit, WindowTypeOK, PeerCounters, SetCounter
    <2>3. WindowTracksSeen
      BY <2>1, WindowAssumption DEF WindowTracksSeen, SetCounter, Bits
    <2> QED
      BY <1>1, <2>1, <2>2, <2>3 DEF WindowIndInv, TopMatches, SetCounter, N
  <1>3. CASE mode # "unicast"
    <2>1. counter = NotSynced /\ top = 0 /\ seen = {}
      BY <1>3 DEF WindowInit, kInitialSyncValue
    <2>2. WindowTypeOK
      BY <1>1, <2>1 DEF WindowInit, WindowTypeOK, PeerCounters, NotSynced
    <2> QED
      BY <1>3, <2>1, <2>2 DEF WindowIndInv, TopMatches, WindowTracksSeen, NotSynced
  <1> QED
    BY <1>2, <1>3

\* The first counter of a peer is trusted and becomes the maximum.
LEMMA AcceptFirstIndInv ==
    ASSUME WindowIndInv, NEW c \in Counters, AcceptFirst(c)
    PROVE  WindowIndInv'
  <1>1. mode # "unicast" /\ ~counter.synced
    BY DEF AcceptFirst, WindowIndInv, TopMatches
  <1>2. Minus(c, c) = 0
    BY MinusFacts
  <1>3. SetCounter(c).mMaxCounter = c
    BY DEF SetCounter
  <1>4. ClassifyWithRollover(SetCounter(c), c) = "MaxCounter"
    BY <1>2, <1>3 DEF ClassifyWithRollover, ClassifyNonFutureCounter
  <1>5. counter' = SetCounter(c)
    BY <1>1, <1>4
    DEF AcceptFirst, Commit, CommitWithRollover, TrustFirst, CommitWithPosition
  <1> QED
    BY <1>5, FreshCounterInv DEF AcceptFirst, WindowIndInv, WindowTypeOK

\* A restarted unencrypted peer: its counter becomes the maximum and the window
\* is emptied, because it lies further ahead, modulo 2^32, than the window is
\* wide.
LEMMA AcceptRestartIndInv ==
    ASSUME WindowIndInv, NEW c \in Counters, AcceptRestart(c)
    PROVE  WindowIndInv'
  <1>1. counter.synced /\ Classify(c) = "BeforeWindow" /\ mode # "unicast"
    BY VerifyMeaning DEF AcceptRestart
  <1>2. Minus(c, counter.mMaxCounter) > WindowSize
    BY <1>1, PositionMeaning
  <1>3. /\ counter \in PeerCounters
        /\ ClassifyWithRollover(counter, c) = "BeforeWindow"
    BY <1>1 DEF WindowIndInv, WindowTypeOK, Classify
  <1>4. counter' = [counter EXCEPT !.mMaxCounter = c, !.mWindow = {}]
    BY <1>1, <1>2, <1>3
    DEF AcceptRestart, Commit, CommitWithRollover, TrustFirst, CommitWithPosition
  <1>5. counter' = SetCounter(c)
    BY <1>1, <1>3, <1>4 DEF PeerCounters, SetCounter
  <1> QED
    BY <1>5, FreshCounterInv DEF AcceptRestart, WindowIndInv, WindowTypeOK

\* How Commit changes the counter, by position.
LEMMA CommitMeaning ==
    ASSUME WindowIndInv, counter.synced, NEW c \in Counters
    PROVE  LET s == Minus(c, counter.mMaxCounter)
           IN /\ Classify(c) = "InWindow" =>
                   Commit(c) = [counter EXCEPT
                     !.mWindow = @ \cup {Minus(counter.mMaxCounter, c) - 1}]
              /\ Classify(c) = "FutureCounter" =>
                   Commit(c) = [counter EXCEPT
                     !.mMaxCounter = c,
                     !.mWindow = IF s > WindowSize
                                   THEN {}
                                   ELSE {b \in Bits : b - s \in counter.mWindow}
                                          \cup {s - 1}]
  BY DEF Commit, Classify, CommitEncryptedUnicast, CommitWithRollover, TrustFirst,
         CommitWithPosition

\* A counter in the window sets its bit.
LEMMA AcceptInWindowIndInv ==
    ASSUME WindowIndInv, NEW c \in Counters, Accept(c), Classify(c) = "InWindow"
    PROVE  WindowIndInv'
  <1> DEFINE d == Minus(counter.mMaxCounter, c)
  <1>0. mode' = mode /\ mode \in Modes
    BY DEF Accept, WindowIndInv, WindowTypeOK
  <1>1. counter.synced /\ counter \in PeerCounters /\ seen \subseteq Int
    BY DEF Accept, WindowIndInv, WindowTypeOK
  <1>2. d \in 1 .. WindowSize /\ Unwrapped(c) = top - d /\ top \in Int
    BY <1>1, PositionMeaning
  <1>3. counter' = [counter EXCEPT !.mWindow = @ \cup {d - 1}]
    BY <1>1, CommitMeaning DEF Accept
  <1> HIDE DEF d
  <1>4. d \in Nat /\ d - 1 \in Bits /\ d >= 1
    BY <1>2, WindowAssumption DEF Bits
  <1>5. top' = top /\ seen' = seen \cup {top - d}
    BY <1>2, <1>4 DEF Accept
  <1>6. /\ counter' \in PeerCounters /\ counter'.synced = counter.synced
        /\ counter'.mMaxCounter = counter.mMaxCounter
        /\ counter'.mWindow = counter.mWindow \cup {d - 1}
    BY <1>1, <1>3, <1>4 DEF PeerCounters
  <1>7. WindowTypeOK'
    <2>1. top - d \in Int
      BY <1>2, <1>4
    <2> QED
      BY <1>0, <1>1, <1>2, <1>5, <1>6, <2>1 DEF WindowTypeOK
  <1>8. WindowTracksSeen'
    <2>1. /\ top \in seen /\ \A s \in seen : s <= top
          /\ \A b \in Bits : b \in counter.mWindow <=> top - (b + 1) \in seen
      BY <1>1 DEF WindowIndInv, WindowTracksSeen
    <2>2. top \in seen' /\ \A s \in seen' : s <= top
      BY <1>2, <1>4, <1>5, <2>1
    <2>3. ASSUME NEW b \in Bits
          PROVE  b \in counter'.mWindow <=> top - (b + 1) \in seen'
      <3>1. b = d - 1 <=> top - (b + 1) = top - d
        BY <1>2, <1>4, WindowAssumption DEF Bits
      <3> QED
        BY <1>5, <1>6, <2>1, <3>1
    <2> QED
      BY <1>5, <2>2, <2>3 DEF WindowTracksSeen
  <1>9. TopMatches'
    BY <1>0, <1>1, <1>5, <1>6 DEF WindowIndInv, TopMatches
  <1> QED
    BY <1>7, <1>8, <1>9 DEF WindowIndInv

\* A counter above the maximum moves the window up.
LEMMA AcceptFutureIndInv ==
    ASSUME WindowIndInv, NEW c \in Counters, Accept(c), Classify(c) = "FutureCounter"
    PROVE  WindowIndInv'
  <1> DEFINE s == Minus(c, counter.mMaxCounter)
  <1>0. mode' = mode /\ mode \in Modes
    BY DEF Accept, WindowIndInv, WindowTypeOK
  <1>1. counter.synced /\ counter \in PeerCounters /\ seen \subseteq Int
    BY DEF Accept, WindowIndInv, WindowTypeOK
  <1>2. /\ s >= 1 /\ Unwrapped(c) = top + s /\ top \in Int
        /\ ((top + s) % N) = c
    BY <1>1, PositionMeaning
  <1>3. counter' = [counter EXCEPT
                     !.mMaxCounter = c,
                     !.mWindow = IF s > WindowSize
                                   THEN {}
                                   ELSE {b \in Bits : b - s \in counter.mWindow}
                                          \cup {s - 1}]
    BY <1>1, CommitMeaning DEF Accept
  <1>4. s \in Nat
    <2>1. counter.mMaxCounter \in Counters
      BY <1>1 DEF PeerCounters
    <2>2. s \in Counters
      BY <2>1, MinusFacts
    <2> QED
      BY <2>2, WindowAssumption DEF Counters
  <1> HIDE DEF s
  <1>5. top' = top + s /\ seen' = seen \cup {top + s}
    BY <1>2, <1>4 DEF Accept
  <1>6. /\ counter'.synced = counter.synced
        /\ counter'.mMaxCounter = c
        /\ counter'.mWindow = IF s > WindowSize
                                THEN {}
                                ELSE {b \in Bits : b - s \in counter.mWindow}
                                       \cup {s - 1}
    BY <1>1, <1>3 DEF PeerCounters
  <1>7. s <= WindowSize => s - 1 \in Bits
    BY <1>2, <1>4, WindowAssumption DEF Bits
  <1>8. counter' \in PeerCounters
    <2>1. counter'.mWindow \in SUBSET Bits
      <3>1. CASE s > WindowSize
        BY <1>6, <3>1
      <3>2. CASE ~(s > WindowSize)
        <4>1. s - 1 \in Bits
          BY <1>4, <1>7, <3>2, WindowAssumption
        <4> QED
          BY <1>6, <3>2, <4>1
      <3> QED
        BY <3>1, <3>2
    <2> DEFINE w == counter'.mWindow
    <2>2. counter' = [counter EXCEPT !.mMaxCounter = c, !.mWindow = w]
      BY <1>3, <1>6
    <2> HIDE DEF w
    <2>3. w \in SUBSET Bits
      BY <2>1 DEF w
    <2> QED
      BY <1>1, <2>2, <2>3 DEF PeerCounters
  <1>9. WindowTypeOK'
    BY <1>0, <1>1, <1>2, <1>4, <1>5, <1>8 DEF WindowTypeOK
  <1>10. WindowTracksSeen'
    <2>1. /\ top \in seen /\ \A x \in seen : x <= top
          /\ \A b \in Bits : b \in counter.mWindow <=> top - (b + 1) \in seen
      BY <1>1 DEF WindowIndInv, WindowTracksSeen
    <2>2. top' \in seen' /\ \A x \in seen' : x <= top'
      BY <1>1, <1>2, <1>4, <1>5, <2>1
    <2>3. ASSUME NEW b \in Bits
          PROVE  b \in counter'.mWindow <=> top' - (b + 1) \in seen'
      <3>1. b \in Nat /\ b + 1 <= WindowSize /\ WindowSize \in Nat
        BY WindowAssumption DEF Bits
      <3>2. top' - (b + 1) # top + s
        BY <1>2, <1>4, <1>5, <3>1
      <3>3. top' - (b + 1) \in seen' <=> (top + s) - (b + 1) \in seen
        BY <1>5, <3>2
      <3>4. CASE s > WindowSize
        <4>1. (top + s) - (b + 1) > top
          BY <1>2, <1>4, <3>1, <3>4
        <4>2. (top + s) - (b + 1) \notin seen
          BY <1>2, <1>4, <2>1, <3>1, <4>1
        <4> QED
          BY <1>6, <3>3, <3>4, <4>2
      <3>5. CASE s <= WindowSize
        <4>0. b \in counter'.mWindow <=> b - s \in counter.mWindow \/ b = s - 1
          BY <1>4, <1>6, <3>1, <3>5, WindowAssumption
        <4>1. CASE b >= s
          <5>1. b - s \in Bits /\ top - ((b - s) + 1) = (top + s) - (b + 1) /\ b # s - 1
            BY <1>2, <1>4, <3>1, <4>1 DEF Bits
          <5>2. b - s \in counter.mWindow <=> (top + s) - (b + 1) \in seen
            BY <2>1, <5>1
          <5> QED
            BY <3>3, <4>0, <5>1, <5>2
        <4>2. CASE b = s - 1
          <5>1. (top + s) - (b + 1) = top
            BY <1>2, <1>4, <4>2
          <5> QED
            BY <2>1, <3>3, <4>0, <4>2, <5>1
        <4>3. CASE b < s - 1
          <5>1. (top + s) - (b + 1) > top /\ b - s < 0 /\ b # s - 1
            BY <1>2, <1>4, <3>1, <4>3
          <5>2. (top + s) - (b + 1) \notin seen
            BY <1>2, <1>4, <2>1, <3>1, <5>1
          <5>3. b - s \notin counter.mWindow
            BY <1>1, <5>1 DEF PeerCounters, Bits
          <5> QED
            BY <3>3, <4>0, <5>1, <5>2, <5>3
        <4> QED
          BY <1>4, <3>1, <4>1, <4>2, <4>3
      <3> QED
        BY <1>4, <3>1, <3>4, <3>5
    <2> QED
      BY <2>2, <2>3 DEF WindowTracksSeen
  <1>11. TopMatches'
    <2>1. mode = "unicast" => c = top + s
      BY <1>2 DEF Unwrapped
    <2> QED
      BY <1>0, <1>1, <1>2, <1>5, <1>6, <2>1 DEF WindowIndInv, TopMatches, N
  <1> QED
    BY <1>9, <1>10, <1>11 DEF WindowIndInv

\* Every step preserves the inductive invariant.
LEMMA WindowNextIndInv == WindowIndInv /\ [WindowNext]_windowVars => WindowIndInv'
  <1> SUFFICES ASSUME WindowIndInv, [WindowNext]_windowVars
               PROVE  WindowIndInv'
    OBVIOUS
  <1>1. CASE UNCHANGED windowVars
    BY <1>1 DEF WindowIndInv, WindowTypeOK, WindowTracksSeen, TopMatches, windowVars
  <1>2. CASE WindowNext
    <2>1. PICK c \in Counters : AcceptFirst(c) \/ Accept(c) \/ AcceptRestart(c)
      BY <1>2 DEF WindowNext
    <2>2. CASE Accept(c)
      <3>1. counter.synced /\ Verify(c) /\ Classify(c) # "BeforeWindow"
        BY <2>2 DEF Accept
      <3>2. Classify(c) \in Positions /\ Classify(c) # "MaxCounter"
        BY <3>1, PositionMeaning, VerifyMeaning
      <3> QED
        BY <2>2, <3>1, <3>2, AcceptInWindowIndInv, AcceptFutureIndInv DEF Positions
    <2> QED
      BY <2>1, <2>2, AcceptFirstIndInv, AcceptRestartIndInv
  <1> QED
    BY <1>1, <1>2

\* For every window size, counter width and mode, over every sequence of
\* arriving counters: the window accepts a counter exactly when a receiver with
\* unbounded memory would.
THEOREM ReplayWindowIsExact == WindowSpec => []WindowExact
  BY WindowInitIndInv, WindowNextIndInv, IndInvExact, PTL DEF WindowSpec
===============================================================================
