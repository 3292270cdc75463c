----------------------------- MODULE ReplayWindow -----------------------------
(***************************************************************************)
(* One peer message counter under every sequence of arriving counters, in  *)
(* the three ways SessionManager uses it: secure unicast, group and        *)
(* unauthenticated messages.  The reference it is compared with remembers  *)
(* EVERY counter it has accepted, as unbounded integers: `top' is the      *)
(* unwrapped maximum and `seen' the unwrapped counters accepted since the  *)
(* peer was last taken to have restarted.                                  *)
(***************************************************************************)
EXTENDS PeerMessageCounter

CONSTANT MaxTop \* bound: the largest unwrapped counter explored

ASSUME MaxTopAssumption == MaxTop \in Nat

VARIABLES
    mode,    \* which of SessionManager's three receive paths uses the counter
    counter, \* PeerMessageCounter of the session or group peer
    top,     \* reference: unwrapped maximum
    seen     \* reference: unwrapped counters accepted

windowVars == <<mode, counter, top, seen>>

Modes == {"unicast", "group", "unencrypted"}

WindowTypeOK ==
    /\ mode \in Modes
    /\ counter \in PeerCounters
    /\ top \in Int
    /\ seen \subseteq Int

\* A secure session is synced to kInitialSyncValue when it is established; the
\* other two wait for the first message.
kInitialSyncValue == 0

WindowInit ==
    /\ mode \in Modes
    /\ top = kInitialSyncValue
    /\ IF mode = "unicast"
         THEN counter = SetCounter(kInitialSyncValue) /\ seen = {kInitialSyncValue}
         ELSE counter = NotSynced /\ seen = {}

Classify(c) ==
    IF mode = "unicast"
      THEN ClassifyWithoutRollover(counter, c)
      ELSE ClassifyWithRollover(counter, c)

Verify(c) ==
    CASE mode = "unicast" -> VerifyEncryptedUnicast(counter, c)
      [] mode = "group" -> VerifyOrTrustFirstGroup(counter, c)
      [] mode = "unencrypted" -> VerifyUnencrypted(counter, c)

Commit(c) ==
    IF mode = "unicast"
      THEN CommitEncryptedUnicast(counter, c)
      ELSE CommitWithRollover(counter, c)

\* The integer a wire counter stands for.  With rollover it is the only one
\* congruent to it in the half-open range of one modulus around `top' that
\* section 4.5.4.2 of the specification (quoted in the code) divides into new
\* and old counters.
Unwrapped(c) ==
    LET modulus == MaxCounter + 1
        ahead == (c - top) % modulus
    IN CASE mode = "unicast" -> c
         [] mode # "unicast" /\ ahead < modulus \div 2 -> top + ahead
         [] OTHER -> top + ahead - modulus

\* The first counter ever seen from this peer.
AcceptFirst(c) ==
    /\ ~counter.synced
    /\ Verify(c)
    /\ counter' = Commit(c)
    /\ top' = c
    /\ seen' = {c}
    /\ UNCHANGED mode

\* A counter that verifies is committed.
Accept(c) ==
    /\ counter.synced
    /\ Verify(c)
    /\ Classify(c) # "BeforeWindow"
    /\ Unwrapped(c) <= MaxTop
    /\ counter' = Commit(c)
    /\ top' = IF Unwrapped(c) > top THEN Unwrapped(c) ELSE top
    /\ seen' = seen \cup {Unwrapped(c)}
    /\ UNCHANGED mode

\* Unencrypted messages only: a counter below the window is taken for a peer
\* that restarted.
AcceptRestart(c) ==
    /\ counter.synced
    /\ Verify(c)
    /\ Classify(c) = "BeforeWindow"
    /\ counter' = Commit(c)
    /\ top' = c
    /\ seen' = {c}
    /\ UNCHANGED mode

WindowNext == \E c \in Counters : AcceptFirst(c) \/ Accept(c) \/ AcceptRestart(c)

WindowSpec == WindowInit /\ [][WindowNext]_windowVars

-------------------------------------------------------------------------------
\* The bounded window decides exactly as the unbounded reference would: a
\* counter verifies if and only if it was not accepted before and is at most
\* WindowSize below the maximum (or, unencrypted, further below than that, which
\* is read as a restarted peer).  So no message is accepted twice, and none that
\* is new and inside the window is refused, over jumps and rollovers.
WindowExact ==
    counter.synced =>
        \A c \in Counters :
            Verify(c) <=> IF Unwrapped(c) >= top - WindowSize
                            THEN Unwrapped(c) \notin seen
                            ELSE mode = "unencrypted"

\* The inductive invariant: the bits of the window are the reference's members
\* just below the maximum, and the maximum itself was seen.
WindowTracksSeen ==
    counter.synced =>
        /\ top \in seen
        /\ \A s \in seen : s <= top
        /\ \A b \in Bits : b \in counter.mWindow <=> top - (b + 1) \in seen

\* The code's maximum is the reference's, modulo the counter's range.
TopMatches ==
    /\ mode = "unicast" => counter.synced /\ top = counter.mMaxCounter
    /\ counter.synced => counter.mMaxCounter = top % (MaxCounter + 1)

WindowIndInv == WindowTypeOK /\ WindowTracksSeen /\ TopMatches
===============================================================================
