------------------------ MODULE GroupOutgoingCounters ------------------------
(***************************************************************************)
(* The counters of outgoing group messages, GroupOutgoingCounters of       *)
(* src/src/transport/GroupPeerMessageCounter.cpp as SessionManager uses    *)
(* them.  There is one for control and one for data messages.  Storage     *)
(* holds the first value that is not reserved yet; it is written again     *)
(* only when the counter EQUALS it, so a write that fails is never tried   *)
(* again in that boot.                                                     *)
(***************************************************************************)
EXTENDS Integers

CONSTANTS
    MaxGroupCounter,    \* UINT32_MAX
    MinIncrement,       \* GROUP_MSG_COUNTER_MIN_INCREMENT (1000)
    RandomStarts,       \* the random start values of a new device
    StoreResults        \* the outcomes of a storage write that are explored

ASSUME GroupCounterAssumption ==
    /\ MaxGroupCounter \in Nat
    /\ MinIncrement \in 1..MaxGroupCounter
    /\ RandomStarts \subseteq 1..MaxGroupCounter
    /\ StoreResults \subseteq BOOLEAN

Kinds == {"control", "data"}
Absent == -1

VARIABLES
    groupCounter,   \* mGroupControlCounter, mGroupDataCounter
    groupStored,    \* what storage holds for each, or Absent
    groupUp,        \* SessionManager::Init has succeeded
    groupSent,      \* history: the counters of all group messages, in any boot
    groupLate,      \* history: a write for this counter failed since it was last in step
    groupReused,    \* history: a reboot came while it was late
    groupWrapped    \* history: a counter or a reservation passed MaxGroupCounter

groupVars == <<groupCounter, groupStored, groupUp, groupSent, groupLate, groupReused, groupWrapped>>

Plus(n, i) == (n + i) % (MaxGroupCounter + 1)

GroupInit ==
    /\ groupCounter = [c \in Kinds |-> 0]
    /\ groupStored = [c \in Kinds |-> Absent]
    /\ groupUp = FALSE
    /\ groupSent = [c \in Kinds |-> {}]
    /\ groupLate = [c \in Kinds |-> FALSE]
    /\ groupReused = [c \in Kinds |-> FALSE]
    /\ groupWrapped = FALSE

Start(c) == IF groupStored[c] = Absent THEN RandomStarts ELSE {groupStored[c]}

\* Init: both counters are read, then both reservations are written, the one of
\* the data counter only if the first write succeeded.
GroupCountersInit(okControl, okData) ==
    LET written == [control |-> okControl, data |-> okControl /\ okData]
    IN  /\ ~groupUp
        /\ \E control \in Start("control"), data \in Start("data") :
              groupCounter' = [control |-> control, data |-> data]
        /\ groupStored' = [c \in Kinds |-> IF written[c] THEN Plus(groupCounter'[c], MinIncrement)
                                           ELSE groupStored[c]]
        /\ groupUp' = (okControl /\ okData)
        /\ groupWrapped' = (groupWrapped \/ \E c \in Kinds : groupCounter'[c] + MinIncrement > MaxGroupCounter)
        /\ groupLate' = [c \in Kinds |-> FALSE]
        /\ UNCHANGED <<groupSent, groupReused>>

\* IncrementCounter that reserves nothing beyond the value it has reached.
IncrementReservesNothing(c, ok) ==
    /\ groupCounter' = [groupCounter EXCEPT ![c] = Plus(groupCounter[c], 1)]
    /\ groupStored' = IF groupStored[c] = groupCounter'[c] /\ ok
                      THEN [groupStored EXCEPT ![c] = groupCounter'[c]] ELSE groupStored
    /\ groupLate' = IF groupStored[c] = groupCounter'[c]
                    THEN [groupLate EXCEPT ![c] = ~ok] ELSE groupLate
    /\ groupWrapped' = (groupWrapped \/ groupCounter'[c] + MinIncrement > MaxGroupCounter)

\* IncrementCounter
IncrementCounter(c, ok) ==
    LET reached == groupStored[c] = Plus(groupCounter[c], 1)
    IN  /\ groupCounter' = [groupCounter EXCEPT ![c] = Plus(groupCounter[c], 1)]
        /\ groupStored' = IF reached /\ ok
                          THEN [groupStored EXCEPT ![c] = Plus(groupCounter'[c], MinIncrement)]
                          ELSE groupStored
        /\ groupLate' = IF reached THEN [groupLate EXCEPT ![c] = ~ok] ELSE groupLate
        /\ groupWrapped' = (groupWrapped \/ groupCounter'[c] + MinIncrement > MaxGroupCounter)

\* PrepareMessage on a group session: the message takes the value, then the
\* counter is incremented and the result ignored.
SendGroupMessage(c, ok) ==
    /\ groupUp
    /\ groupSent' = [groupSent EXCEPT ![c] = @ \cup {groupCounter[c]}]
    /\ IncrementCounter(c, ok)
    /\ UNCHANGED <<groupUp, groupReused>>

GroupReboot ==
    /\ groupUp
    /\ groupUp' = FALSE
    /\ groupReused' = [c \in Kinds |-> groupReused[c] \/ groupLate[c]]
    /\ UNCHANGED <<groupCounter, groupStored, groupSent, groupLate, groupWrapped>>

\* Bound: a device that has used up the range of a counter is not followed further,
\* nothing is claimed about it.
GroupNext ==
    /\ ~groupWrapped
    /\ \/ \E okControl, okData \in StoreResults : GroupCountersInit(okControl, okData)
       \/ \E c \in Kinds, ok \in StoreResults : SendGroupMessage(c, ok)
       \/ GroupReboot

\* No group message takes a counter that an earlier one of its kind took, over
\* reboots and failed writes, unless a reboot followed a failed reservation or
\* the 32-bit range was used up (GroupOutgoingCounters::Init, IncrementCounter).
FreshGroupCounter ==
    groupUp /\ ~groupWrapped =>
        \A c \in Kinds : ~groupReused[c] => \A n \in groupSent[c] : n < groupCounter[c]

GroupTypeOK ==
    /\ groupCounter \in [Kinds -> 0..MaxGroupCounter]
    /\ groupStored \in [Kinds -> (0..MaxGroupCounter) \cup {Absent}]
    /\ groupUp \in BOOLEAN
    /\ groupSent \in [Kinds -> SUBSET (0..MaxGroupCounter)]
    /\ groupLate \in [Kinds -> BOOLEAN]
    /\ groupReused \in [Kinds -> BOOLEAN]
    /\ groupWrapped \in BOOLEAN

\* What a reboot will resume from is above every counter sent, and the counter
\* in use stays below what is reserved unless a reservation failed.
Reserved(c) ==
    /\ groupUp => groupStored[c] # Absent
    /\ groupStored[c] = Absent => groupSent[c] = {}
    /\ ~groupWrapped =>
          /\ groupUp => groupCounter[c] + MinIncrement <= MaxGroupCounter
          /\ groupUp /\ ~groupLate[c] => groupCounter[c] < groupStored[c]
          /\ ~groupUp /\ ~groupReused[c] => \A n \in groupSent[c] : n < groupStored[c]

\* The inductive invariant behind FreshGroupCounter.
GroupIndInv == GroupTypeOK /\ (\A c \in Kinds : Reserved(c)) /\ FreshGroupCounter
===============================================================================
