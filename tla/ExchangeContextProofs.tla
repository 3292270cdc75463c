------------------------- MODULE ExchangeContextProofs -------------------------
(***************************************************************************)
(* What the operations of ExchangeContext keep: the type of the node's     *)
(* state, the other exchanges, the life of a context, what the node        *)
(* acknowledges, and whose turn it is to speak.                            *)
(***************************************************************************)
EXTENDS ExchangeContext, TLAPS

\* An evicted session does not come back.
Evicted(s, t) == s.session = "PendingEviction" => t.session = "PendingEviction"

\* What no operation on exchange x may do: leave the type, touch another exchange,
\* hand a message to the application, or bring an evicted session back.
Local(s, t, x) ==
    /\ t \in NodeStates
    /\ t.node = s.node
    /\ t.delivered = s.delivered
    /\ Evicted(s, t)
    /\ \A y \in Exchanges : y # x => t.ec[y] = s.ec[y]

\* The fields that decide about the life of a context.
SameLife(c, d) ==
    /\ d.live = c.live /\ d.refs = c.refs /\ d.closed = c.closed
    /\ d.hasSession = c.hasSession /\ d.willSend = c.willSend
    /\ d.responseExpected = c.responseExpected /\ d.entry = c.entry

Quiet(s, t, x) == Local(s, t, x) /\ SameLife(s.ec[x], t.ec[x])

\* A context between two operations of a handler.
Sound(c) ==
    /\ c.live
    /\ c.refs \in {0, 1}
    /\ c.refs = 0 => c.closed
    /\ c.closed /\ c.refs = 1 => c.willSend /\ ~c.hasSession
    /\ ~c.closed => c.hasSession
    /\ c.entry # {} => c.hasSession /\ ~c.willSend

\* A context that an application has announced a message on, and holds.
Announced(c) == c.live /\ c.refs = 1 /\ c.willSend

\* A context at the end of a handler: an open one has somebody who will end it.
Settled(c) == Sound(c) /\ (~c.closed => c.willSend \/ c.responseExpected)

-------------------------------------------------------------------------------
\* Local changes add up.
LEMMA LocalTrans ==
    ASSUME NEW s, NEW t, NEW u, NEW x, Local(s, t, x), Local(t, u, x)
    PROVE  Local(s, u, x)
  BY DEF Local, Evicted

\* Quiet changes add up.
LEMMA QuietTrans ==
    ASSUME NEW s, NEW t, NEW u, NEW x, Quiet(s, t, x), Quiet(t, u, x)
    PROVE  Quiet(s, u, x)
  BY DEF Local, Quiet, SameLife, Evicted

\* Nothing done is a quiet change.
LEMMA QuietRefl ==
    ASSUME NEW s \in NodeStates, NEW x
    PROVE  Quiet(s, s, x)
  BY DEF Local, Quiet, SameLife, Evicted

\* A quiet change keeps a context as sound and as settled as it was.
LEMMA QuietKeeps ==
    ASSUME NEW s, NEW t, NEW x, Quiet(s, t, x)
    PROVE  /\ Sound(s.ec[x]) => Sound(t.ec[x])
           /\ Settled(s.ec[x]) => Settled(t.ec[x])
  BY DEF Quiet, SameLife, Sound, Settled

\* What an operation on exchange x assigns.
WithContext(s, x, c) == [s EXCEPT !.ec[x] = c]
WithSend(s, x, c, tx, sent, err) ==
    [s EXCEPT !.ec[x] = c, !.tx = tx, !.sent = sent, !.err = err]

\* Replacing the context of one exchange.
LEMMA UpdateContext ==
    ASSUME NEW s \in NodeStates, NEW x \in Exchanges, NEW c \in Contexts
    PROVE  LET t == WithContext(s, x, c)
           IN /\ Local(s, t, x) /\ t.ec[x] = c
              /\ t.err = s.err /\ t.tx = s.tx /\ t.sent = s.sent /\ t.up = s.up
  BY DEF NodeStates, Local, WithContext, Evicted

\* SetResponseExpected touches two flags of the context.
LEMMA SetResponseExpectedFacts ==
    ASSUME NEW s \in NodeStates, NEW x \in Exchanges, NEW b \in BOOLEAN
    PROVE  LET t == SetResponseExpected(s, x, b)
               c == s.ec[x]
               d == t.ec[x]
           IN /\ Local(s, t, x) /\ t.err = s.err
              /\ d.responseExpected = b
              /\ d.live = c.live /\ d.refs = c.refs /\ d.closed = c.closed
              /\ d.hasSession = c.hasSession /\ d.willSend = c.willSend
              /\ d.entry = c.entry
  <1> DEFINE c == s.ec[x]
             d == [c EXCEPT !.responseExpected = b, !.waitingForResponseOrAck = b]
  <1>1. c \in Contexts
    BY DEF NodeStates
  <1>2. /\ d \in Contexts /\ d.responseExpected = b
        /\ d.live = c.live /\ d.refs = c.refs /\ d.closed = c.closed
        /\ d.hasSession = c.hasSession /\ d.willSend = c.willSend
        /\ d.entry = c.entry
    <2> HIDE DEF c
    <2> QED
      BY <1>1 DEF Contexts
  <1>3. SetResponseExpected(s, x, b) = WithContext(s, x, d)
    BY DEF SetResponseExpected, NodeStates, WithContext
  <1> HIDE DEF d
  <1> QED
    BY <1>2, <1>3, UpdateContext

\* Sending replaces the context and moves the counter, the sent messages and the
\* error; MarkAsDefunct moves the state of the session.
LEMMA UpdateNode ==
    ASSUME NEW s \in NodeStates, NEW x \in Exchanges, NEW c \in Contexts,
           NEW tx \in Counters, NEW sent \in SUBSET Messages,
           NEW err \in {"None", "NonCritical", "Critical"}
    PROVE  LET t == WithSend(s, x, c, tx, sent, err)
           IN Local(s, t, x) /\ t.ec[x] = c /\ t.err = err
  BY DEF NodeStates, Local, WithSend, Evicted

\* Marking the session changes no exchange.
LEMMA MarkFacts ==
    ASSUME NEW s \in NodeStates, NEW x
    PROVE  /\ Quiet(s, MarkAsDefunct(s), x) /\ MarkAsDefunct(s).err = s.err
           /\ Quiet(s, MarkActiveRx(s), x)
           /\ MarkAsDefunct(s).ec = s.ec /\ MarkActiveRx(s).ec = s.ec
  BY DEF MarkAsDefunct, MarkActiveRx, NodeStates, SessionStates, Quiet, Local, SameLife, Evicted

\* DispatchMessage leaves the life of the context alone, except that a reliable
\* message that is sent takes the context's place in the retransmission table.
LEMMA DispatchMessageFacts ==
    ASSUME NEW s \in NodeStates, NEW x \in Exchanges,
           NEW kind \in {"App", "StandaloneAck"}, NEW reliable \in BOOLEAN
    PROVE  LET t == DispatchMessage(s, x, kind, reliable)
               c == s.ec[x]
               d == t.ec[x]
           IN /\ Local(s, t, x)
              /\ d.live = c.live /\ d.refs = c.refs /\ d.closed = c.closed
              /\ d.hasSession = c.hasSession /\ d.willSend = c.willSend
              /\ d.responseExpected = c.responseExpected
              /\ ~reliable \/ t.err # "None" => d.entry = c.entry
  <1> DEFINE c == s.ec[x]
             p == c.ackPending /\ ~c.ackValid
             msg == [from |-> s.node, x |-> x, kind |-> kind, ctr |-> s.tx + 1,
                     needsAck |-> reliable,
                     ack |-> IF c.ackValid THEN c.pendingPeerAck ELSE 0]
             t == DispatchMessage(s, x, kind, reliable)
             taken == [c EXCEPT !.ackPending = p]
             kept == IF reliable THEN [taken EXCEPT !.entry = {msg}, !.sendCount = 0]
                                 ELSE taken
             refused == \/ reliable /\ (c.entry # {} \/ RetransTableFull(s))
                        \/ CounterExhausted(s)
  <1>1. /\ c \in Contexts /\ s.tx \in Counters /\ s.node \in Nodes
        /\ s.sent \in SUBSET Messages
    BY DEF NodeStates
  <1>2. /\ c.pendingPeerAck \in Counters /\ c.ackValid \in BOOLEAN /\ p \in BOOLEAN
    BY <1>1 DEF Contexts
  <1>3. ~CounterExhausted(s) => s.tx + 1 \in Counters
    BY <1>1, WindowAssumption DEF CounterExhausted, Counters
  <1>4. ~CounterExhausted(s) => msg \in Messages
    <2>1. 0 \in Counters
      BY WindowAssumption DEF Counters
    <2> QED
      BY <1>1, <1>2, <1>3, <2>1 DEF Messages
  <1>5. t = IF refused
              THEN [s EXCEPT !.ec[x] = taken, !.err = "Critical"]
              ELSE IF ~s.up
                THEN [s EXCEPT !.ec[x] = taken, !.err = "NonCritical", !.tx = @ + 1]
                ELSE [s EXCEPT !.ec[x] = kept, !.err = "None", !.tx = @ + 1,
                               !.sent = @ \cup {msg}]
    BY DEF DispatchMessage
  <1> HIDE DEF msg, t, p, refused
  <1>6. /\ taken \in Contexts
        /\ taken.live = c.live /\ taken.refs = c.refs /\ taken.closed = c.closed
        /\ taken.hasSession = c.hasSession /\ taken.willSend = c.willSend
        /\ taken.responseExpected = c.responseExpected /\ taken.entry = c.entry
    <2> HIDE DEF c
    <2> QED
      BY <1>1, <1>2 DEF Contexts
  <1> HIDE DEF c, taken
  <1>7. CASE refused
    <2>1. t = WithSend(s, x, taken, s.tx, s.sent, "Critical")
      BY <1>5, <1>7 DEF NodeStates, WithSend
    <2>2. Local(s, t, x) /\ t.ec[x] = taken /\ t.err = "Critical"
      BY <1>1, <1>6, <2>1, UpdateNode
    <2> QED
      BY <1>6, <2>2 DEF t, c
  <1>8. CASE ~refused /\ ~s.up
    <2>1. t = WithSend(s, x, taken, s.tx + 1, s.sent, "NonCritical")
      BY <1>5, <1>8 DEF NodeStates, WithSend
    <2>2. s.tx + 1 \in Counters
      BY <1>3, <1>8 DEF refused
    <2>3. Local(s, t, x) /\ t.ec[x] = taken /\ t.err = "NonCritical"
      BY <1>1, <1>6, <2>1, <2>2, UpdateNode
    <2> QED
      BY <1>6, <2>3 DEF t, c
  <1>9. CASE ~refused /\ s.up
    <2>1. s.tx + 1 \in Counters /\ msg \in Messages
      BY <1>3, <1>4, <1>9 DEF refused
    <2>2. /\ kept \in Contexts
          /\ kept.live = c.live /\ kept.refs = c.refs /\ kept.closed = c.closed
          /\ kept.hasSession = c.hasSession /\ kept.willSend = c.willSend
          /\ kept.responseExpected = c.responseExpected
          /\ ~reliable => kept.entry = c.entry
      <3>1. CASE reliable
        BY <1>6, <2>1, <3>1 DEF Contexts
      <3>2. CASE ~reliable
        BY <1>6, <3>2
      <3> QED
        BY <3>1, <3>2
    <2> HIDE DEF kept
    <2>3. t = WithSend(s, x, kept, s.tx + 1, s.sent \cup {msg}, "None")
      BY <1>5, <1>9 DEF NodeStates, WithSend
    <2>4. s.sent \cup {msg} \in SUBSET Messages
      BY <1>1, <2>1
    <2>5. Local(s, t, x) /\ t.ec[x] = kept /\ t.err = "None"
      BY <2>1, <2>2, <2>3, <2>4, UpdateNode
    <2> QED
      BY <2>2, <2>5 DEF t, c
  <1> QED
    BY <1>7, <1>8, <1>9

\* ClearRetransTable empties the context's place in the retransmission table.
LEMMA ClearRetransTableFacts ==
    ASSUME NEW s \in NodeStates, NEW x \in Exchanges
    PROVE  LET t == ClearRetransTable(s, x)
               c == s.ec[x]
               d == t.ec[x]
           IN /\ Local(s, t, x) /\ t.err = s.err
              /\ d.entry = {}
              /\ d.live = c.live /\ d.refs = c.refs /\ d.closed = c.closed
              /\ d.hasSession = c.hasSession /\ d.willSend = c.willSend /\ d.responseExpected = c.responseExpected
  <1> DEFINE c == s.ec[x]
             d == [c EXCEPT !.entry = {}]
  <1>1. c \in Contexts
    BY DEF NodeStates
  <1>2. /\ d \in Contexts
        /\ d.entry = {}
        /\ d.live = c.live /\ d.refs = c.refs /\ d.closed = c.closed
        /\ d.hasSession = c.hasSession /\ d.willSend = c.willSend /\ d.responseExpected = c.responseExpected
    <2> HIDE DEF c
    <2> QED
      BY <1>1 DEF Contexts
  <1>3. ClearRetransTable(s, x) = WithContext(s, x, d)
    BY DEF NodeStates, WithContext, ClearRetransTable
  <1> HIDE DEF d
  <1> QED
    BY <1>2, <1>3, UpdateContext

\* Release takes one reference.
LEMMA ReleaseFacts ==
    ASSUME NEW s \in NodeStates, NEW x \in Exchanges
    PROVE  LET t == Release(s, x)
               c == s.ec[x]
               d == t.ec[x]
           IN /\ Local(s, t, x) /\ t.err = s.err
              /\ d.refs = c.refs - 1
              /\ d.live = c.live /\ d.closed = c.closed /\ d.hasSession = c.hasSession
              /\ d.willSend = c.willSend /\ d.responseExpected = c.responseExpected /\ d.entry = c.entry
  <1> DEFINE c == s.ec[x]
             d == [c EXCEPT !.refs = @ - 1]
  <1>1. c \in Contexts
    BY DEF NodeStates
  <1>2. /\ d \in Contexts
        /\ d.refs = c.refs - 1
        /\ d.live = c.live /\ d.closed = c.closed /\ d.hasSession = c.hasSession
        /\ d.willSend = c.willSend /\ d.responseExpected = c.responseExpected /\ d.entry = c.entry
    <2> HIDE DEF c
    <2> QED
      BY <1>1 DEF Contexts
  <1>3. Release(s, x) = WithContext(s, x, d)
    BY DEF NodeStates, WithContext, Release
  <1> HIDE DEF d
  <1> QED
    BY <1>2, <1>3, UpdateContext

\* SetPendingPeerAckMessageCounter touches the ack only.
LEMMA SetPendingFacts ==
    ASSUME NEW s \in NodeStates, NEW x \in Exchanges, NEW v \in Counters
    PROVE  LET t == SetPendingPeerAckMessageCounter(s, x, v)
               c == s.ec[x]
               d == t.ec[x]
           IN /\ Local(s, t, x) /\ t.err = s.err
              /\ d.live = c.live /\ d.refs = c.refs /\ d.closed = c.closed
              /\ d.hasSession = c.hasSession /\ d.willSend = c.willSend /\ d.responseExpected = c.responseExpected
              /\ d.entry = c.entry
  <1> DEFINE c == s.ec[x]
             d == [c EXCEPT !.pendingPeerAck = v, !.ackPending = TRUE, !.ackValid = TRUE]
  <1>1. c \in Contexts
    BY DEF NodeStates
  <1>2. /\ d \in Contexts
        /\ d.live = c.live /\ d.refs = c.refs /\ d.closed = c.closed
        /\ d.hasSession = c.hasSession /\ d.willSend = c.willSend /\ d.responseExpected = c.responseExpected
        /\ d.entry = c.entry
    <2> HIDE DEF c
    <2> QED
      BY <1>1 DEF Contexts
  <1>3. SetPendingPeerAckMessageCounter(s, x, v) = WithContext(s, x, d)
    BY DEF NodeStates, WithContext, SetPendingPeerAckMessageCounter
  <1> HIDE DEF d
  <1> QED
    BY <1>2, <1>3, UpdateContext

PutBack(s, x, v) == [s EXCEPT !.ec[x].pendingPeerAck = v]

\* So does putting back the counter to acknowledge.
LEMMA PutBackFacts ==
    ASSUME NEW s \in NodeStates, NEW x \in Exchanges, NEW v \in Counters
    PROVE  LET t == PutBack(s, x, v)
               c == s.ec[x]
               d == t.ec[x]
           IN /\ Local(s, t, x) /\ t.err = s.err
              /\ d.live = c.live /\ d.refs = c.refs /\ d.closed = c.closed
              /\ d.hasSession = c.hasSession /\ d.willSend = c.willSend /\ d.responseExpected = c.responseExpected
              /\ d.entry = c.entry
  <1> DEFINE c == s.ec[x]
             d == [c EXCEPT !.pendingPeerAck = v]
  <1>1. c \in Contexts
    BY DEF NodeStates
  <1>2. /\ d \in Contexts
        /\ d.live = c.live /\ d.refs = c.refs /\ d.closed = c.closed
        /\ d.hasSession = c.hasSession /\ d.willSend = c.willSend /\ d.responseExpected = c.responseExpected
        /\ d.entry = c.entry
    <2> HIDE DEF c
    <2> QED
      BY <1>1 DEF Contexts
  <1>3. PutBack(s, x, v) = WithContext(s, x, d)
    BY DEF NodeStates, WithContext, PutBack
  <1> HIDE DEF d
  <1> QED
    BY <1>2, <1>3, UpdateContext

AckSeen(s, x) == [s EXCEPT !.ec[x].waitingForResponseOrAck = FALSE]

\* The wait for a response or an ack is no part of the life of a context.
LEMMA AckSeenFacts ==
    ASSUME NEW s \in NodeStates, NEW x \in Exchanges
    PROVE  LET t == AckSeen(s, x)
               c == s.ec[x]
               d == t.ec[x]
           IN /\ Local(s, t, x) /\ t.err = s.err
              /\ d.live = c.live /\ d.refs = c.refs /\ d.closed = c.closed
              /\ d.hasSession = c.hasSession /\ d.willSend = c.willSend /\ d.responseExpected = c.responseExpected
              /\ d.entry = c.entry
  <1> DEFINE c == s.ec[x]
             d == [c EXCEPT !.waitingForResponseOrAck = FALSE]
  <1>1. c \in Contexts
    BY DEF NodeStates
  <1>2. /\ d \in Contexts
        /\ d.live = c.live /\ d.refs = c.refs /\ d.closed = c.closed
        /\ d.hasSession = c.hasSession /\ d.willSend = c.willSend /\ d.responseExpected = c.responseExpected
        /\ d.entry = c.entry
    <2> HIDE DEF c
    <2> QED
      BY <1>1 DEF Contexts
  <1>3. AckSeen(s, x) = WithContext(s, x, d)
    BY DEF NodeStates, WithContext, AckSeen
  <1> HIDE DEF d
  <1> QED
    BY <1>2, <1>3, UpdateContext

SetClosed(s, x) == [s EXCEPT !.ec[x].closed = TRUE]

\* Setting kFlagClosed.
LEMMA SetClosedFacts ==
    ASSUME NEW s \in NodeStates, NEW x \in Exchanges
    PROVE  LET t == SetClosed(s, x)
               c == s.ec[x]
               d == t.ec[x]
           IN /\ Local(s, t, x) /\ t.err = s.err
              /\ d.closed
              /\ d.live = c.live /\ d.refs = c.refs /\ d.hasSession = c.hasSession
              /\ d.willSend = c.willSend /\ d.responseExpected = c.responseExpected /\ d.entry = c.entry
  <1> DEFINE c == s.ec[x]
             d == [c EXCEPT !.closed = TRUE]
  <1>1. c \in Contexts
    BY DEF NodeStates
  <1>2. /\ d \in Contexts
        /\ d.closed
        /\ d.live = c.live /\ d.refs = c.refs /\ d.hasSession = c.hasSession
        /\ d.willSend = c.willSend /\ d.responseExpected = c.responseExpected /\ d.entry = c.entry
    <2> HIDE DEF c
    <2> QED
      BY <1>1 DEF Contexts
  <1>3. SetClosed(s, x) = WithContext(s, x, d)
    BY DEF NodeStates, WithContext, SetClosed
  <1> HIDE DEF d
  <1> QED
    BY <1>2, <1>3, UpdateContext

SetWillSend(s, x, v) == [s EXCEPT !.ec[x].willSend = v]

\* Setting or clearing kFlagWillSendMessage.
LEMMA SetWillSendFacts ==
    ASSUME NEW s \in NodeStates, NEW x \in Exchanges, NEW v \in BOOLEAN
    PROVE  LET t == SetWillSend(s, x, v)
               c == s.ec[x]
               d == t.ec[x]
           IN /\ Local(s, t, x) /\ t.err = s.err
              /\ d.willSend = v
              /\ d.live = c.live /\ d.refs = c.refs /\ d.closed = c.closed
              /\ d.hasSession = c.hasSession /\ d.responseExpected = c.responseExpected /\ d.entry = c.entry
  <1> DEFINE c == s.ec[x]
             d == [c EXCEPT !.willSend = v]
  <1>1. c \in Contexts
    BY DEF NodeStates
  <1>2. /\ d \in Contexts
        /\ d.willSend = v
        /\ d.live = c.live /\ d.refs = c.refs /\ d.closed = c.closed
        /\ d.hasSession = c.hasSession /\ d.responseExpected = c.responseExpected /\ d.entry = c.entry
    <2> HIDE DEF c
    <2> QED
      BY <1>1 DEF Contexts
  <1>3. SetWillSend(s, x, v) = WithContext(s, x, d)
    BY DEF NodeStates, WithContext, SetWillSend
  <1> HIDE DEF d
  <1> QED
    BY <1>2, <1>3, UpdateContext

DropSession(s, x) == [s EXCEPT !.ec[x].hasSession = FALSE]

\* Dropping the session.
LEMMA DropSessionFacts ==
    ASSUME NEW s \in NodeStates, NEW x \in Exchanges
    PROVE  LET t == DropSession(s, x)
               c == s.ec[x]
               d == t.ec[x]
           IN /\ Local(s, t, x) /\ t.err = s.err
              /\ ~d.hasSession
              /\ d.live = c.live /\ d.refs = c.refs /\ d.closed = c.closed
              /\ d.willSend = c.willSend /\ d.responseExpected = c.responseExpected /\ d.entry = c.entry
  <1> DEFINE c == s.ec[x]
             d == [c EXCEPT !.hasSession = FALSE]
  <1>1. c \in Contexts
    BY DEF NodeStates
  <1>2. /\ d \in Contexts
        /\ ~d.hasSession
        /\ d.live = c.live /\ d.refs = c.refs /\ d.closed = c.closed
        /\ d.willSend = c.willSend /\ d.responseExpected = c.responseExpected /\ d.entry = c.entry
    <2> HIDE DEF c
    <2> QED
      BY <1>1 DEF Contexts
  <1>3. DropSession(s, x) = WithContext(s, x, d)
    BY DEF NodeStates, WithContext, DropSession
  <1> HIDE DEF d
  <1> QED
    BY <1>2, <1>3, UpdateContext

-------------------------------------------------------------------------------
\* Sending leaves the life of a context alone, except that a reliable message that
\* is sent takes a place in the retransmission table, which needs a session, and that
\* a message that expects a response moves that flag.
LEMMA SendOnExchangeFacts ==
    ASSUME NEW s \in NodeStates, NEW x \in Exchanges,
           NEW kind \in {"App", "StandaloneAck"}, NEW flags \in SendFlags
    PROVE  LET t == SendOnExchange(s, x, kind, flags)
               c == s.ec[x]
               d == t.ec[x]
           IN /\ Local(s, t, x)
              /\ d.live = c.live /\ d.refs = c.refs /\ d.closed = c.closed
              /\ d.hasSession = c.hasSession /\ d.willSend = c.willSend
              /\ flags.noAutoRequestAck \/ t.err # "None" => d.entry = c.entry
              /\ ~c.hasSession => d.entry = c.entry /\ t.err # "None"
              /\ ~flags.expectResponse => d.responseExpected = c.responseExpected
  <1> DEFINE c == s.ec[x]
             asked == IF flags.expectResponse THEN SetResponseExpected(s, x, TRUE) ELSE s
             reliable == ~flags.noAutoRequestAck
             done == DispatchMessage(asked, x, kind, reliable)
             unasked == IF flags.expectResponse THEN SetResponseExpected(done, x, FALSE)
                                                ELSE done
             refused == \/ ~s.ec[x].hasSession
                        \/ flags.expectResponse /\ s.ec[x].responseExpected
             t == SendOnExchange(s, x, kind, flags)
  <1>1. flags.expectResponse \in BOOLEAN /\ reliable \in BOOLEAN
    BY DEF SendFlags
  <1>2. t = IF refused
              THEN [s EXCEPT !.err = "Critical"]
              ELSE IF done.err # "None"
                THEN MarkAsDefunct(unasked)
                ELSE done
    BY DEF SendOnExchange
  <1>3. /\ Local(s, asked, x) /\ asked \in NodeStates
        /\ asked.ec[x].live = c.live /\ asked.ec[x].refs = c.refs
        /\ asked.ec[x].closed = c.closed /\ asked.ec[x].hasSession = c.hasSession
        /\ asked.ec[x].willSend = c.willSend /\ asked.ec[x].entry = c.entry
        /\ ~flags.expectResponse => asked.ec[x].responseExpected = c.responseExpected
    <2>1. CASE flags.expectResponse
      <3> DEFINE yes == TRUE
      <3>1. asked = SetResponseExpected(s, x, yes) /\ yes \in BOOLEAN
        BY <2>1
      <3> HIDE DEF asked, yes
      <3> QED
        BY <2>1, <3>1, SetResponseExpectedFacts DEF Local
    <2>2. CASE ~flags.expectResponse
      <3>1. asked = s
        BY <2>2
      <3> HIDE DEF asked
      <3> QED
        BY <3>1 DEF Local, Evicted
    <2> QED
      BY <2>1, <2>2
  <1> HIDE DEF asked
  <1>4. LET e == asked.ec[x]
            d == done.ec[x]
        IN /\ Local(asked, done, x) /\ done \in NodeStates
           /\ d.live = e.live /\ d.refs = e.refs /\ d.closed = e.closed
           /\ d.hasSession = e.hasSession /\ d.willSend = e.willSend
           /\ d.responseExpected = e.responseExpected
           /\ flags.noAutoRequestAck \/ done.err # "None" => d.entry = e.entry
    <2> HIDE DEF reliable
    <2>1. LET e == asked.ec[x]
              d == done.ec[x]
          IN /\ Local(asked, done, x)
             /\ d.live = e.live /\ d.refs = e.refs /\ d.closed = e.closed
             /\ d.hasSession = e.hasSession /\ d.willSend = e.willSend
             /\ d.responseExpected = e.responseExpected
             /\ ~reliable \/ done.err # "None" => d.entry = e.entry
      BY <1>1, <1>3, DispatchMessageFacts
    <2> HIDE DEF done
    <2> QED
      BY <2>1 DEF Local, reliable
  <1> HIDE DEF done
  <1>5. CASE refused
    <2>1. t = [s EXCEPT !.err = "Critical"]
      BY <1>2, <1>5
    <2>2. Local(s, t, x) /\ t.ec = s.ec /\ t.err = "Critical"
      BY <2>1 DEF NodeStates, Local, Evicted
    <2> QED
      BY <2>2
  <1>6. CASE ~refused /\ done.err # "None"
    <2>1. t = MarkAsDefunct(unasked)
      BY <1>2, <1>6
    <2>2. LET e == done.ec[x]
              d == unasked.ec[x]
          IN /\ Local(done, unasked, x) /\ unasked \in NodeStates
             /\ unasked.err = done.err
             /\ d.live = e.live /\ d.refs = e.refs /\ d.closed = e.closed
             /\ d.hasSession = e.hasSession /\ d.willSend = e.willSend
             /\ d.entry = e.entry
             /\ ~flags.expectResponse => d.responseExpected = e.responseExpected
      <3>1. CASE flags.expectResponse
        <4> DEFINE no == FALSE
        <4>1. unasked = SetResponseExpected(done, x, no) /\ no \in BOOLEAN
          BY <3>1
        <4> HIDE DEF unasked, no
        <4> QED
          BY <1>4, <3>1, <4>1, SetResponseExpectedFacts DEF Local
      <3>2. CASE ~flags.expectResponse
        <4>1. unasked = done
          BY <3>2
        <4> HIDE DEF unasked
        <4> QED
          BY <1>4, <4>1 DEF Local, Evicted
      <3> QED
        BY <3>1, <3>2
    <2> HIDE DEF unasked
    <2>3. Local(unasked, t, x) /\ t.ec = unasked.ec /\ t.err = unasked.err
      BY <2>1, <2>2, MarkFacts DEF Quiet
    <2>4. Local(s, t, x)
      BY <1>3, <1>4, <2>2, <2>3, LocalTrans
    <2> HIDE DEF t
    <2>5. c.hasSession
      BY <1>6
    <2> QED
      BY <1>3, <1>4, <1>6, <2>2, <2>3, <2>4, <2>5 DEF t
  <1>7. CASE ~refused /\ done.err = "None"
    <2>1. t = done
      BY <1>2, <1>7
    <2>2. Local(s, done, x)
      BY <1>3, <1>4, LocalTrans
    <2> HIDE DEF t
    <2>3. c.hasSession
      BY <1>7
    <2> QED
      BY <1>3, <1>4, <1>7, <2>1, <2>2, <2>3 DEF t
  <1> QED
    BY <1>5, <1>6, <1>7

\* A standalone ack is quiet.
LEMMA SendStandaloneAckMessageQuiet ==
    ASSUME NEW s \in NodeStates, NEW x \in Exchanges
    PROVE  Quiet(s, SendStandaloneAckMessage(s, x), x)
  <1> DEFINE flags == [expectResponse |-> FALSE, noAutoRequestAck |-> TRUE]
  <1>1. /\ SendStandaloneAckMessage(s, x) = SendOnExchange(s, x, "StandaloneAck", flags)
        /\ flags \in SendFlags /\ ~flags.expectResponse /\ flags.noAutoRequestAck
    BY DEF SendStandaloneAckMessage, SendFlags
  <1> HIDE DEF flags
  <1> QED
    BY <1>1, SendOnExchangeFacts DEF Quiet, SameLife

\* So is a flush of the pending ack.
LEMMA FlushAcksQuiet ==
    ASSUME NEW s \in NodeStates, NEW x \in Exchanges
    PROVE  Quiet(s, FlushAcks(s, x), x)
  <1>1. Quiet(s, [s EXCEPT !.err = "None"], x)
    BY DEF NodeStates, Quiet, Local, SameLife, Evicted
  <1> QED
    BY <1>1, SendStandaloneAckMessageQuiet DEF FlushAcks

-------------------------------------------------------------------------------
\* Closing sets the flag and may clear the retransmission table; it happens once.
LEMMA DoCloseFacts ==
    ASSUME NEW s \in NodeStates, NEW x \in Exchanges, NEW clear \in BOOLEAN
    PROVE  LET t == DoClose(s, x, clear)
               c == s.ec[x]
               d == t.ec[x]
           IN /\ Local(s, t, x)
              /\ d.live = c.live /\ d.refs = c.refs /\ d.hasSession = c.hasSession
              /\ d.willSend = c.willSend /\ d.responseExpected = c.responseExpected
              /\ d.closed
              /\ d.entry = IF clear /\ ~c.closed THEN {} ELSE c.entry
  <1> DEFINE c == s.ec[x]
             marked == SetClosed(s, x)
             flushed == FlushAcks(marked, x)
             t == DoClose(s, x, clear)
  <1>1. t = IF c.closed THEN s
                        ELSE IF clear THEN ClearRetransTable(flushed, x) ELSE flushed
    BY DEF DoClose, SetClosed
  <1>2. c.closed \in BOOLEAN
    BY DEF NodeStates, Contexts
  <1>3. LET d == marked.ec[x]
        IN /\ Local(s, marked, x) /\ marked \in NodeStates /\ d.closed
           /\ d.live = c.live /\ d.refs = c.refs /\ d.hasSession = c.hasSession
           /\ d.willSend = c.willSend /\ d.responseExpected = c.responseExpected
           /\ d.entry = c.entry
    BY SetClosedFacts DEF Local
  <1> HIDE DEF marked
  <1>4. Quiet(marked, flushed, x)
    BY <1>3, FlushAcksQuiet
  <1> HIDE DEF flushed
  <1>5. LET d == flushed.ec[x]
        IN /\ Local(s, flushed, x) /\ flushed \in NodeStates /\ d.closed
           /\ d.live = c.live /\ d.refs = c.refs /\ d.hasSession = c.hasSession
           /\ d.willSend = c.willSend /\ d.responseExpected = c.responseExpected
           /\ d.entry = c.entry
    <2>1. Local(s, flushed, x)
      BY <1>3, <1>4, LocalTrans DEF Quiet
    <2> QED
      BY <1>3, <1>4, <2>1 DEF Quiet, SameLife, Local
  <1>6. CASE c.closed
    <2>1. t = s /\ Local(s, s, x)
      BY <1>1, <1>6 DEF Local, Evicted
    <2> QED
      BY <1>6, <2>1
  <1>7. CASE ~c.closed /\ clear
    <2>1. t = ClearRetransTable(flushed, x)
      BY <1>1, <1>7
    <2> HIDE DEF t
    <2>2. LET e == flushed.ec[x]
              d == t.ec[x]
          IN /\ Local(flushed, t, x) /\ d.entry = {}
             /\ d.live = e.live /\ d.refs = e.refs /\ d.closed = e.closed
             /\ d.hasSession = e.hasSession /\ d.willSend = e.willSend
             /\ d.responseExpected = e.responseExpected
      BY <1>5, <2>1, ClearRetransTableFacts
    <2>3. Local(s, t, x)
      BY <1>5, <2>2, LocalTrans
    <2> QED
      BY <1>5, <1>7, <2>2, <2>3 DEF t
  <1>8. CASE ~c.closed /\ ~clear
    <2>1. t = flushed
      BY <1>1, <1>8
    <2> HIDE DEF t
    <2> QED
      BY <1>5, <1>8, <2>1 DEF t
  <1> QED
    BY <1>2, <1>6, <1>7, <1>8

\* Close() closes and takes the reference, and keeps what is to be sent again.
LEMMA CloseFacts ==
    ASSUME NEW s \in NodeStates, NEW x \in Exchanges
    PROVE  LET t == Close(s, x)
               c == s.ec[x]
               d == t.ec[x]
           IN /\ Local(s, t, x)
              /\ d.live = c.live /\ d.refs = c.refs - 1 /\ d.closed
              /\ d.hasSession = c.hasSession /\ d.willSend = c.willSend
              /\ d.responseExpected = c.responseExpected /\ d.entry = c.entry
  <1> DEFINE c == s.ec[x]
             no == FALSE
             done == DoClose(s, x, no)
             t == Close(s, x)
  <1>1. t = Release(done, x) /\ no \in BOOLEAN /\ ~no
    BY DEF Close
  <1> HIDE DEF no, t
  <1>2. LET d == done.ec[x]
        IN /\ Local(s, done, x) /\ done \in NodeStates
           /\ d.live = c.live /\ d.refs = c.refs /\ d.hasSession = c.hasSession
           /\ d.willSend = c.willSend /\ d.responseExpected = c.responseExpected
           /\ d.closed /\ d.entry = c.entry
    BY <1>1, DoCloseFacts DEF Local
  <1> HIDE DEF done
  <1>3. LET e == done.ec[x]
            d == t.ec[x]
        IN /\ Local(done, t, x) /\ d.refs = e.refs - 1
           /\ d.live = e.live /\ d.closed = e.closed /\ d.entry = e.entry
           /\ d.hasSession = e.hasSession /\ d.willSend = e.willSend
           /\ d.responseExpected = e.responseExpected
    BY <1>1, <1>2, ReleaseFacts
  <1>4. Local(s, t, x)
    BY <1>2, <1>3, LocalTrans
  <1> QED
    BY <1>2, <1>3, <1>4 DEF t

\* Abort() also clears the retransmission table, unless the exchange was closed.
LEMMA AbortFacts ==
    ASSUME NEW s \in NodeStates, NEW x \in Exchanges
    PROVE  LET t == Abort(s, x)
               c == s.ec[x]
               d == t.ec[x]
           IN /\ Local(s, t, x)
              /\ d.live = c.live /\ d.refs = c.refs - 1 /\ d.closed
              /\ d.hasSession = c.hasSession /\ d.willSend = c.willSend
              /\ d.responseExpected = c.responseExpected
              /\ d.entry = IF c.closed THEN c.entry ELSE {}
  <1> DEFINE c == s.ec[x]
             yes == TRUE
             done == DoClose(s, x, yes)
             t == Abort(s, x)
  <1>1. t = Release(done, x) /\ yes \in BOOLEAN /\ yes
    BY DEF Abort
  <1> HIDE DEF yes, t
  <1>2. LET d == done.ec[x]
        IN /\ Local(s, done, x) /\ done \in NodeStates
           /\ d.live = c.live /\ d.refs = c.refs /\ d.hasSession = c.hasSession
           /\ d.willSend = c.willSend /\ d.responseExpected = c.responseExpected
           /\ d.closed /\ d.entry = IF ~c.closed THEN {} ELSE c.entry
    BY <1>1, DoCloseFacts DEF Local
  <1> HIDE DEF done
  <1>3. LET e == done.ec[x]
            d == t.ec[x]
        IN /\ Local(done, t, x) /\ d.refs = e.refs - 1
           /\ d.live = e.live /\ d.closed = e.closed /\ d.entry = e.entry
           /\ d.hasSession = e.hasSession /\ d.willSend = e.willSend
           /\ d.responseExpected = e.responseExpected
    BY <1>1, <1>2, ReleaseFacts
  <1>4. Local(s, t, x)
    BY <1>2, <1>3, LocalTrans
  <1> QED
    BY <1>2, <1>3, <1>4 DEF t

\* MessageHandled keeps a sound context sound and settles it; it touches only an
\* open context on which nobody has anything left to do.
LEMMA MessageHandledFacts ==
    ASSUME NEW s \in NodeStates, NEW x \in Exchanges, Sound(s.ec[x])
    PROVE  LET t == MessageHandled(s, x)
           IN /\ Local(s, t, x) /\ Settled(t.ec[x])
              /\ t.ec[x].hasSession = s.ec[x].hasSession
              /\ s.ec[x].willSend => t = s
  <1> DEFINE c == s.ec[x]
             t == MessageHandled(s, x)
  <1>1. c.closed \in BOOLEAN /\ c.responseExpected \in BOOLEAN /\ c.willSend \in BOOLEAN
    BY DEF NodeStates, Contexts
  <1>2. CASE c.closed \/ c.responseExpected \/ c.willSend
    <2>1. t = s
      BY <1>2 DEF MessageHandled
    <2>2. Local(s, s, x)
      BY DEF Local, Evicted
    <2> QED
      BY <1>2, <2>1, <2>2 DEF Settled
  <1>3. CASE ~(c.closed \/ c.responseExpected \/ c.willSend)
    <2>1. t = Close(s, x)
      BY <1>3 DEF MessageHandled
    <2>2. c.refs = 1
      BY <1>3 DEF Sound
    <2> QED
      BY <1>3, <2>1, <2>2, CloseFacts DEF Settled, Sound
  <1> QED
    BY <1>2, <1>3

\* Sending an application message keeps a context sound; a send that was announced
\* leaves it settled, whether it succeeds or fails.
LEMMA SendMessageFacts ==
    ASSUME NEW s \in NodeStates, NEW x \in Exchanges, NEW flags \in SendFlags,
           Sound(s.ec[x])
    PROVE  LET t == SendMessage(s, x, flags)
           IN /\ Local(s, t, x) /\ Sound(t.ec[x])
              /\ t.ec[x].hasSession = s.ec[x].hasSession
              /\ s.ec[x].willSend => Settled(t.ec[x])
  <1> DEFINE c == s.ec[x]
             done == SendOnExchange(s, x, "App", flags)
             no == FALSE
             spoken == SetWillSend(done, x, no)
             t == SendMessage(s, x, flags)
  <1>1. t = IF done.err # "None" THEN done ELSE MessageHandled(spoken, x)
    BY DEF SendMessage, SetWillSend
  <1>2. no \in BOOLEAN /\ ~no
    OBVIOUS
  <1> HIDE DEF t, no
  <1>3. LET d == done.ec[x]
        IN /\ Local(s, done, x) /\ done \in NodeStates
           /\ d.live = c.live /\ d.refs = c.refs /\ d.closed = c.closed
           /\ d.hasSession = c.hasSession /\ d.willSend = c.willSend
           /\ done.err # "None" => d.entry = c.entry
           /\ ~c.hasSession => d.entry = c.entry /\ done.err # "None"
    BY SendOnExchangeFacts DEF Local
  <1> HIDE DEF done
  <1>4. CASE done.err # "None"
    <2>1. t = done
      BY <1>1, <1>4
    <2>2. Sound(done.ec[x])
      BY <1>3, <1>4 DEF Sound
    <2>3. c.willSend => Settled(done.ec[x])
      BY <1>3, <2>2 DEF Settled
    <2> QED
      BY <1>3, <2>1, <2>2, <2>3 DEF t
  <1>5. CASE done.err = "None"
    <2>1. t = MessageHandled(spoken, x)
      BY <1>1, <1>5
    <2>2. LET e == done.ec[x]
              d == spoken.ec[x]
          IN /\ Local(done, spoken, x) /\ spoken \in NodeStates
             /\ d.live = e.live /\ d.refs = e.refs /\ d.closed = e.closed
             /\ d.hasSession = e.hasSession /\ d.entry = e.entry
             /\ d.willSend = no
      BY <1>2, <1>3, SetWillSendFacts DEF Local
    <2> HIDE DEF spoken
    <2>3. c.hasSession
      BY <1>3, <1>5
    <2>4. Sound(spoken.ec[x])
      BY <1>2, <1>3, <2>2, <2>3 DEF Sound
    <2>5. /\ Local(spoken, t, x) /\ Settled(t.ec[x])
          /\ t.ec[x].hasSession = spoken.ec[x].hasSession
      BY <2>1, <2>2, <2>4, MessageHandledFacts
    <2>6. Local(s, t, x)
      BY <1>3, <2>2, <2>5, LocalTrans
    <2> QED
      BY <1>3, <2>2, <2>5, <2>6 DEF t, Settled
  <1> QED
    BY <1>4, <1>5

\* The end of the wait for a response, before the exchange is looked at.
TimedOut(s, x) ==
    LET quiet == SetResponseExpected(s, x, FALSE)
    IN IF s.ec[x].hasSession /\ s.ec[x].waitingForResponseOrAck THEN MarkAsDefunct(quiet)
                                                               ELSE quiet

\* It touches one flag of the context.
LEMMA TimedOutFacts ==
    ASSUME NEW s \in NodeStates, NEW x \in Exchanges
    PROVE  LET t == TimedOut(s, x)
               c == s.ec[x]
               d == t.ec[x]
           IN /\ Local(s, t, x)
              /\ d.live = c.live /\ d.refs = c.refs /\ d.closed = c.closed
              /\ d.hasSession = c.hasSession /\ d.willSend = c.willSend
              /\ d.entry = c.entry
  <1> DEFINE c == s.ec[x]
             no == FALSE
             quiet == SetResponseExpected(s, x, no)
             t == TimedOut(s, x)
  <1>1. t = quiet \/ t = MarkAsDefunct(quiet)
    BY DEF TimedOut
  <1>2. no \in BOOLEAN
    OBVIOUS
  <1> HIDE DEF no, t
  <1>3. LET d == quiet.ec[x]
        IN /\ Local(s, quiet, x) /\ quiet \in NodeStates
           /\ d.live = c.live /\ d.refs = c.refs /\ d.closed = c.closed
           /\ d.hasSession = c.hasSession /\ d.willSend = c.willSend
           /\ d.entry = c.entry
    BY <1>2, SetResponseExpectedFacts DEF Local
  <1> HIDE DEF quiet
  <1>4. Local(quiet, t, x) /\ t.ec = quiet.ec
    BY <1>1, <1>3, MarkFacts DEF Local, Evicted, Quiet
  <1>5. Local(s, t, x)
    BY <1>3, <1>4, LocalTrans
  <1> QED
    BY <1>3, <1>4, <1>5 DEF t

\* The response timer settles the context.
LEMMA NotifyResponseTimeoutFacts ==
    ASSUME NEW s \in NodeStates, NEW x \in Exchanges, Sound(s.ec[x])
    PROVE  LET t == NotifyResponseTimeout(s, x, TRUE)
           IN /\ Local(s, t, x) /\ Settled(t.ec[x])
              /\ t.ec[x].hasSession = s.ec[x].hasSession
              /\ Announced(s.ec[x]) => Announced(t.ec[x])
  <1> DEFINE t == NotifyResponseTimeout(s, x, TRUE)
             marked == TimedOut(s, x)
  <1>1. t = MessageHandled(marked, x)
    BY DEF NotifyResponseTimeout, TimedOut
  <1> HIDE DEF t
  <1>2. /\ Local(s, marked, x) /\ marked \in NodeStates /\ Sound(marked.ec[x])
        /\ marked.ec[x].hasSession = s.ec[x].hasSession
        /\ Announced(s.ec[x]) => Announced(marked.ec[x])
    BY TimedOutFacts DEF Local, Sound, Announced
  <1> HIDE DEF marked
  <1>3. /\ Local(marked, t, x) /\ Settled(t.ec[x])
        /\ t.ec[x].hasSession = marked.ec[x].hasSession
        /\ marked.ec[x].willSend => t = marked
    BY <1>1, <1>2, MessageHandledFacts
  <1>4. Announced(s.ec[x]) => Announced(t.ec[x])
    BY <1>2, <1>3 DEF Announced
  <1> QED
    BY <1>2, <1>3, <1>4, LocalTrans DEF t

\* A context that loses its session is closed, has nothing to send again, and keeps
\* its reference only if a send was announced.
LEMMA OnSessionReleasedFacts ==
    ASSUME NEW s \in NodeStates, NEW x \in Exchanges,
           Sound(s.ec[x]), s.ec[x].hasSession
    PROVE  LET t == OnSessionReleased(s, x)
           IN /\ Local(s, t, x) /\ Settled(t.ec[x])
              /\ Announced(s.ec[x]) => Announced(t.ec[x])
  <1> DEFINE c == s.ec[x]
             yes == TRUE
             released == DropSession(s, x)
             waited == TimedOut(released, x)
             t == OnSessionReleased(s, x)
  <1>1. t = CASE c.closed -> ClearRetransTable(released, x)
              [] ~c.closed /\ c.willSend -> DoClose(released, x, yes)
              [] OTHER -> Abort(IF c.responseExpected THEN waited ELSE released, x)
    BY DEF OnSessionReleased, DropSession, NotifyResponseTimeout, TimedOut
  <1>2. /\ yes \in BOOLEAN /\ yes
        /\ c.closed \in BOOLEAN /\ c.willSend \in BOOLEAN /\ c.responseExpected \in BOOLEAN
    BY DEF NodeStates, Contexts
  <1> HIDE DEF yes, t
  <1>3. LET d == released.ec[x]
        IN /\ Local(s, released, x) /\ released \in NodeStates /\ ~d.hasSession
           /\ d.live = c.live /\ d.refs = c.refs /\ d.closed = c.closed
           /\ d.willSend = c.willSend /\ d.responseExpected = c.responseExpected
    BY DropSessionFacts DEF Local
  <1> HIDE DEF released
  <1>4. CASE c.closed
    <2>1. t = ClearRetransTable(released, x) /\ c.refs = 0 /\ c.live
      BY <1>1, <1>4 DEF Sound
    <2>2. LET e == released.ec[x]
              d == t.ec[x]
          IN /\ Local(released, t, x) /\ d.entry = {}
             /\ d.live = e.live /\ d.refs = e.refs /\ d.closed = e.closed
      BY <1>3, <2>1, ClearRetransTableFacts
    <2>3. Settled(t.ec[x])
      BY <1>3, <1>4, <2>1, <2>2 DEF Settled, Sound
    <2> QED
      BY <1>3, <2>1, <2>2, <2>3, LocalTrans DEF t, Announced
  <1>5. CASE ~c.closed /\ c.willSend
    <2>1. t = DoClose(released, x, yes) /\ c.refs = 1 /\ c.live
      BY <1>1, <1>5 DEF Sound
    <2>2. LET e == released.ec[x]
              d == t.ec[x]
          IN /\ Local(released, t, x)
             /\ d.live = e.live /\ d.refs = e.refs /\ d.hasSession = e.hasSession
             /\ d.willSend = e.willSend /\ d.closed /\ d.entry = {}
      BY <1>2, <1>3, <1>5, <2>1, DoCloseFacts
    <2>3. Settled(t.ec[x])
      BY <1>3, <1>5, <2>1, <2>2 DEF Settled, Sound
    <2>4. Announced(t.ec[x])
      BY <1>3, <1>5, <2>1, <2>2 DEF Announced
    <2> QED
      BY <1>3, <2>2, <2>3, <2>4, LocalTrans DEF t
  <1>6. CASE ~c.closed /\ ~c.willSend
    <2> DEFINE told == IF c.responseExpected THEN waited ELSE released
    <2>1. t = Abort(told, x) /\ c.refs = 1 /\ c.live
      BY <1>1, <1>6 DEF Sound
    <2>2. LET d == told.ec[x]
          IN /\ Local(s, told, x) /\ told \in NodeStates /\ ~d.hasSession
             /\ d.live = c.live /\ d.refs = c.refs /\ d.closed = c.closed
      <3>1. CASE c.responseExpected
        <4>1. told = waited
          BY <3>1
        <4>2. LET e == released.ec[x]
                  d == waited.ec[x]
              IN /\ Local(released, waited, x)
                 /\ d.live = e.live /\ d.refs = e.refs /\ d.closed = e.closed
                 /\ d.hasSession = e.hasSession
          BY <1>3, TimedOutFacts
        <4> HIDE DEF told, waited
        <4>3. Local(s, waited, x)
          BY <1>3, <4>2, LocalTrans
        <4> QED
          BY <1>3, <4>1, <4>2, <4>3 DEF Local
      <3>2. CASE ~c.responseExpected
        BY <1>3, <3>2
      <3> QED
        BY <1>2, <3>1, <3>2
    <2> HIDE DEF told
    <2>3. LET e == told.ec[x]
              d == t.ec[x]
          IN /\ Local(told, t, x)
             /\ d.live = e.live /\ d.refs = e.refs - 1 /\ d.closed
             /\ d.hasSession = e.hasSession
             /\ d.entry = IF e.closed THEN e.entry ELSE {}
      BY <2>1, <2>2, AbortFacts
    <2>4. Settled(t.ec[x])
      BY <1>6, <2>1, <2>2, <2>3 DEF Settled, Sound
    <2> QED
      BY <1>6, <2>2, <2>3, <2>4, LocalTrans DEF t, Announced
  <1> QED
    BY <1>2, <1>4, <1>5, <1>6

-------------------------------------------------------------------------------
\* Emptying the retransmission table, and nothing else of the life of a context,
\* keeps it sound and settled.
Cleared(c, d) ==
    /\ d.live = c.live /\ d.refs = c.refs /\ d.closed = c.closed
    /\ d.hasSession = c.hasSession /\ d.willSend = c.willSend
    /\ d.responseExpected = c.responseExpected
    /\ d.entry \in {c.entry, {}}

\* A context that lost at most its table entry and its flags is as sound as before.
LEMMA ClearedKeeps ==
    ASSUME NEW c, NEW d, Cleared(c, d)
    PROVE  (Sound(c) => Sound(d)) /\ (Settled(c) => Settled(d))
  BY DEF Cleared, Sound, Settled

\* An acknowledgment can only clear.
LEMMA HandleRcvdAckFacts ==
    ASSUME NEW s \in NodeStates, NEW x \in Exchanges, NEW a \in Counters
    PROVE  LET t == HandleRcvdAck(s, x, a)
           IN Local(s, t, x) /\ Cleared(s.ec[x], t.ec[x])
  <1> DEFINE c == s.ec[x]
             seen == [s EXCEPT !.acked = @ \cup {a}]
             clear == ClearRetransTable(seen, x)
             t == HandleRcvdAck(s, x, a)
  <1>1. t = seen \/ t = AckSeen(clear, x)
    BY DEF HandleRcvdAck, AckSeen
  <1> HIDE DEF t
  <1>2. Local(s, seen, x) /\ seen \in NodeStates /\ seen.ec = s.ec
    BY DEF NodeStates, Local, Evicted
  <1> HIDE DEF seen
  <1>3. CASE t = seen
    BY <1>2, <1>3 DEF t, Cleared
  <1>4. CASE t = AckSeen(clear, x)
    <2>1. LET d == clear.ec[x]
          IN /\ Local(seen, clear, x) /\ clear \in NodeStates /\ d.entry = {}
             /\ d.live = c.live /\ d.refs = c.refs /\ d.closed = c.closed
             /\ d.hasSession = c.hasSession /\ d.willSend = c.willSend
             /\ d.responseExpected = c.responseExpected
      BY <1>2, ClearRetransTableFacts DEF Local
    <2> HIDE DEF clear
    <2>2. LET e == clear.ec[x]
              d == t.ec[x]
          IN /\ Local(clear, t, x) /\ d.entry = e.entry
             /\ d.live = e.live /\ d.refs = e.refs /\ d.closed = e.closed
             /\ d.hasSession = e.hasSession /\ d.willSend = e.willSend
             /\ d.responseExpected = e.responseExpected
      BY <1>4, <2>1, AckSeenFacts
    <2>3. Local(s, t, x)
      BY <1>2, <2>1, <2>2, LocalTrans
    <2> QED
      BY <2>1, <2>2, <2>3 DEF t, Cleared
  <1> QED
    BY <1>1, <1>3, <1>4

\* Recording or sending an ack is quiet, duplicate or not.
LEMMA HandleNeedsAckQuiet ==
    ASSUME NEW s \in NodeStates, NEW x \in Exchanges, NEW k \in Counters,
           NEW dup \in BOOLEAN
    PROVE  Quiet(s, HandleNeedsAck(s, x, k, dup), x)
  <1> DEFINE c == s.ec[x]
             pending == SetPendingPeerAckMessageCounter(s, x, k)
             forced == SendStandaloneAckMessage(pending, x)
             flushed == FlushAcks(s, x)
             old == IF c.ackValid THEN c.pendingPeerAck ELSE forced.ec[x].pendingPeerAck
             t == HandleNeedsAck(s, x, k, dup)
  <1>1. t = CASE dup /\ c.ackPending /\ c.pendingPeerAck # k ->
                   SetPendingPeerAckMessageCounter(forced, x, c.pendingPeerAck)
              [] dup /\ ~(c.ackPending /\ c.pendingPeerAck # k) -> PutBack(forced, x, old)
              [] ~dup /\ flushed.err = "Critical" -> flushed
              [] OTHER -> SetPendingPeerAckMessageCounter(flushed, x, k)
    BY DEF HandleNeedsAck, PutBack
  <1> HIDE DEF t
  <1>2. c.ackPending \in BOOLEAN /\ c.ackValid \in BOOLEAN /\ c.pendingPeerAck \in Counters
    BY DEF NodeStates, Contexts
  <1>3. Quiet(s, pending, x) /\ pending \in NodeStates
    BY SetPendingFacts DEF Quiet, SameLife, Local
  <1> HIDE DEF pending
  <1>4. Quiet(pending, forced, x) /\ forced \in NodeStates
    BY <1>3, SendStandaloneAckMessageQuiet DEF Quiet, Local
  <1>5. Quiet(s, forced, x)
    BY <1>3, <1>4, QuietTrans
  <1>6. Quiet(s, flushed, x) /\ flushed \in NodeStates
    BY FlushAcksQuiet DEF Quiet, Local
  <1>7. forced.ec[x].pendingPeerAck \in Counters
    BY <1>4 DEF NodeStates, Contexts
  <1>8. old \in Counters
    BY <1>2, <1>7
  <1> HIDE DEF forced, flushed, old
  <1>9. CASE t = SetPendingPeerAckMessageCounter(forced, x, c.pendingPeerAck)
    <2>1. Quiet(forced, t, x)
      BY <1>2, <1>4, <1>9, SetPendingFacts DEF Quiet, SameLife
    <2> QED
      BY <1>5, <2>1, QuietTrans DEF t
  <1>10. CASE t = PutBack(forced, x, old)
    <2>1. Quiet(forced, t, x)
      BY <1>4, <1>8, <1>10, PutBackFacts DEF Quiet, SameLife
    <2> QED
      BY <1>5, <2>1, QuietTrans DEF t
  <1>11. CASE t = flushed
    BY <1>6, <1>11 DEF t
  <1>12. CASE t = SetPendingPeerAckMessageCounter(flushed, x, k)
    <2>1. Quiet(flushed, t, x)
      BY <1>6, <1>12, SetPendingFacts DEF Quiet, SameLife
    <2> QED
      BY <1>6, <2>1, QuietTrans DEF t
  <1>13. \/ t = SetPendingPeerAckMessageCounter(forced, x, c.pendingPeerAck)
         \/ t = PutBack(forced, x, old)
         \/ t = flushed
         \/ t = SetPendingPeerAckMessageCounter(flushed, x, k)
    <2>1. CASE dup /\ c.ackPending /\ c.pendingPeerAck # k
      BY <1>1, <2>1
    <2>2. CASE dup /\ ~(c.ackPending /\ c.pendingPeerAck # k)
      BY <1>1, <2>2
    <2>3. CASE ~dup /\ flushed.err = "Critical"
      BY <1>1, <2>3
    <2>4. CASE ~dup /\ flushed.err # "Critical"
      BY <1>1, <2>4
    <2> QED
      BY <2>1, <2>2, <2>3, <2>4
  <1> QED
    BY <1>9, <1>10, <1>11, <1>12, <1>13

\* What a handler of a message with counter k may do: work on one exchange, and
\* hand that message to the application once.
Handled(s, t, x, k) ==
    /\ t \in NodeStates
    /\ t.node = s.node
    /\ t.delivered \in {s.delivered, [s.delivered EXCEPT ![k] = @ + 1]}
    /\ Evicted(s, t)
    /\ \A y \in Exchanges : y # x => t.ec[y] = s.ec[y]

\* Unless the application answers, an announced message stays announced.
StaysAnnounced(c, d, reaction) ==
    reaction.kind # "SendMessage" /\ Announced(c) => Announced(d)

\* Work before and after that does not deliver.
LEMMA HandledTrans ==
    ASSUME NEW s, NEW t, NEW u, NEW x, NEW k
    PROVE  /\ Local(s, t, x) /\ Handled(t, u, x, k) => Handled(s, u, x, k)
           /\ Handled(s, t, x, k) /\ Local(t, u, x) => Handled(s, u, x, k)
  BY DEF Handled, Local, Evicted

\* Whatever the application does about a message keeps an open context sound.
LEMMA OnMessageReceivedFacts ==
    ASSUME NEW s \in NodeStates, NEW x \in Exchanges, NEW k \in Counters,
           NEW reaction \in Reactions, Sound(s.ec[x]), s.ec[x].entry = {}
    PROVE  LET t == OnMessageReceived(s, x, k, reaction)
           IN /\ Handled(s, t, x, k) /\ Sound(t.ec[x])
              /\ t.ec[x].hasSession = s.ec[x].hasSession
              /\ StaysAnnounced(s.ec[x], t.ec[x], reaction)
  <1> DEFINE got == [s EXCEPT !.delivered[k] = @ + 1]
             yes == TRUE
             t == OnMessageReceived(s, x, k, reaction)
  <1>1. /\ got \in NodeStates /\ got.node = s.node /\ got.ec = s.ec
        /\ got.delivered = [s.delivered EXCEPT ![k] = @ + 1] /\ got.session = s.session
    BY DEF NodeStates
  <1>2. t = CASE reaction.kind = "WillSendMessage" -> SetWillSend(got, x, yes)
              [] reaction.kind = "SendMessage" -> SendMessage(got, x, reaction.flags)
              [] OTHER -> got
    BY DEF OnMessageReceived, SetWillSend
  <1>3. yes \in BOOLEAN /\ yes /\ reaction.flags \in SendFlags
    BY DEF Reactions
  <1> HIDE DEF got, yes, t
  <1>4. Handled(s, got, x, k) /\ Sound(got.ec[x]) /\ got.ec[x].entry = {}
    BY <1>1 DEF Handled, Evicted
  <1>5. CASE reaction.kind = "WillSendMessage"
    <2>1. t = SetWillSend(got, x, yes)
      BY <1>2, <1>5
    <2>2. LET c == got.ec[x]
              d == t.ec[x]
          IN /\ Local(got, t, x) /\ d.willSend = yes
             /\ d.live = c.live /\ d.refs = c.refs /\ d.closed = c.closed
             /\ d.hasSession = c.hasSession /\ d.entry = c.entry
      BY <1>1, <1>3, <2>1, SetWillSendFacts
    <2>3. Sound(t.ec[x])
      BY <1>3, <1>4, <2>2 DEF Sound
    <2>4. StaysAnnounced(s.ec[x], t.ec[x], reaction)
      BY <1>1, <1>3, <2>2 DEF StaysAnnounced, Announced
    <2> QED
      BY <1>1, <1>4, <2>2, <2>3, <2>4, HandledTrans DEF t
  <1>6. CASE reaction.kind = "SendMessage"
    <2>1. t = SendMessage(got, x, reaction.flags)
      BY <1>2, <1>6
    <2>2. Local(got, t, x) /\ Sound(t.ec[x]) /\ t.ec[x].hasSession = got.ec[x].hasSession
      BY <1>1, <1>3, <1>4, <2>1, SendMessageFacts
    <2> QED
      BY <1>1, <1>4, <1>6, <2>2, HandledTrans DEF t, StaysAnnounced
  <1>7. CASE reaction.kind \notin {"WillSendMessage", "SendMessage"}
    <2>1. t = got
      BY <1>2, <1>7
    <2> QED
      BY <1>1, <1>4, <2>1 DEF t, StaysAnnounced
  <1> QED
    BY <1>5, <1>6, <1>7

\* HandleMessage leaves a settled context settled, and settles the context that was
\* created for the message.  It delivers the message at most once, a duplicate not
\* at all.
LEMMA HandleMessageFacts ==
    ASSUME NEW s \in NodeStates, NEW x \in Exchanges, NEW m \in Messages,
           NEW dup \in BOOLEAN, NEW reaction \in Reactions, Sound(s.ec[x]),
           Settled(s.ec[x]) \/ (~s.ec[x].closed /\ ~dup /\ m.kind = "App")
    PROVE  LET t == HandleMessage(s, x, m, dup, reaction)
           IN /\ Handled(s, t, x, m.ctr) /\ Settled(t.ec[x])
              /\ dup => t.delivered = s.delivered
              /\ t.ec[x].hasSession = s.ec[x].hasSession
              /\ StaysAnnounced(s.ec[x], t.ec[x], reaction)
  <1> DEFINE c == s.ec[x]
             no == FALSE
             s1 == IF ~dup /\ m.ack # 0 THEN HandleRcvdAck(s, x, m.ack) ELSE s
             s2 == IF m.needsAck THEN HandleNeedsAck(s1, x, m.ctr, dup) ELSE s1
             s3 == IF s2.ec[x].closed THEN FlushAcks(s2, x) ELSE s2
             s4 == SetResponseExpected(s3, x, no)
             refused == [s3 EXCEPT !.dropped = @ \cup {m.ctr}]
             got == OnMessageReceived(s4, x, m.ctr, reaction)
             t == HandleMessage(s, x, m, dup, reaction)
  <1>1. t = IF \/ s2.ec[x].closed /\ s3.err = "Critical"
               \/ m.kind = "StandaloneAck"
               \/ dup
              THEN s3
              ELSE IF s3.ec[x].entry # {}
                THEN MessageHandled(refused, x)
                ELSE IF s4.ec[x].closed THEN s4 ELSE MessageHandled(got, x)
    BY DEF HandleMessage
  <1>2. /\ no \in BOOLEAN /\ m.ack \in Counters /\ m.ctr \in Counters
        /\ m.needsAck \in BOOLEAN /\ m.kind \in {"App", "StandaloneAck"}
    BY DEF Messages
  <1> HIDE DEF t, no
  <1>3. Local(s, s1, x) /\ s1 \in NodeStates /\ Cleared(c, s1.ec[x])
    <2>1. CASE ~dup /\ m.ack # 0
      <3>1. s1 = HandleRcvdAck(s, x, m.ack)
        BY <2>1
      <3> HIDE DEF s1
      <3> QED
        BY <1>2, <3>1, HandleRcvdAckFacts DEF Local
    <2>2. CASE ~(~dup /\ m.ack # 0)
      <3>1. s1 = s
        BY <2>2
      <3> HIDE DEF s1
      <3> QED
        BY <3>1 DEF Local, Cleared, Evicted
    <2> QED
      BY <2>1, <2>2
  <1> HIDE DEF s1
  <1>4. Quiet(s1, s2, x) /\ s2 \in NodeStates
    BY <1>2, <1>3, HandleNeedsAckQuiet, QuietRefl DEF Quiet, Local
  <1> HIDE DEF s2
  <1>5. Quiet(s2, s3, x) /\ s3 \in NodeStates
    BY <1>4, FlushAcksQuiet, QuietRefl DEF Quiet, Local
  <1> HIDE DEF s3
  <1>6. /\ Local(s, s3, x) /\ Sound(s3.ec[x])
        /\ Settled(c) => Settled(s3.ec[x])
        /\ s2.ec[x].closed = c.closed /\ s3.ec[x].closed = c.closed
        /\ s3.ec[x].hasSession = c.hasSession
        /\ Announced(c) => Announced(s3.ec[x])
    <2>1. Local(s, s3, x)
      BY <1>3, <1>4, <1>5, LocalTrans DEF Quiet
    <2>2. Sound(s1.ec[x]) /\ (Settled(c) => Settled(s1.ec[x]))
      BY <1>3, ClearedKeeps
    <2>3. Sound(s3.ec[x]) /\ (Settled(c) => Settled(s3.ec[x]))
      BY <1>4, <1>5, <2>2, QuietKeeps
    <2> QED
      BY <1>3, <1>4, <1>5, <2>1, <2>3 DEF Quiet, SameLife, Cleared, Announced
  <1>7. Handled(s, s3, x, m.ctr) /\ s3.delivered = s.delivered
    BY <1>6 DEF Handled, Local
  <1>8. CASE \/ s2.ec[x].closed /\ s3.err = "Critical"
             \/ m.kind = "StandaloneAck"
             \/ dup
    <2>1. t = s3
      BY <1>1, <1>8
    <2>2. Settled(c)
      BY <1>6, <1>8
    <2> QED
      BY <1>6, <1>7, <2>1, <2>2 DEF t, StaysAnnounced
  <1>9. CASE ~dup /\ m.kind = "App" /\ ~(s2.ec[x].closed /\ s3.err = "Critical")
             /\ s3.ec[x].entry # {}
    <2>1. t = MessageHandled(refused, x)
      BY <1>1, <1>9
    <2>2. Local(s3, refused, x) /\ refused \in NodeStates /\ refused.ec = s3.ec
      BY <1>2, <1>5 DEF NodeStates, Local, Evicted
    <2> HIDE DEF refused
    <2>3. /\ Local(refused, t, x) /\ Settled(t.ec[x])
          /\ t.ec[x].hasSession = refused.ec[x].hasSession
          /\ refused.ec[x].willSend => t = refused
      BY <1>6, <2>1, <2>2, MessageHandledFacts
    <2>4. Local(s, t, x)
      BY <1>6, <2>2, <2>3, LocalTrans
    <2>5. StaysAnnounced(c, t.ec[x], reaction) /\ t.ec[x].hasSession = c.hasSession
      BY <1>6, <2>2, <2>3 DEF StaysAnnounced, Announced
    <2> QED
      BY <1>9, <2>3, <2>4, <2>5 DEF t, Handled, Local
  <1>10. CASE ~dup /\ m.kind = "App" /\ ~(s2.ec[x].closed /\ s3.err = "Critical")
              /\ s3.ec[x].entry = {}
    <2>1. t = IF s4.ec[x].closed THEN s4 ELSE MessageHandled(got, x)
      BY <1>1, <1>10
    <2>2. /\ Local(s3, s4, x) /\ s4 \in NodeStates /\ Sound(s4.ec[x])
          /\ s4.ec[x].closed \in BOOLEAN /\ s4.ec[x].entry = {}
          /\ s4.ec[x].hasSession = c.hasSession
          /\ Announced(c) => Announced(s4.ec[x])
      <3>1. LET d == s4.ec[x]
                e == s3.ec[x]
            IN /\ Local(s3, s4, x)
               /\ d.live = e.live /\ d.refs = e.refs /\ d.closed = e.closed
               /\ d.hasSession = e.hasSession /\ d.willSend = e.willSend
               /\ d.entry = e.entry
        BY <1>2, <1>5, SetResponseExpectedFacts
      <3> HIDE DEF s4
      <3>2. s4 \in NodeStates /\ Sound(s4.ec[x])
        BY <1>6, <3>1 DEF Local, Sound
      <3>3. s4.ec[x].closed \in BOOLEAN
        BY <3>2 DEF NodeStates, Contexts
      <3> QED
        BY <1>6, <1>10, <3>1, <3>2, <3>3 DEF Announced
    <2> HIDE DEF s4
    <2>3. Local(s, s4, x)
      BY <1>6, <2>2, LocalTrans
    <2>4. CASE s4.ec[x].closed
      <3>1. t = s4
        BY <2>1, <2>4
      <3>2. Settled(t.ec[x])
        BY <2>2, <2>4, <3>1 DEF Settled
      <3> QED
        BY <1>10, <2>2, <2>3, <3>1, <3>2 DEF t, Handled, Local, StaysAnnounced
    <2>5. CASE ~s4.ec[x].closed
      <3>1. t = MessageHandled(got, x)
        BY <2>1, <2>5
      <3>2. /\ Handled(s4, got, x, m.ctr) /\ got \in NodeStates /\ Sound(got.ec[x])
            /\ got.ec[x].hasSession = s4.ec[x].hasSession
            /\ StaysAnnounced(s4.ec[x], got.ec[x], reaction)
        BY <1>2, <2>2, OnMessageReceivedFacts DEF Handled
      <3> HIDE DEF got
      <3>3. /\ Local(got, t, x) /\ Settled(t.ec[x])
            /\ t.ec[x].hasSession = got.ec[x].hasSession
            /\ got.ec[x].willSend => t = got
        BY <3>1, <3>2, MessageHandledFacts
      <3>4. Handled(s, t, x, m.ctr)
        BY <2>3, <3>2, <3>3, HandledTrans
      <3>5. StaysAnnounced(c, t.ec[x], reaction) /\ t.ec[x].hasSession = c.hasSession
        BY <2>2, <3>2, <3>3 DEF StaysAnnounced, Announced
      <3> QED
        BY <1>10, <3>3, <3>4, <3>5 DEF t
    <2> QED
      BY <2>2, <2>4, <2>5
  <1> QED
    BY <1>2, <1>8, <1>9, <1>10

-------------------------------------------------------------------------------
\* The constructor gives a sound context that nobody holds yet.
LEMMA NewContextFacts ==
    ASSUME NEW b \in BOOLEAN
    PROVE  LET c == NewContext(b)
           IN /\ c \in Contexts /\ Sound(c) /\ ~c.closed /\ c.hasSession
              /\ b => Settled(c)
  <1>1. 0 \in Counters
    BY WindowAssumption DEF Counters
  <1> QED
    BY <1>1 DEF NewContext, Contexts, Sound, Settled

\* A free slot is a context that is not live.
LEMMA NoContextFacts ==
    /\ NoContext \in Contexts
    /\ ~NoContext.live /\ ~NoContext.hasSession /\ NoContext.entry = {}
    /\ ~NoContext.ackPending /\ ~NoContext.willSend /\ ~NoContext.responseExpected
    /\ NoContext.refs = 0 /\ NoContext.closed
  <1> DEFINE no == FALSE
             yes == TRUE
             c == NewContext(no)
             a == [c EXCEPT !.refs = 0]
             b == [a EXCEPT !.live = no]
             d == [b EXCEPT !.closed = yes, !.hasSession = no]
  <1>1. c \in Contexts
    BY NewContextFacts
  <1>2. c.entry = {} /\ ~c.ackPending /\ ~c.willSend /\ ~c.responseExpected
    BY DEF NewContext
  <1>3. NoContext = d
    <2> HIDE DEF c
    <2> QED
      BY <1>1 DEF Contexts, NoContext, c
  <1>4. no \in BOOLEAN /\ yes \in BOOLEAN /\ ~no /\ yes
    OBVIOUS
  <1> HIDE DEF c, no, yes
  <1>5. /\ b \in Contexts
        /\ b.live = no /\ b.refs = 0
        /\ b.entry = c.entry /\ b.ackPending = c.ackPending
        /\ b.willSend = c.willSend /\ b.responseExpected = c.responseExpected
    <2>1. /\ a \in Contexts /\ a.refs = 0
          /\ a.entry = c.entry /\ a.ackPending = c.ackPending
          /\ a.willSend = c.willSend /\ a.responseExpected = c.responseExpected
      BY <1>1 DEF Contexts
    <2> HIDE DEF a
    <2> QED
      BY <1>4, <2>1 DEF Contexts
  <1> HIDE DEF b
  <1>6. /\ d \in Contexts
        /\ d.live = b.live /\ d.refs = b.refs /\ d.closed = yes /\ d.hasSession = no
        /\ d.entry = b.entry /\ d.ackPending = b.ackPending
        /\ d.willSend = b.willSend /\ d.responseExpected = b.responseExpected
    BY <1>4, <1>5 DEF Contexts
  <1> HIDE DEF d
  <1> QED
    BY <1>2, <1>3, <1>4, <1>5, <1>6

\* Every slot of the pool is free or holds a settled context.
Ready(s) == \A y \in Exchanges : s.ec[y] = NoContext \/ Settled(s.ec[y])

\* A context loses its session only when the session is evicted.
Anchored(s) ==
    \A y \in Exchanges :
        s.ec[y].live /\ ~s.ec[y].hasSession => s.session = "PendingEviction"

\* The ephemeral exchange leaves nothing behind.
LEMMA SendStandaloneAckIfNeededFacts ==
    ASSUME NEW s \in NodeStates, NEW m \in Messages
    PROVE  LET t == SendStandaloneAckIfNeeded(s, m)
           IN /\ t \in NodeStates /\ t.node = s.node /\ t.delivered = s.delivered
              /\ t.ec = s.ec /\ Evicted(s, t)
  <1> DEFINE x == m.x
             new == NewContext(FALSE)
             ephemeral == WithContext(s, x, new)
             pending == SetPendingPeerAckMessageCounter(ephemeral, x, m.ctr)
             sent == SendStandaloneAckMessage(pending, x)
             c == s.ec[x]
             t == SendStandaloneAckIfNeeded(s, m)
  <1>1. t = s \/ t = WithContext(sent, x, c)
    BY DEF SendStandaloneAckIfNeeded, WithContext
  <1>2. x \in Exchanges /\ m.ctr \in Counters
    BY DEF Messages
  <1>3. c \in Contexts
    BY <1>2 DEF NodeStates
  <1>4. new \in Contexts
    <2>1. 0 \in Counters
      BY WindowAssumption DEF Counters
    <2> QED
      BY <2>1 DEF NewContext, Contexts
  <1> HIDE DEF t, x, new, c
  <1>5. Local(s, ephemeral, x) /\ ephemeral \in NodeStates
    BY <1>2, <1>4, UpdateContext DEF Local
  <1> HIDE DEF ephemeral
  <1>6. Local(ephemeral, pending, x) /\ pending \in NodeStates
    BY <1>2, <1>5, SetPendingFacts DEF Local
  <1> HIDE DEF pending
  <1>7. Local(pending, sent, x) /\ sent \in NodeStates
    BY <1>2, <1>6, SendStandaloneAckMessageQuiet DEF Local, Quiet
  <1> HIDE DEF sent
  <1>8. Local(s, sent, x)
    BY <1>5, <1>6, <1>7, LocalTrans
  <1>9. CASE t = WithContext(sent, x, c)
    <2>1. Local(sent, t, x) /\ t.ec[x] = c
      BY <1>2, <1>3, <1>7, <1>9, UpdateContext
    <2>2. Local(s, t, x)
      BY <1>8, <2>1, LocalTrans
    <2>3. \A y \in Exchanges : t.ec[y] = s.ec[y]
      BY <2>1, <2>2 DEF Local, c
    <2>4. t.ec = s.ec
      <3>1. t.ec \in [Exchanges -> Contexts] /\ s.ec \in [Exchanges -> Contexts]
        BY <2>2 DEF NodeStates, Local
      <3> QED
        BY <2>3, <3>1
    <2> QED
      BY <2>2, <2>4 DEF Local, t
  <1> QED
    BY <1>1, <1>9 DEF t, Evicted

-------------------------------------------------------------------------------
\* Work on one exchange that settles it keeps every slot as it should be.
LEMMA ReadyOneExchange ==
    ASSUME NEW s \in NodeStates, NEW t \in NodeStates, NEW x \in Exchanges, Ready(s),
           \A y \in Exchanges : y # x => t.ec[y] = s.ec[y], Settled(t.ec[x])
    PROVE  Ready(t)
  BY DEF Ready

\* Work on one exchange that has or keeps its session leaves the others anchored.
LEMMA AnchoredOneExchange ==
    ASSUME NEW s \in NodeStates, NEW t \in NodeStates, NEW x \in Exchanges, Anchored(s),
           \A y \in Exchanges : y # x => t.ec[y] = s.ec[y], Evicted(s, t),
           t.ec[x].hasSession \/ (s.ec[x].live /\ t.ec[x].hasSession = s.ec[x].hasSession)
    PROVE  Anchored(t)
  BY DEF Anchored, Evicted

\* ExchangeManager::OnMessageReceived keeps the pool in order, and hands the message
\* to the application at most once, a duplicate not at all.
LEMMA DispatchToExchangeFacts ==
    ASSUME NEW s \in NodeStates, NEW m \in Messages, NEW dup \in BOOLEAN,
           NEW reaction \in Reactions, Ready(s), Anchored(s)
    PROVE  LET t == DispatchToExchange(s, m, dup, reaction)
           IN /\ t \in NodeStates /\ t.node = s.node /\ Ready(t) /\ Anchored(t)
              /\ \A y \in Exchanges : y # m.x => t.ec[y] = s.ec[y]
              /\ StaysAnnounced(s.ec[m.x], t.ec[m.x], reaction)
              /\ t.delivered \in {s.delivered, [s.delivered EXCEPT ![m.ctr] = @ + 1]}
              /\ dup => t.delivered = s.delivered
  <1> DEFINE x == m.x
             no == FALSE
             new == NewContext(no)
             created == WithContext(s, x, new)
             known == HandleMessage(s, x, m, dup, reaction)
             opened == HandleMessage(created, x, m, dup, reaction)
             refused == SendStandaloneAckIfNeeded(s, m)
             t == DispatchToExchange(s, m, dup, reaction)
  <1>1. \/ s.ec[x].hasSession /\ t = known
        \/ t = s
        \/ /\ ~s.ec[x].hasSession /\ s.session = "Active"
           /\ ~dup /\ m.kind = "App" /\ t = opened
        \/ t = refused
    BY DEF DispatchToExchange, WithContext
  <1>2. x \in Exchanges /\ no \in BOOLEAN
    BY DEF Messages
  <1> HIDE DEF t, x, no
  <1>3. CASE s.ec[x].hasSession /\ t = known
    <2>1. s.ec[x] # NoContext
      BY <1>3, NoContextFacts
    <2>2. Settled(s.ec[x]) /\ Sound(s.ec[x])
      BY <1>2, <2>1 DEF Ready, Settled
    <2>3. /\ Handled(s, t, x, m.ctr) /\ Settled(t.ec[x])
          /\ dup => t.delivered = s.delivered
          /\ t.ec[x].hasSession = s.ec[x].hasSession
          /\ StaysAnnounced(s.ec[x], t.ec[x], reaction)
      BY <1>2, <1>3, <2>2, HandleMessageFacts
    <2>4. Ready(t)
      BY <1>2, <2>3, ReadyOneExchange DEF Handled
    <2>5. Anchored(t)
      BY <1>2, <1>3, <2>3, AnchoredOneExchange DEF Handled
    <2> QED
      BY <2>3, <2>4, <2>5 DEF Handled, t, x
  <1>4. CASE t = s
    BY <1>4 DEF t, StaysAnnounced
  <1>5. CASE /\ ~s.ec[x].hasSession /\ s.session = "Active"
             /\ ~dup /\ m.kind = "App" /\ t = opened
    <2>1. new \in Contexts /\ Sound(new) /\ ~new.closed /\ new.hasSession
      BY <1>2, NewContextFacts
    <2> HIDE DEF new
    <2>2. Local(s, created, x) /\ created \in NodeStates /\ created.ec[x] = new
      BY <1>2, <2>1, UpdateContext DEF Local
    <2> HIDE DEF created
    <2>3. /\ Handled(created, t, x, m.ctr) /\ Settled(t.ec[x])
          /\ t.ec[x].hasSession
      BY <1>2, <1>5, <2>1, <2>2, HandleMessageFacts
    <2>4. Handled(s, t, x, m.ctr)
      BY <2>2, <2>3, HandledTrans
    <2>5. Ready(t)
      BY <1>2, <2>3, <2>4, ReadyOneExchange DEF Handled
    <2>6. Anchored(t)
      BY <1>2, <2>3, <2>4, AnchoredOneExchange DEF Handled
    <2>7. ~Announced(s.ec[x])
      BY <1>2, <1>5 DEF Anchored, Announced
    <2> QED
      BY <1>5, <2>4, <2>5, <2>6, <2>7 DEF Handled, t, x, StaysAnnounced
  <1>6. CASE t = refused
    <2>1. /\ t \in NodeStates /\ t.node = s.node /\ t.delivered = s.delivered
          /\ t.ec = s.ec /\ Evicted(s, t)
      BY <1>6, SendStandaloneAckIfNeededFacts
    <2> QED
      BY <2>1 DEF Ready, Anchored, Evicted, StaysAnnounced, t
  <1> QED
    BY <1>1, <1>3, <1>4, <1>5, <1>6

\* ExecuteActions sends an entry again or gives it up.
LEMMA RetransmitFacts ==
    ASSUME NEW s \in NodeStates, NEW x \in Exchanges, Settled(s.ec[x])
    PROVE  LET t == Retransmit(s, x)
           IN /\ Local(s, t, x) /\ Settled(t.ec[x])
              /\ t.ec[x].hasSession = s.ec[x].hasSession
  <1> DEFINE c == s.ec[x]
             d == [c EXCEPT !.sendCount = @ + 1]
             again == WithSend(s, x, d, s.tx, s.sent \cup c.entry, s.err)
             given == ClearRetransTable(s, x)
             t == Retransmit(s, x)
  <1>1. c \in Contexts
    BY DEF NodeStates
  <1>2. t = given \/ t = MarkAsDefunct(given) \/ t = again
    BY DEF Retransmit, WithSend, NodeStates
  <1>3. d \in Contexts /\ SameLife(c, d)
    <2> HIDE DEF c
    <2> QED
      BY <1>1 DEF Contexts, SameLife
  <1>4. Local(s, again, x) /\ again.ec[x] = d
    <2>1. /\ s.tx \in Counters /\ (s.sent \cup c.entry) \in SUBSET Messages
          /\ s.err \in {"None", "NonCritical", "Critical"}
      <3> HIDE DEF c
      <3> QED
        BY <1>1 DEF NodeStates, Contexts
    <2> HIDE DEF c, d
    <2> QED
      BY <1>3, <2>1, UpdateNode
  <1>5. Local(s, given, x) /\ given \in NodeStates /\ Cleared(c, given.ec[x])
    BY ClearRetransTableFacts DEF Local, Cleared
  <1> HIDE DEF given, again, t, d
  <1>6. CASE t = again
    BY <1>3, <1>4, <1>6 DEF SameLife, Settled, Sound, t
  <1>7. CASE t = given
    BY <1>5, <1>7, ClearedKeeps DEF t, Cleared
  <1>8. CASE t = MarkAsDefunct(given)
    <2>1. Quiet(given, t, x)
      BY <1>5, <1>8, MarkFacts
    <2> QED
      BY <1>5, <2>1, ClearedKeeps, QuietKeeps, LocalTrans DEF t, Quiet, SameLife, Cleared
  <1> QED
    BY <1>2, <1>6, <1>7, <1>8

\* An eviction tells the exchanges, and leaves every one of them settled.
LEMMA MarkForEvictionFacts ==
    ASSUME NEW s \in NodeStates, NEW ignoring, Ready(s)
    PROVE  LET t == MarkForEviction(s, ignoring)
           IN /\ t \in NodeStates /\ t.node = s.node /\ Ready(t)
              /\ t.delivered = s.delivered /\ t.session = "PendingEviction"
              /\ \A x \in Exchanges : Announced(s.ec[x]) => Announced(t.ec[x])
  <1> DEFINE ec == [x \in Exchanges |->
                      IF s.ec[x].hasSession /\ x \notin ignoring
                        THEN OnSessionReleased(s, x).ec[x]
                        ELSE s.ec[x]]
             told == [s EXCEPT !.session = "PendingEviction", !.ec = ec]
             t == MarkForEviction(s, ignoring)
  <1>1. (t = s /\ s.session = "PendingEviction") \/ t = told
    BY DEF MarkForEviction
  <1>2. ASSUME NEW x \in Exchanges
        PROVE  /\ ec[x] \in Contexts /\ (ec[x] = NoContext \/ Settled(ec[x]))
               /\ Announced(s.ec[x]) => Announced(ec[x])
    <2>1. CASE s.ec[x].hasSession /\ x \notin ignoring
      <3>1. s.ec[x] # NoContext
        BY <2>1, NoContextFacts
      <3>2. Sound(s.ec[x])
        BY <3>1 DEF Ready, Settled
      <3>3. LET u == OnSessionReleased(s, x)
            IN /\ Local(s, u, x) /\ Settled(u.ec[x])
               /\ Announced(s.ec[x]) => Announced(u.ec[x])
        BY <2>1, <3>2, OnSessionReleasedFacts
      <3>4. ec[x] = OnSessionReleased(s, x).ec[x]
        BY <2>1
      <3> HIDE DEF ec
      <3> QED
        BY <3>3, <3>4 DEF Local, NodeStates
    <2>2. CASE ~(s.ec[x].hasSession /\ x \notin ignoring)
      <3>1. ec[x] = s.ec[x]
        BY <2>2
      <3> HIDE DEF ec
      <3> QED
        BY <3>1 DEF Ready, NodeStates
    <2> QED
      BY <2>1, <2>2
  <1>3. ec \in [Exchanges -> Contexts]
    <2>1. ec = [x \in Exchanges |-> ec[x]]
      OBVIOUS
    <2> HIDE DEF ec
    <2> QED
      BY <1>2, <2>1
  <1> HIDE DEF ec, t
  <1>4. /\ told \in NodeStates /\ told.node = s.node /\ told.delivered = s.delivered
        /\ told.ec = ec /\ told.session = "PendingEviction"
    BY <1>3 DEF NodeStates, SessionStates
  <1>5. Ready(told) /\ \A x \in Exchanges : Announced(s.ec[x]) => Announced(told.ec[x])
    BY <1>2, <1>4 DEF Ready
  <1> HIDE DEF told
  <1> QED
    BY <1>1, <1>4, <1>5 DEF t

-------------------------------------------------------------------------------
(* What a node acknowledges.  G stands for the counters it may acknowledge,  *)
(* with 0 for none.                                                          *)

\* A context has nothing but these counters to acknowledge, and what it may send
\* again acknowledges nothing else.
Truthful(c, n, G) ==
    /\ c.pendingPeerAck \in G
    /\ \A m \in c.entry : m.ack \in G /\ m.from = n

\* The same for a node in the middle of a handler.
TruthfulNode(s, G) ==
    /\ s \in NodeStates
    /\ 0 \in G
    /\ \A y \in Exchanges : Truthful(s.ec[y], s.node, G)
    /\ \A m \in s.sent : m.ack \in G /\ m.from = s.node

\* An operation that stays truthful and takes in no ack.
Faithful(s, t, G) ==
    /\ TruthfulNode(t, G)
    /\ t.node = s.node
    /\ t.acked = s.acked

\* Faithful operations add up.
LEMMA FaithfulTrans ==
    ASSUME NEW s, NEW t, NEW u, NEW G, Faithful(s, t, G), Faithful(t, u, G)
    PROVE  Faithful(s, u, G)
  BY DEF Faithful

\* Nothing done is faithful.
LEMMA FaithfulRefl ==
    ASSUME NEW s, NEW G, TruthfulNode(s, G)
    PROVE  Faithful(s, s, G)
  BY DEF Faithful

\* Replacing a context by a truthful one is faithful.
LEMMA FaithfulContext ==
    ASSUME NEW s, NEW G, TruthfulNode(s, G), NEW x \in Exchanges, NEW c \in Contexts,
           Truthful(c, s.node, G)
    PROVE  Faithful(s, WithContext(s, x, c), G)
  <1> DEFINE t == WithContext(s, x, c)
  <1>1. s \in NodeStates
    BY DEF TruthfulNode
  <1>2. Local(s, t, x) /\ t.ec[x] = c /\ t.sent = s.sent
    BY <1>1, UpdateContext
  <1>3. t.acked = s.acked
    BY DEF WithContext
  <1> HIDE DEF t
  <1> QED
    BY <1>2, <1>3 DEF Faithful, TruthfulNode, Local, t

\* So is sending a truthful message from a truthful context.
LEMMA FaithfulSend ==
    ASSUME NEW s, NEW G, TruthfulNode(s, G), NEW x \in Exchanges, NEW c \in Contexts,
           Truthful(c, s.node, G), NEW tx \in Counters, NEW sent \in SUBSET Messages,
           \A m \in sent : m.ack \in G /\ m.from = s.node,
           NEW err \in {"None", "NonCritical", "Critical"}
    PROVE  Faithful(s, WithSend(s, x, c, tx, sent, err), G)
  <1> DEFINE t == WithSend(s, x, c, tx, sent, err)
  <1>1. s \in NodeStates
    BY DEF TruthfulNode
  <1>2. Local(s, t, x) /\ t.ec[x] = c
    BY <1>1, UpdateNode
  <1>3. t.acked = s.acked /\ t.sent = sent
    BY <1>1 DEF WithSend, NodeStates
  <1> HIDE DEF t
  <1> QED
    BY <1>2, <1>3 DEF Faithful, TruthfulNode, Local, t

\* A context whose ack and table entry stay, or lose their entry, stays truthful.
LEMMA TruthfulKeeps ==
    ASSUME NEW c, NEW d, NEW n, NEW G, Truthful(c, n, G),
           d.pendingPeerAck = c.pendingPeerAck, d.entry \in {c.entry, {}}
    PROVE  Truthful(d, n, G)
  BY DEF Truthful

\* The context of an exchange of a truthful node.
LEMMA TruthfulHas ==
    ASSUME NEW s, NEW G, TruthfulNode(s, G), NEW x \in Exchanges
    PROVE  /\ s \in NodeStates /\ s.node \in Nodes /\ 0 \in G
           /\ s.ec[x] \in Contexts /\ Truthful(s.ec[x], s.node, G)
  BY DEF TruthfulNode, NodeStates

\* The operations that set a flag or a count of the context are faithful.
LEMMA FaithfulFlags ==
    ASSUME NEW s, NEW G, TruthfulNode(s, G), NEW x \in Exchanges, NEW b \in BOOLEAN
    PROVE  /\ Faithful(s, SetResponseExpected(s, x, b), G)
           /\ Faithful(s, AckSeen(s, x), G)
           /\ Faithful(s, SetClosed(s, x), G)
           /\ Faithful(s, SetWillSend(s, x, b), G)
           /\ Faithful(s, DropSession(s, x), G)
           /\ Faithful(s, ClearRetransTable(s, x), G)
           /\ Faithful(s, Release(s, x), G)
  <1> DEFINE c == s.ec[x]
             no == FALSE
             yes == TRUE
             d1 == [c EXCEPT !.responseExpected = b, !.waitingForResponseOrAck = b]
             d2 == [c EXCEPT !.waitingForResponseOrAck = no]
             d3 == [c EXCEPT !.closed = yes]
             d4 == [c EXCEPT !.willSend = b]
             d5 == [c EXCEPT !.hasSession = no]
             d6 == [c EXCEPT !.entry = {}]
             d7 == [c EXCEPT !.refs = @ - 1]
  <1>1. s \in NodeStates /\ c \in Contexts /\ Truthful(c, s.node, G)
    BY TruthfulHas
  <1>2. /\ SetResponseExpected(s, x, b) = WithContext(s, x, d1)
        /\ AckSeen(s, x) = WithContext(s, x, d2)
        /\ SetClosed(s, x) = WithContext(s, x, d3)
        /\ SetWillSend(s, x, b) = WithContext(s, x, d4)
        /\ DropSession(s, x) = WithContext(s, x, d5)
        /\ ClearRetransTable(s, x) = WithContext(s, x, d6)
        /\ Release(s, x) = WithContext(s, x, d7)
    BY <1>1 DEF NodeStates, WithContext, SetResponseExpected, AckSeen, SetClosed, SetWillSend,
                DropSession, ClearRetransTable, Release
  <1>3. no \in BOOLEAN /\ yes \in BOOLEAN
    OBVIOUS
  <1> HIDE DEF c, no, yes
  <1>4. \A d \in {d1, d2, d3, d4, d5, d6, d7} :
           d \in Contexts /\ d.pendingPeerAck = c.pendingPeerAck /\ d.entry \in {c.entry, {}}
    <2>1. d1 \in Contexts /\ d1.pendingPeerAck = c.pendingPeerAck /\ d1.entry = c.entry
      BY <1>1, <1>3 DEF Contexts
    <2>2. d2 \in Contexts /\ d2.pendingPeerAck = c.pendingPeerAck /\ d2.entry = c.entry
      BY <1>1, <1>3 DEF Contexts
    <2>3. d3 \in Contexts /\ d3.pendingPeerAck = c.pendingPeerAck /\ d3.entry = c.entry
      BY <1>1, <1>3 DEF Contexts
    <2>4. d4 \in Contexts /\ d4.pendingPeerAck = c.pendingPeerAck /\ d4.entry = c.entry
      BY <1>1, <1>3 DEF Contexts
    <2>5. d5 \in Contexts /\ d5.pendingPeerAck = c.pendingPeerAck /\ d5.entry = c.entry
      BY <1>1, <1>3 DEF Contexts
    <2>6. d6 \in Contexts /\ d6.pendingPeerAck = c.pendingPeerAck /\ d6.entry = {}
      BY <1>1, <1>3 DEF Contexts
    <2>7. d7 \in Contexts /\ d7.pendingPeerAck = c.pendingPeerAck /\ d7.entry = c.entry
      BY <1>1, <1>3 DEF Contexts
    <2> HIDE DEF d1, d2, d3, d4, d5, d6, d7
    <2> QED
      BY <2>1, <2>2, <2>3, <2>4, <2>5, <2>6, <2>7
  <1> HIDE DEF d1, d2, d3, d4, d5, d6, d7
  <1>5. \A d \in {d1, d2, d3, d4, d5, d6, d7} : Faithful(s, WithContext(s, x, d), G)
    <2> SUFFICES ASSUME NEW d \in {d1, d2, d3, d4, d5, d6, d7}
                 PROVE  Faithful(s, WithContext(s, x, d), G)
      OBVIOUS
    <2>1. d \in Contexts /\ Truthful(d, s.node, G)
      BY <1>1, <1>4, TruthfulKeeps
    <2> QED
      BY <2>1, FaithfulContext
  <1> QED
    BY <1>2, <1>5

\* Marking the session, and setting the error, touch no ack.
LEMMA FaithfulMarks ==
    ASSUME NEW s, NEW G, TruthfulNode(s, G),
           NEW err \in {"None", "NonCritical", "Critical"}
    PROVE  /\ Faithful(s, MarkAsDefunct(s), G)
           /\ Faithful(s, MarkActiveRx(s), G)
           /\ Faithful(s, [s EXCEPT !.err = err], G)
  <1> DEFINE t1 == MarkAsDefunct(s)
             t2 == MarkActiveRx(s)
             t3 == [s EXCEPT !.err = err]
  <1>1. s \in NodeStates
    BY DEF TruthfulNode
  <1>2. \A t \in {t1, t2, t3} :
           /\ t \in NodeStates /\ t.node = s.node /\ t.acked = s.acked
           /\ t.ec = s.ec /\ t.sent = s.sent
    BY <1>1 DEF MarkAsDefunct, MarkActiveRx, NodeStates, SessionStates
  <1> HIDE DEF t1, t2, t3
  <1>3. \A t \in {t1, t2, t3} : Faithful(s, t, G)
    BY <1>2 DEF TruthfulNode, Faithful
  <1> QED
    BY <1>3 DEF t1, t2, t3

\* Recording a counter to acknowledge is faithful when the counter may be
\* acknowledged.
LEMMA FaithfulPending ==
    ASSUME NEW s, NEW G, TruthfulNode(s, G), NEW x \in Exchanges, NEW v \in Counters,
           v \in G
    PROVE  /\ Faithful(s, SetPendingPeerAckMessageCounter(s, x, v), G)
           /\ Faithful(s, PutBack(s, x, v), G)
  <1> DEFINE c == s.ec[x]
             yes == TRUE
             d1 == [c EXCEPT !.pendingPeerAck = v, !.ackPending = yes, !.ackValid = yes]
             d2 == [c EXCEPT !.pendingPeerAck = v]
  <1>1. s \in NodeStates /\ c \in Contexts /\ Truthful(c, s.node, G)
    BY TruthfulHas
  <1>2. /\ SetPendingPeerAckMessageCounter(s, x, v) = WithContext(s, x, d1)
        /\ PutBack(s, x, v) = WithContext(s, x, d2)
    BY <1>1 DEF NodeStates, WithContext, SetPendingPeerAckMessageCounter, PutBack
  <1>3. yes \in BOOLEAN
    OBVIOUS
  <1> HIDE DEF c, yes
  <1>4. d1 \in Contexts /\ d1.pendingPeerAck = v /\ d1.entry = c.entry
    BY <1>1, <1>3 DEF Contexts
  <1>5. d2 \in Contexts /\ d2.pendingPeerAck = v /\ d2.entry = c.entry
    BY <1>1, <1>3 DEF Contexts
  <1> HIDE DEF d1, d2
  <1>6. Truthful(d1, s.node, G) /\ Truthful(d2, s.node, G)
    BY <1>1, <1>4, <1>5 DEF Truthful
  <1> QED
    BY <1>2, <1>4, <1>5, <1>6, FaithfulContext

\* What DispatchMessage sends and keeps carries the ack the context had.
LEMMA DispatchMessageFaithful ==
    ASSUME NEW s, NEW G, TruthfulNode(s, G), NEW x \in Exchanges,
           NEW kind \in {"App", "StandaloneAck"}, NEW reliable \in BOOLEAN
    PROVE  Faithful(s, DispatchMessage(s, x, kind, reliable), G)
  <1> DEFINE c == s.ec[x]
             p == c.ackPending /\ ~c.ackValid
             a == IF c.ackValid THEN c.pendingPeerAck ELSE 0
             msg == [from |-> s.node, x |-> x, kind |-> kind, ctr |-> s.tx + 1,
                     needsAck |-> reliable, ack |-> a]
             t == DispatchMessage(s, x, kind, reliable)
             taken == [c EXCEPT !.ackPending = p]
             kept == IF reliable THEN [taken EXCEPT !.entry = {msg}, !.sendCount = 0]
                                 ELSE taken
             refused == \/ reliable /\ (c.entry # {} \/ RetransTableFull(s))
                        \/ CounterExhausted(s)
  <1>1. /\ c \in Contexts /\ s.tx \in Counters /\ s.node \in Nodes
        /\ s.sent \in SUBSET Messages /\ s \in NodeStates
        /\ Truthful(c, s.node, G) /\ 0 \in G
        /\ \A m \in s.sent : m.ack \in G /\ m.from = s.node
    BY TruthfulHas DEF TruthfulNode, NodeStates
  <1>2. /\ c.pendingPeerAck \in Counters /\ c.ackValid \in BOOLEAN /\ p \in BOOLEAN
    BY <1>1 DEF Contexts
  <1>3. ~CounterExhausted(s) => s.tx + 1 \in Counters
    BY <1>1, WindowAssumption DEF CounterExhausted, Counters
  <1>4. a \in Counters /\ a \in G
    <2>1. 0 \in Counters
      BY WindowAssumption DEF Counters
    <2> QED
      BY <1>1, <1>2, <2>1 DEF Truthful
  <1>5. t = IF refused
              THEN [s EXCEPT !.ec[x] = taken, !.err = "Critical"]
              ELSE IF ~s.up
                THEN [s EXCEPT !.ec[x] = taken, !.err = "NonCritical", !.tx = @ + 1]
                ELSE [s EXCEPT !.ec[x] = kept, !.err = "None", !.tx = @ + 1,
                               !.sent = @ \cup {msg}]
    BY DEF DispatchMessage
  <1> HIDE DEF a
  <1>6. /\ ~CounterExhausted(s) => msg \in Messages
        /\ msg.ack = a /\ msg.from = s.node
    BY <1>1, <1>3, <1>4 DEF Messages
  <1> HIDE DEF msg, t, p, refused
  <1>7. /\ taken \in Contexts
        /\ taken.pendingPeerAck = c.pendingPeerAck /\ taken.entry = c.entry
    <2> HIDE DEF c
    <2> QED
      BY <1>1, <1>2 DEF Contexts
  <1> HIDE DEF taken
  <1>8. Truthful(taken, s.node, G)
    BY <1>1, <1>7, TruthfulKeeps
  <1>9. CASE refused
    <2>1. t = WithSend(s, x, taken, s.tx, s.sent, "Critical")
      BY <1>1, <1>5, <1>9 DEF NodeStates, WithSend
    <2> QED
      BY <1>1, <1>7, <1>8, <2>1, FaithfulSend DEF t
  <1>10. CASE ~refused /\ ~s.up
    <2>1. t = WithSend(s, x, taken, s.tx + 1, s.sent, "NonCritical")
      BY <1>1, <1>5, <1>10 DEF NodeStates, WithSend
    <2>2. s.tx + 1 \in Counters
      BY <1>3, <1>10 DEF refused
    <2> QED
      BY <1>1, <1>7, <1>8, <2>1, <2>2, FaithfulSend DEF t
  <1>11. CASE ~refused /\ s.up
    <2>1. s.tx + 1 \in Counters /\ msg \in Messages
      BY <1>3, <1>6, <1>11 DEF refused
    <2>2. kept \in Contexts /\ Truthful(kept, s.node, G)
      <3>1. CASE reliable
        <4>1. /\ kept \in Contexts /\ kept.pendingPeerAck = taken.pendingPeerAck
              /\ kept.entry = {msg}
          BY <1>7, <2>1, <3>1 DEF Contexts
        <4> HIDE DEF kept
        <4> QED
          BY <1>4, <1>6, <1>8, <4>1 DEF Truthful
      <3>2. CASE ~reliable
        BY <1>7, <1>8, <3>2
      <3> QED
        BY <3>1, <3>2
    <2> HIDE DEF kept
    <2>3. t = WithSend(s, x, kept, s.tx + 1, s.sent \cup {msg}, "None")
      BY <1>1, <1>5, <1>11 DEF NodeStates, WithSend
    <2> DEFINE sent == s.sent \cup {msg}
    <2>4. /\ sent \in SUBSET Messages
          /\ \A m \in sent : m.ack \in G /\ m.from = s.node
      BY <1>1, <1>4, <1>6, <2>1
    <2>5. t = WithSend(s, x, kept, s.tx + 1, sent, "None")
      BY <2>3
    <2> HIDE DEF sent
    <2> QED
      BY <2>1, <2>2, <2>4, <2>5, FaithfulSend DEF t
  <1> QED
    BY <1>9, <1>10, <1>11

\* So does what an exchange sends.
LEMMA SendOnExchangeFaithful ==
    ASSUME NEW s, NEW G, TruthfulNode(s, G), NEW x \in Exchanges,
           NEW kind \in {"App", "StandaloneAck"}, NEW flags \in SendFlags
    PROVE  Faithful(s, SendOnExchange(s, x, kind, flags), G)
  <1> DEFINE yes == TRUE
             no == FALSE
             asked == IF flags.expectResponse THEN SetResponseExpected(s, x, yes) ELSE s
             reliable == ~flags.noAutoRequestAck
             done == DispatchMessage(asked, x, kind, reliable)
             unasked == IF flags.expectResponse THEN SetResponseExpected(done, x, no)
                                                ELSE done
             t == SendOnExchange(s, x, kind, flags)
  <1>1. t \in {[s EXCEPT !.err = "Critical"], MarkAsDefunct(unasked), done}
    BY DEF SendOnExchange
  <1>2. reliable \in BOOLEAN /\ yes \in BOOLEAN /\ no \in BOOLEAN
    BY DEF SendFlags
  <1> HIDE DEF t, yes, no, reliable
  <1>3. Faithful(s, asked, G)
    BY <1>2, FaithfulFlags, FaithfulRefl
  <1> HIDE DEF asked
  <1>4. Faithful(asked, done, G)
    <2>1. TruthfulNode(asked, G)
      BY <1>3 DEF Faithful
    <2> QED
      BY <1>2, <2>1, DispatchMessageFaithful
  <1> HIDE DEF done
  <1>5. Faithful(done, unasked, G)
    <2>1. TruthfulNode(done, G)
      BY <1>4 DEF Faithful
    <2> QED
      BY <1>2, <2>1, FaithfulFlags, FaithfulRefl
  <1> HIDE DEF unasked
  <1>6. Faithful(unasked, MarkAsDefunct(unasked), G)
    BY <1>5, FaithfulMarks DEF Faithful
  <1>7. Faithful(s, [s EXCEPT !.err = "Critical"], G)
    BY FaithfulMarks
  <1>8. Faithful(s, done, G)
    BY <1>3, <1>4, FaithfulTrans
  <1>9. Faithful(s, MarkAsDefunct(unasked), G)
    BY <1>5, <1>6, <1>8, FaithfulTrans
  <1> QED
    BY <1>1, <1>7, <1>8, <1>9 DEF t

\* Standalone acks acknowledge what the context has to acknowledge.
LEMMA AcksFaithful ==
    ASSUME NEW s, NEW G, TruthfulNode(s, G), NEW x \in Exchanges
    PROVE  /\ Faithful(s, SendStandaloneAckMessage(s, x), G)
           /\ Faithful(s, FlushAcks(s, x), G)
  <1> DEFINE flags == [expectResponse |-> FALSE, noAutoRequestAck |-> TRUE]
  <1>1. /\ SendStandaloneAckMessage(s, x) = SendOnExchange(s, x, "StandaloneAck", flags)
        /\ flags \in SendFlags
    BY DEF SendStandaloneAckMessage, SendFlags
  <1> HIDE DEF flags
  <1>2. Faithful(s, SendStandaloneAckMessage(s, x), G)
    BY <1>1, SendOnExchangeFaithful
  <1>3. Faithful(s, [s EXCEPT !.err = "None"], G)
    BY FaithfulMarks
  <1> QED
    BY <1>2, <1>3 DEF FlushAcks

\* Closing, aborting and the end of a message's handling are faithful.
LEMMA ClosingFaithful ==
    ASSUME NEW s, NEW G, TruthfulNode(s, G), NEW x \in Exchanges, NEW clear \in BOOLEAN
    PROVE  /\ Faithful(s, DoClose(s, x, clear), G)
           /\ Faithful(s, Close(s, x), G)
           /\ Faithful(s, Abort(s, x), G)
           /\ Faithful(s, MessageHandled(s, x), G)
  <1>1. ASSUME NEW b \in BOOLEAN
        PROVE  Faithful(s, DoClose(s, x, b), G)
    <2> DEFINE marked == SetClosed(s, x)
               flushed == FlushAcks(marked, x)
               cleared == ClearRetransTable(flushed, x)
    <2>1. DoClose(s, x, b) \in {s, cleared, flushed}
      BY DEF DoClose, SetClosed
    <2>2. Faithful(s, marked, G)
      BY <1>1, FaithfulFlags
    <2> HIDE DEF marked
    <2>3. Faithful(marked, flushed, G)
      BY <2>2, AcksFaithful DEF Faithful
    <2> HIDE DEF flushed
    <2>4. Faithful(flushed, cleared, G)
      BY <1>1, <2>3, FaithfulFlags DEF Faithful
    <2> HIDE DEF cleared
    <2>5. Faithful(s, flushed, G) /\ Faithful(s, cleared, G)
      BY <2>2, <2>3, <2>4, FaithfulTrans
    <2> QED
      BY <2>1, <2>5, FaithfulRefl
  <1>2. ASSUME NEW b \in BOOLEAN
        PROVE  Faithful(s, Release(DoClose(s, x, b), x), G)
    <2> DEFINE done == DoClose(s, x, b)
    <2>1. Faithful(s, done, G)
      BY <1>1, <1>2
    <2> HIDE DEF done
    <2>2. Faithful(done, Release(done, x), G)
      BY <1>2, <2>1, FaithfulFlags DEF Faithful
    <2>3. Faithful(s, Release(done, x), G)
      BY <2>1, <2>2, FaithfulTrans
    <2> QED
      BY <2>3 DEF done
  <1>3. Faithful(s, Close(s, x), G) /\ Faithful(s, Abort(s, x), G)
    BY <1>2 DEF Close, Abort
  <1>4. Faithful(s, MessageHandled(s, x), G)
    BY <1>3, FaithfulRefl DEF MessageHandled
  <1> QED
    BY <1>1, <1>3, <1>4

\* An application message carries the ack the context had.
LEMMA SendMessageFaithful ==
    ASSUME NEW s, NEW G, TruthfulNode(s, G), NEW x \in Exchanges, NEW flags \in SendFlags
    PROVE  Faithful(s, SendMessage(s, x, flags), G)
  <1> DEFINE done == SendOnExchange(s, x, "App", flags)
             no == FALSE
             spoken == SetWillSend(done, x, no)
             t == SendMessage(s, x, flags)
  <1>1. t \in {done, MessageHandled(spoken, x)} /\ no \in BOOLEAN
    BY DEF SendMessage, SetWillSend
  <1> HIDE DEF t, no
  <1>2. Faithful(s, done, G)
    BY SendOnExchangeFaithful
  <1> HIDE DEF done
  <1>3. Faithful(done, spoken, G)
    BY <1>1, <1>2, FaithfulFlags DEF Faithful
  <1> HIDE DEF spoken
  <1>4. Faithful(spoken, MessageHandled(spoken, x), G)
    BY <1>1, <1>3, ClosingFaithful DEF Faithful
  <1>5. Faithful(s, MessageHandled(spoken, x), G)
    BY <1>2, <1>3, <1>4, FaithfulTrans
  <1> QED
    BY <1>1, <1>2, <1>5 DEF t

\* The response timer acknowledges nothing new.
LEMMA TimeoutFaithful ==
    ASSUME NEW s, NEW G, TruthfulNode(s, G), NEW x \in Exchanges
    PROVE  /\ Faithful(s, TimedOut(s, x), G)
           /\ Faithful(s, NotifyResponseTimeout(s, x, TRUE), G)
  <1> DEFINE no == FALSE
             quiet == SetResponseExpected(s, x, no)
             t == TimedOut(s, x)
  <1>1. t \in {quiet, MarkAsDefunct(quiet)} /\ no \in BOOLEAN
    BY DEF TimedOut
  <1>2. NotifyResponseTimeout(s, x, TRUE) = MessageHandled(t, x)
    BY DEF NotifyResponseTimeout, TimedOut
  <1> HIDE DEF t, no
  <1>3. Faithful(s, quiet, G)
    BY <1>1, FaithfulFlags
  <1> HIDE DEF quiet
  <1>4. Faithful(quiet, MarkAsDefunct(quiet), G)
    BY <1>3, FaithfulMarks DEF Faithful
  <1>5. Faithful(s, t, G)
    BY <1>1, <1>3, <1>4, FaithfulTrans
  <1>6. Faithful(t, MessageHandled(t, x), G)
    BY <1>1, <1>5, ClosingFaithful DEF Faithful
  <1> QED
    BY <1>2, <1>5, <1>6, FaithfulTrans DEF t

\* Nor does a context that loses its session.
LEMMA OnSessionReleasedFaithful ==
    ASSUME NEW s, NEW G, TruthfulNode(s, G), NEW x \in Exchanges
    PROVE  Faithful(s, OnSessionReleased(s, x), G)
  <1> DEFINE c == s.ec[x]
             yes == TRUE
             released == DropSession(s, x)
             waited == TimedOut(released, x)
             told == IF c.responseExpected THEN waited ELSE released
             t == OnSessionReleased(s, x)
  <1>1. t = CASE c.closed -> ClearRetransTable(released, x)
              [] ~c.closed /\ c.willSend -> DoClose(released, x, yes)
              [] OTHER -> Abort(told, x)
    BY DEF OnSessionReleased, DropSession, NotifyResponseTimeout, TimedOut
  <1>2. yes \in BOOLEAN
    OBVIOUS
  <1>3. t \in {ClearRetransTable(released, x), DoClose(released, x, yes), Abort(told, x)}
    <2> HIDE DEF t, told, released, yes
    <2>1. CASE c.closed
      BY <1>1, <2>1
    <2>2. CASE ~c.closed /\ c.willSend
      BY <1>1, <2>2
    <2>3. CASE ~c.closed /\ ~c.willSend
      BY <1>1, <2>3
    <2> QED
      BY <2>1, <2>2, <2>3
  <1> HIDE DEF yes, t, c
  <1>4. Faithful(s, released, G)
    BY <1>2, FaithfulFlags
  <1> HIDE DEF released
  <1>5. Faithful(released, waited, G)
    BY <1>4, TimeoutFaithful DEF Faithful
  <1> HIDE DEF waited
  <1>6. Faithful(released, told, G)
    BY <1>4, <1>5, FaithfulRefl DEF Faithful
  <1> HIDE DEF told
  <1>7. /\ Faithful(released, ClearRetransTable(released, x), G)
        /\ Faithful(released, DoClose(released, x, yes), G)
    BY <1>2, <1>4, FaithfulFlags, ClosingFaithful DEF Faithful
  <1>8. Faithful(told, Abort(told, x), G)
    BY <1>2, <1>6, ClosingFaithful DEF Faithful
  <1> QED
    BY <1>3, <1>4, <1>6, <1>7, <1>8, FaithfulTrans DEF t

\* Nor does an eviction of the session.
LEMMA MarkForEvictionFaithful ==
    ASSUME NEW s, NEW G, TruthfulNode(s, G), NEW ignoring
    PROVE  Faithful(s, MarkForEviction(s, ignoring), G)
  <1> DEFINE ec == [x \in Exchanges |->
                      IF s.ec[x].hasSession /\ x \notin ignoring
                        THEN OnSessionReleased(s, x).ec[x]
                        ELSE s.ec[x]]
             told == [s EXCEPT !.session = "PendingEviction", !.ec = ec]
             t == MarkForEviction(s, ignoring)
  <1>1. t \in {s, told}
    BY DEF MarkForEviction
  <1>2. ASSUME NEW x \in Exchanges
        PROVE  ec[x] \in Contexts /\ Truthful(ec[x], s.node, G)
    <2>1. ec[x] \in {s.ec[x], OnSessionReleased(s, x).ec[x]}
      OBVIOUS
    <2>2. Faithful(s, OnSessionReleased(s, x), G)
      BY OnSessionReleasedFaithful
    <2> HIDE DEF ec
    <2> QED
      BY <2>1, <2>2, TruthfulHas DEF Faithful
  <1>3. ec \in [Exchanges -> Contexts]
    <2>1. ec = [x \in Exchanges |-> ec[x]]
      OBVIOUS
    <2> HIDE DEF ec
    <2> QED
      BY <1>2, <2>1
  <1> HIDE DEF ec, t
  <1>4. /\ told \in NodeStates /\ told.node = s.node /\ told.acked = s.acked
        /\ told.ec = ec /\ told.sent = s.sent
    BY <1>3 DEF NodeStates, SessionStates, TruthfulNode
  <1> HIDE DEF told
  <1>5. Faithful(s, told, G)
    BY <1>2, <1>4 DEF Faithful, TruthfulNode
  <1> QED
    BY <1>1, <1>5, FaithfulRefl DEF t

\* A retransmission repeats what was said, or gives it up.
LEMMA RetransmitFaithful ==
    ASSUME NEW s, NEW G, TruthfulNode(s, G), NEW x \in Exchanges
    PROVE  Faithful(s, Retransmit(s, x), G)
  <1> DEFINE c == s.ec[x]
             d == [c EXCEPT !.sendCount = @ + 1]
             again == WithSend(s, x, d, s.tx, s.sent \cup c.entry, s.err)
             given == ClearRetransTable(s, x)
             t == Retransmit(s, x)
             yes == TRUE
  <1>1. /\ s \in NodeStates /\ c \in Contexts /\ Truthful(c, s.node, G)
        /\ \A m \in s.sent : m.ack \in G /\ m.from = s.node
        /\ yes \in BOOLEAN
    BY TruthfulHas DEF TruthfulNode
  <1>2. t \in {given, MarkAsDefunct(given), again}
    BY <1>1 DEF Retransmit, WithSend, NodeStates
  <1>3. /\ d \in Contexts /\ d.pendingPeerAck = c.pendingPeerAck /\ d.entry = c.entry
    <2> HIDE DEF c
    <2> QED
      BY <1>1 DEF Contexts
  <1>4. Faithful(s, again, G)
    <2> DEFINE sent == s.sent \cup c.entry
    <2>1. s.tx \in Counters /\ s.err \in {"None", "NonCritical", "Critical"}
      BY <1>1 DEF NodeStates
    <2>2. sent \in SUBSET Messages /\ \A m \in sent : m.ack \in G /\ m.from = s.node
      <3> HIDE DEF c
      <3> QED
        BY <1>1 DEF NodeStates, Contexts, Truthful
    <2> HIDE DEF c, d
    <2>3. Truthful(d, s.node, G)
      BY <1>1, <1>3, TruthfulKeeps
    <2> HIDE DEF sent
    <2>4. Faithful(s, WithSend(s, x, d, s.tx, sent, s.err), G)
      BY <1>3, <2>1, <2>2, <2>3, FaithfulSend
    <2> QED
      BY <2>4 DEF sent
  <1> HIDE DEF t, again, yes
  <1>5. Faithful(s, given, G)
    BY <1>1, FaithfulFlags
  <1> HIDE DEF given
  <1>6. Faithful(given, MarkAsDefunct(given), G)
    BY <1>5, FaithfulMarks DEF Faithful
  <1>7. Faithful(s, MarkAsDefunct(given), G)
    BY <1>5, <1>6, FaithfulTrans
  <1> QED
    BY <1>2, <1>4, <1>5, <1>7 DEF t

\* A message that wants an ack makes its own counter, and no other, one to
\* acknowledge.
LEMMA HandleNeedsAckFaithful ==
    ASSUME NEW s, NEW G, TruthfulNode(s, G), NEW x \in Exchanges, NEW k \in Counters,
           k \in G, NEW dup \in BOOLEAN
    PROVE  Faithful(s, HandleNeedsAck(s, x, k, dup), G)
  <1> DEFINE c == s.ec[x]
             pending == SetPendingPeerAckMessageCounter(s, x, k)
             forced == SendStandaloneAckMessage(pending, x)
             flushed == FlushAcks(s, x)
             old == IF c.ackValid THEN c.pendingPeerAck ELSE forced.ec[x].pendingPeerAck
             t1 == SetPendingPeerAckMessageCounter(forced, x, c.pendingPeerAck)
             t2 == PutBack(forced, x, old)
             t3 == SetPendingPeerAckMessageCounter(flushed, x, k)
             t == HandleNeedsAck(s, x, k, dup)
  <1>1. t = CASE dup /\ c.ackPending /\ c.pendingPeerAck # k -> t1
              [] dup /\ ~(c.ackPending /\ c.pendingPeerAck # k) -> t2
              [] ~dup /\ flushed.err = "Critical" -> flushed
              [] OTHER -> t3
    BY DEF HandleNeedsAck, PutBack
  <1>2. t \in {t1, t2, flushed, t3}
    <2> HIDE DEF t, t1, t2, t3, flushed, c
    <2>1. CASE dup /\ c.ackPending /\ c.pendingPeerAck # k
      BY <1>1, <2>1
    <2>2. CASE dup /\ ~(c.ackPending /\ c.pendingPeerAck # k)
      BY <1>1, <2>2
    <2>3. CASE ~dup /\ flushed.err = "Critical"
      BY <1>1, <2>3
    <2>4. CASE ~dup /\ flushed.err # "Critical"
      BY <1>1, <2>4
    <2> QED
      BY <2>1, <2>2, <2>3, <2>4
  <1>3. c.pendingPeerAck \in Counters /\ c.pendingPeerAck \in G
    BY TruthfulHas DEF Truthful, Contexts
  <1> HIDE DEF t
  <1>4. Faithful(s, pending, G)
    BY FaithfulPending
  <1> HIDE DEF pending
  <1>5. Faithful(pending, forced, G)
    BY <1>4, AcksFaithful DEF Faithful
  <1>6. Faithful(s, forced, G) /\ TruthfulNode(forced, G)
    BY <1>4, <1>5, FaithfulTrans DEF Faithful
  <1>7. Faithful(s, flushed, G) /\ TruthfulNode(flushed, G)
    BY AcksFaithful DEF Faithful
  <1> HIDE DEF forced, flushed
  <1>8. old \in Counters /\ old \in G
    BY <1>3, <1>6, TruthfulHas DEF Truthful, Contexts
  <1> HIDE DEF old, c
  <1>9. Faithful(forced, t1, G) /\ Faithful(forced, t2, G)
    BY <1>3, <1>6, <1>8, FaithfulPending
  <1>10. Faithful(flushed, t3, G)
    BY <1>7, FaithfulPending
  <1> HIDE DEF t1, t2, t3
  <1> QED
    BY <1>2, <1>6, <1>7, <1>9, <1>10, FaithfulTrans DEF t

\* A handler that takes in the acks in A, and none besides.
TakesAcks(s, t, G, A) ==
    /\ TruthfulNode(t, G)
    /\ t.node = s.node
    /\ t.acked \subseteq s.acked \cup A

\* Faithful work before and after takes in no ack.
LEMMA TakesAcksTrans ==
    ASSUME NEW s, NEW t, NEW u, NEW G, NEW A
    PROVE  /\ TakesAcks(s, t, G, A) /\ Faithful(t, u, G) => TakesAcks(s, u, G, A)
           /\ Faithful(s, t, G) /\ TakesAcks(t, u, G, A) => TakesAcks(s, u, G, A)
           /\ Faithful(s, t, G) => TakesAcks(s, t, G, A)
  BY DEF TakesAcks, Faithful

\* An ack that comes in says nothing about what this node acknowledges.
LEMMA HandleRcvdAckTakes ==
    ASSUME NEW s, NEW G, TruthfulNode(s, G), NEW x \in Exchanges, NEW a \in Counters
    PROVE  TakesAcks(s, HandleRcvdAck(s, x, a), G, {a})
  <1> DEFINE seen == [s EXCEPT !.acked = @ \cup {a}]
             clear == ClearRetransTable(seen, x)
             t == HandleRcvdAck(s, x, a)
             yes == TRUE
  <1>1. t \in {seen, AckSeen(clear, x)} /\ yes \in BOOLEAN
    BY DEF HandleRcvdAck, AckSeen
  <1> HIDE DEF t, yes
  <1>2. /\ seen \in NodeStates /\ seen.node = s.node /\ seen.ec = s.ec
        /\ seen.sent = s.sent /\ seen.acked = s.acked \cup {a}
    BY DEF TruthfulNode, NodeStates
  <1> HIDE DEF seen
  <1>3. TruthfulNode(seen, G) /\ TakesAcks(s, seen, G, {a})
    BY <1>2 DEF TruthfulNode, TakesAcks
  <1>4. Faithful(seen, clear, G)
    BY <1>1, <1>3, FaithfulFlags
  <1> HIDE DEF clear
  <1>5. Faithful(clear, AckSeen(clear, x), G)
    BY <1>1, <1>4, FaithfulFlags DEF Faithful
  <1>6. Faithful(seen, AckSeen(clear, x), G)
    BY <1>4, <1>5, FaithfulTrans
  <1> QED
    BY <1>1, <1>3, <1>6, TakesAcksTrans DEF t

\* Whatever the application does about a message acknowledges nothing new.
LEMMA OnMessageReceivedFaithful ==
    ASSUME NEW s, NEW G, TruthfulNode(s, G), NEW x \in Exchanges, NEW k \in Counters,
           NEW reaction \in Reactions
    PROVE  Faithful(s, OnMessageReceived(s, x, k, reaction), G)
  <1> DEFINE got == [s EXCEPT !.delivered[k] = @ + 1]
             yes == TRUE
             t == OnMessageReceived(s, x, k, reaction)
  <1>1. /\ got \in NodeStates /\ got.node = s.node /\ got.ec = s.ec
        /\ got.sent = s.sent /\ got.acked = s.acked
    BY DEF NodeStates, TruthfulNode
  <1>2. t = CASE reaction.kind = "WillSendMessage" -> SetWillSend(got, x, yes)
              [] reaction.kind = "SendMessage" -> SendMessage(got, x, reaction.flags)
              [] OTHER -> got
    BY DEF OnMessageReceived, SetWillSend
  <1>3. yes \in BOOLEAN /\ reaction.flags \in SendFlags
    BY DEF Reactions
  <1> HIDE DEF got, yes, t
  <1>4. t \in {SetWillSend(got, x, yes), SendMessage(got, x, reaction.flags), got}
    <2>1. CASE reaction.kind = "WillSendMessage"
      BY <1>2, <2>1
    <2>2. CASE reaction.kind = "SendMessage"
      BY <1>2, <2>2
    <2>3. CASE reaction.kind \notin {"WillSendMessage", "SendMessage"}
      BY <1>2, <2>3
    <2> QED
      BY <2>1, <2>2, <2>3
  <1>5. Faithful(s, got, G) /\ TruthfulNode(got, G)
    BY <1>1 DEF TruthfulNode, Faithful
  <1>6. /\ Faithful(got, SetWillSend(got, x, yes), G)
        /\ Faithful(got, SendMessage(got, x, reaction.flags), G)
    BY <1>3, <1>5, FaithfulFlags, SendMessageFaithful
  <1> QED
    BY <1>4, <1>5, <1>6, FaithfulTrans DEF t

\* HandleMessage makes the counter of the message one to acknowledge and takes in
\* the ack the message carries.
LEMMA HandleMessageTakes ==
    ASSUME NEW s, NEW G, TruthfulNode(s, G), NEW x \in Exchanges, NEW m \in Messages,
           m.ctr \in G, NEW dup \in BOOLEAN, NEW reaction \in Reactions
    PROVE  TakesAcks(s, HandleMessage(s, x, m, dup, reaction), G, {m.ack} \ {0})
  <1> DEFINE no == FALSE
             A == {m.ack} \ {0}
             s1 == IF ~dup /\ m.ack # 0 THEN HandleRcvdAck(s, x, m.ack) ELSE s
             s2 == IF m.needsAck THEN HandleNeedsAck(s1, x, m.ctr, dup) ELSE s1
             s3 == IF s2.ec[x].closed THEN FlushAcks(s2, x) ELSE s2
             s4 == SetResponseExpected(s3, x, no)
             refused == [s3 EXCEPT !.dropped = @ \cup {m.ctr}]
             got == OnMessageReceived(s4, x, m.ctr, reaction)
             t == HandleMessage(s, x, m, dup, reaction)
  <1>1. t \in {s3, MessageHandled(refused, x), s4, MessageHandled(got, x)}
    BY DEF HandleMessage
  <1>2. no \in BOOLEAN /\ m.ack \in Counters /\ m.ctr \in Counters
    BY DEF Messages
  <1> HIDE DEF t, no
  <1>3. TakesAcks(s, s1, G, A)
    <2>1. CASE ~dup /\ m.ack # 0
      <3>1. s1 = HandleRcvdAck(s, x, m.ack) /\ A = {m.ack}
        BY <2>1
      <3> HIDE DEF s1, A
      <3> QED
        BY <1>2, <3>1, HandleRcvdAckTakes
    <2>2. CASE ~(~dup /\ m.ack # 0)
      <3>1. s1 = s
        BY <2>2
      <3> HIDE DEF s1, A
      <3> QED
        BY <3>1, FaithfulRefl, TakesAcksTrans
    <2> QED
      BY <2>1, <2>2
  <1> HIDE DEF s1, A
  <1>4. Faithful(s1, s2, G)
    <2>1. TruthfulNode(s1, G)
      BY <1>3 DEF TakesAcks
    <2> QED
      BY <1>2, <2>1, HandleNeedsAckFaithful, FaithfulRefl
  <1> HIDE DEF s2
  <1>5. Faithful(s2, s3, G)
    <2>1. TruthfulNode(s2, G)
      BY <1>4 DEF Faithful
    <2> QED
      BY <2>1, AcksFaithful, FaithfulRefl
  <1> HIDE DEF s3
  <1>6. TakesAcks(s, s3, G, A) /\ TruthfulNode(s3, G)
    BY <1>3, <1>4, <1>5, TakesAcksTrans DEF TakesAcks
  <1>7. Faithful(s3, s4, G) /\ TruthfulNode(s4, G)
    BY <1>2, <1>6, FaithfulFlags DEF Faithful
  <1> HIDE DEF s4
  <1>8. Faithful(s3, refused, G) /\ TruthfulNode(refused, G)
    <2>1. /\ refused \in NodeStates /\ refused.node = s3.node /\ refused.ec = s3.ec
          /\ refused.sent = s3.sent /\ refused.acked = s3.acked
      BY <1>2, <1>6 DEF NodeStates, TruthfulNode
    <2> HIDE DEF refused
    <2> QED
      BY <1>6, <2>1 DEF TruthfulNode, Faithful
  <1> HIDE DEF refused
  <1>9. Faithful(s4, got, G) /\ TruthfulNode(got, G)
    BY <1>2, <1>7, OnMessageReceivedFaithful DEF Faithful
  <1> HIDE DEF got
  <1>10. /\ Faithful(refused, MessageHandled(refused, x), G)
         /\ Faithful(got, MessageHandled(got, x), G)
    BY <1>2, <1>8, <1>9, ClosingFaithful
  <1>11. /\ Faithful(s3, MessageHandled(refused, x), G)
         /\ Faithful(s3, MessageHandled(got, x), G)
    BY <1>7, <1>8, <1>9, <1>10, FaithfulTrans
  <1>12. TakesAcks(s, t, G, A)
    BY <1>1, <1>6, <1>7, <1>11, TakesAcksTrans
  <1> QED
    BY <1>12 DEF t, A

\* The ephemeral exchange acknowledges the message it was made for.
LEMMA SendStandaloneAckIfNeededFaithful ==
    ASSUME NEW s, NEW G, TruthfulNode(s, G), NEW m \in Messages, m.ctr \in G
    PROVE  Faithful(s, SendStandaloneAckIfNeeded(s, m), G)
  <1> DEFINE x == m.x
             no == FALSE
             new == NewContext(no)
             ephemeral == WithContext(s, x, new)
             pending == SetPendingPeerAckMessageCounter(ephemeral, x, m.ctr)
             sent == SendStandaloneAckMessage(pending, x)
             c == s.ec[x]
             t == SendStandaloneAckIfNeeded(s, m)
  <1>1. t \in {s, WithContext(sent, x, c)}
    BY DEF SendStandaloneAckIfNeeded, WithContext
  <1>2. x \in Exchanges /\ m.ctr \in Counters /\ no \in BOOLEAN
    BY DEF Messages
  <1>3. c \in Contexts /\ Truthful(c, s.node, G) /\ 0 \in G
    BY <1>2, TruthfulHas
  <1>4. new \in Contexts /\ Truthful(new, s.node, G)
    <2>1. new.pendingPeerAck = 0 /\ new.entry = {}
      BY DEF NewContext
    <2> QED
      BY <1>2, <1>3, <2>1, NewContextFacts DEF Truthful
  <1> HIDE DEF t, x, new, c, no
  <1>5. Faithful(s, ephemeral, G)
    BY <1>2, <1>4, FaithfulContext
  <1> HIDE DEF ephemeral
  <1>6. Faithful(ephemeral, pending, G)
    BY <1>2, <1>5, FaithfulPending DEF Faithful
  <1> HIDE DEF pending
  <1>7. Faithful(pending, sent, G)
    BY <1>2, <1>6, AcksFaithful DEF Faithful
  <1> HIDE DEF sent
  <1>8. Faithful(s, sent, G)
    BY <1>5, <1>6, <1>7, FaithfulTrans
  <1>9. Faithful(sent, WithContext(sent, x, c), G)
    <2>1. TruthfulNode(sent, G) /\ sent.node = s.node
      BY <1>8 DEF Faithful
    <2> QED
      BY <1>2, <1>3, <2>1, FaithfulContext
  <1> QED
    BY <1>1, <1>8, <1>9, FaithfulRefl, FaithfulTrans DEF t

\* So ExchangeManager::OnMessageReceived makes one counter one to acknowledge, that
\* of the message, and takes in one ack, the one the message carries.
LEMMA DispatchToExchangeTakes ==
    ASSUME NEW s, NEW G, TruthfulNode(s, G), NEW m \in Messages, m.ctr \in G,
           NEW dup \in BOOLEAN, NEW reaction \in Reactions
    PROVE  TakesAcks(s, DispatchToExchange(s, m, dup, reaction), G, {m.ack} \ {0})
  <1> DEFINE x == m.x
             no == FALSE
             new == NewContext(no)
             A == {m.ack} \ {0}
             created == WithContext(s, x, new)
             known == HandleMessage(s, x, m, dup, reaction)
             opened == HandleMessage(created, x, m, dup, reaction)
             refused == SendStandaloneAckIfNeeded(s, m)
             t == DispatchToExchange(s, m, dup, reaction)
  <1>1. t \in {known, s, opened, refused}
    BY DEF DispatchToExchange, WithContext
  <1>2. x \in Exchanges /\ no \in BOOLEAN
    BY DEF Messages
  <1>3. new \in Contexts /\ Truthful(new, s.node, G)
    <2>1. new.pendingPeerAck = 0 /\ new.entry = {}
      BY DEF NewContext
    <2> QED
      BY <1>2, <2>1, NewContextFacts DEF Truthful, TruthfulNode
  <1> HIDE DEF t, x, new, no
  <1>4. TakesAcks(s, known, G, A)
    BY <1>2, HandleMessageTakes
  <1>5. Faithful(s, created, G) /\ TruthfulNode(created, G)
    BY <1>2, <1>3, FaithfulContext DEF Faithful
  <1> HIDE DEF created
  <1>6. TakesAcks(created, opened, G, A)
    BY <1>2, <1>5, HandleMessageTakes
  <1>7. Faithful(s, refused, G)
    BY SendStandaloneAckIfNeededFaithful
  <1> HIDE DEF known, opened, refused, A
  <1>8. TakesAcks(s, t, G, A)
    BY <1>1, <1>4, <1>5, <1>6, <1>7, FaithfulRefl, TakesAcksTrans
  <1> QED
    BY <1>8 DEF t, A
-------------------------------------------------------------------------------
(* Whose turn it is to speak on an exchange.  K stands for the messages that *)
(* are on the network, E for the counters of which the peer awaits the ack.  *)

\* A context that gives nothing up but its table entry and its announcement.
Withdraws(c, d) ==
    /\ d.entry \subseteq c.entry
    /\ d.willSend => c.willSend
    /\ c.ackValid => d.ackValid /\ d.pendingPeerAck = c.pendingPeerAck

\* No message is refused, nothing sent is taken back, and a counter that is exhausted
\* stays so.
Calm(s, t) ==
    /\ t \in NodeStates
    /\ t.node = s.node
    /\ s.sent \subseteq t.sent
    /\ t.dropped = s.dropped
    /\ s.tx = MaxCounter => t.tx = MaxCounter

\* What may be sent out of turn: an ack, and what has been sent before.
OutOfTurn(m, S, K) ==
    m \in S \/ m \in K \/ (m.kind = "StandaloneAck" /\ ~m.needsAck)

\* An operation that does not speak, and one that may do anything but speak on x.
Silent(s, t, K) ==
    /\ Calm(s, t)
    /\ \A m \in t.sent : OutOfTurn(m, s.sent, K)
    /\ \A y \in Exchanges : Withdraws(s.ec[y], t.ec[y])
Beside(s, t, x, K) ==
    /\ Calm(s, t)
    /\ \A m \in t.sent : OutOfTurn(m, s.sent, K)
    /\ \A y \in Exchanges : y # x => Withdraws(s.ec[y], t.ec[y])

\* An operation that sends one application message on x, with the ack the peer awaits,
\* and waits for the ack of nothing else.
Speaks(s, t, x, K, E) ==
    /\ Calm(s, t)
    /\ \A y \in Exchanges : y # x => Withdraws(s.ec[y], t.ec[y])
    /\ \E m \in t.sent :
         /\ m.kind = "App" /\ m.from = s.node /\ m.x = x /\ m.ctr # 0
         /\ \A a \in E : m.ack = a
         /\ \A k \in t.sent : k = m \/ OutOfTurn(k, s.sent, K)
         /\ \A e \in t.ec[x].entry : e = m /\ e.needsAck

\* A context that will acknowledge what the peer awaits, should it ever send again.
Answers(c, tx, E) ==
    \A a \in E : (c.ackValid /\ c.pendingPeerAck = a) \/ tx = MaxCounter

\* A handler that takes the turn on x: it keeps it, drops it, or speaks.
TakesTurn(s, t, x, K, E) ==
    \/ /\ Beside(s, t, x, K)
       /\ t.ec[x].entry = {}
       /\ t.ec[x].willSend => Answers(t.ec[x], t.tx, E)
    \/ /\ Speaks(s, t, x, K, E)
       /\ ~t.ec[x].willSend

\* How such operations add up.
LEMMA SilentTrans ==
    ASSUME NEW s, NEW t, NEW u, NEW K, Silent(s, t, K), Silent(t, u, K)
    PROVE  Silent(s, u, K)
  BY DEF Silent, Calm, OutOfTurn, Withdraws

\* Doing nothing is silent.
LEMMA SilentRefl ==
    ASSUME NEW s \in NodeStates, NEW K
    PROVE  Silent(s, s, K)
  BY DEF Silent, Calm, OutOfTurn, Withdraws

\* What is silent is beside any exchange, and two operations beside x are one.
LEMMA BesideTrans ==
    ASSUME NEW s, NEW t, NEW u, NEW x, NEW K
    PROVE  /\ Silent(s, t, K) => Beside(s, t, x, K)
           /\ Beside(s, t, x, K) /\ Beside(t, u, x, K) => Beside(s, u, x, K)
  BY DEF Silent, Beside, Calm, OutOfTurn, Withdraws

\* Speaking stays speaking, with silence after it or with a step beside x before it.
LEMMA SpeaksTrans ==
    ASSUME NEW s, NEW t, NEW u, NEW x \in Exchanges, NEW K, NEW E
    PROVE  /\ Speaks(s, t, x, K, E) /\ Silent(t, u, K) => Speaks(s, u, x, K, E)
           /\ Beside(s, t, x, K) /\ Speaks(t, u, x, K, E) => Speaks(s, u, x, K, E)
  <1>1. ASSUME Speaks(s, t, x, K, E), Silent(t, u, K)
        PROVE  Speaks(s, u, x, K, E)
    BY <1>1 DEF Silent, Speaks, Calm, OutOfTurn, Withdraws
  <1>2. ASSUME Beside(s, t, x, K), Speaks(t, u, x, K, E)
        PROVE  Speaks(s, u, x, K, E)
    BY <1>2 DEF Beside, Speaks, Calm, OutOfTurn, Withdraws
  <1> QED
    BY <1>1, <1>2

\* So does taking the turn.
LEMMA TakesTurnTrans ==
    ASSUME NEW s, NEW t, NEW u, NEW x \in Exchanges, NEW K, NEW E
    PROVE  /\ TakesTurn(s, t, x, K, E) /\ Silent(t, u, K) => TakesTurn(s, u, x, K, E)
           /\ Beside(s, t, x, K) /\ TakesTurn(t, u, x, K, E) => TakesTurn(s, u, x, K, E)
  <1>1. ASSUME TakesTurn(s, t, x, K, E), Silent(t, u, K)
        PROVE  TakesTurn(s, u, x, K, E)
    <2>1. Withdraws(t.ec[x], u.ec[x]) /\ Beside(t, u, x, K) /\ (t.tx = MaxCounter => u.tx = MaxCounter)
      BY <1>1, BesideTrans DEF Silent, Calm
    <2>2. CASE Speaks(s, t, x, K, E) /\ ~t.ec[x].willSend
      BY <1>1, <2>1, <2>2, SpeaksTrans DEF TakesTurn, Withdraws
    <2>3. CASE Beside(s, t, x, K) /\ t.ec[x].entry = {}
               /\ (t.ec[x].willSend => Answers(t.ec[x], t.tx, E))
      BY <2>1, <2>3, BesideTrans DEF TakesTurn, Withdraws, Answers
    <2> QED
      BY <1>1, <2>2, <2>3 DEF TakesTurn
  <1>2. ASSUME Beside(s, t, x, K), TakesTurn(t, u, x, K, E)
        PROVE  TakesTurn(s, u, x, K, E)
    BY <1>2, SpeaksTrans, BesideTrans DEF TakesTurn
  <1> QED
    BY <1>1, <1>2

\* Replacing a context by one that withdraws is silent.
LEMMA SilentContext ==
    ASSUME NEW s \in NodeStates, NEW x \in Exchanges, NEW c \in Contexts, NEW K,
           Withdraws(s.ec[x], c)
    PROVE  Silent(s, WithContext(s, x, c), K)
  <1> DEFINE t == WithContext(s, x, c)
  <1>1. Local(s, t, x) /\ t.ec[x] = c /\ t.sent = s.sent /\ t.tx = s.tx
    BY UpdateContext
  <1>2. t.dropped = s.dropped
    BY DEF WithContext
  <1> HIDE DEF t
  <1>3. \A y \in Exchanges : Withdraws(s.ec[y], t.ec[y])
    BY <1>1 DEF Local, Withdraws
  <1> QED
    BY <1>1, <1>2, <1>3 DEF Silent, Calm, OutOfTurn, Local, t

\* Replacing the context of x by any other is beside x.
LEMMA BesideContext ==
    ASSUME NEW s \in NodeStates, NEW x \in Exchanges, NEW c \in Contexts, NEW K
    PROVE  Beside(s, WithContext(s, x, c), x, K)
  <1> DEFINE t == WithContext(s, x, c)
  <1>1. Local(s, t, x) /\ t.ec[x] = c /\ t.sent = s.sent /\ t.tx = s.tx
    BY UpdateContext
  <1>2. t.dropped = s.dropped
    BY DEF WithContext
  <1> HIDE DEF t
  <1>3. \A y \in Exchanges : y # x => Withdraws(s.ec[y], t.ec[y])
    BY <1>1 DEF Local, Withdraws
  <1> QED
    BY <1>1, <1>2, <1>3 DEF Beside, Calm, OutOfTurn, Local, t

\* What is left of a state after a send on x: its context, its counter, its messages.
LEMMA SendParts ==
    ASSUME NEW s \in NodeStates, NEW x \in Exchanges, NEW c \in Contexts,
           NEW tx \in Counters, NEW sent \in SUBSET Messages,
           NEW err \in {"None", "NonCritical", "Critical"},
           s.sent \subseteq sent, s.tx = MaxCounter => tx = MaxCounter
    PROVE  LET t == WithSend(s, x, c, tx, sent, err)
           IN /\ Calm(s, t) /\ t.ec[x] = c /\ t.sent = sent /\ t.err = err /\ t.tx = tx
              /\ \A y \in Exchanges : y # x => Withdraws(s.ec[y], t.ec[y])
  <1> DEFINE t == WithSend(s, x, c, tx, sent, err)
  <1>1. Local(s, t, x) /\ t.ec[x] = c /\ t.err = err
    BY UpdateNode
  <1>2. t.dropped = s.dropped /\ t.sent = sent /\ t.tx = tx
    BY DEF WithSend, NodeStates
  <1> HIDE DEF t
  <1>3. \A y \in Exchanges : y # x => Withdraws(s.ec[y], t.ec[y])
    BY <1>1 DEF Local, Withdraws
  <1> QED
    BY <1>1, <1>2, <1>3 DEF Calm, Local, t

\* The operations that set a flag or a count of the context, and the announcement that
\* is taken back, are silent.
LEMMA SilentFlags ==
    ASSUME NEW s \in NodeStates, NEW x \in Exchanges, NEW b \in BOOLEAN, NEW K
    PROVE  /\ Silent(s, SetResponseExpected(s, x, b), K)
           /\ Silent(s, AckSeen(s, x), K)
           /\ Silent(s, SetClosed(s, x), K)
           /\ Silent(s, DropSession(s, x), K)
           /\ Silent(s, ClearRetransTable(s, x), K)
           /\ Silent(s, Release(s, x), K)
           /\ Silent(s, SetWillSend(s, x, FALSE), K)
  <1> DEFINE c == s.ec[x]
             no == FALSE
             yes == TRUE
             d1 == [c EXCEPT !.responseExpected = b, !.waitingForResponseOrAck = b]
             d2 == [c EXCEPT !.waitingForResponseOrAck = no]
             d3 == [c EXCEPT !.closed = yes]
             d4 == [c EXCEPT !.hasSession = no]
             d5 == [c EXCEPT !.entry = {}]
             d6 == [c EXCEPT !.refs = @ - 1]
             d7 == [c EXCEPT !.willSend = no]
  <1>1. c \in Contexts
    BY DEF NodeStates
  <1>2. /\ SetResponseExpected(s, x, b) = WithContext(s, x, d1)
        /\ AckSeen(s, x) = WithContext(s, x, d2)
        /\ SetClosed(s, x) = WithContext(s, x, d3)
        /\ DropSession(s, x) = WithContext(s, x, d4)
        /\ ClearRetransTable(s, x) = WithContext(s, x, d5)
        /\ Release(s, x) = WithContext(s, x, d6)
        /\ SetWillSend(s, x, FALSE) = WithContext(s, x, d7)
    BY <1>1 DEF NodeStates, WithContext, SetResponseExpected, AckSeen, SetClosed, SetWillSend,
                DropSession, ClearRetransTable, Release
  <1>3. no \in BOOLEAN /\ yes \in BOOLEAN /\ ~no
    OBVIOUS
  <1> HIDE DEF c, no, yes
  <1>4. \A d \in {d1, d2, d3, d4, d5, d6, d7} :
           /\ d \in Contexts /\ d.ackValid = c.ackValid
           /\ d.pendingPeerAck = c.pendingPeerAck
           /\ d.entry \in {c.entry, {}} /\ d.willSend \in {c.willSend, no}
    <2>1. /\ d1 \in Contexts /\ d1.pendingPeerAck = c.pendingPeerAck /\ d1.entry = c.entry
          /\ d1.ackValid = c.ackValid /\ d1.willSend = c.willSend
      BY <1>1, <1>3 DEF Contexts
    <2>2. /\ d2 \in Contexts /\ d2.pendingPeerAck = c.pendingPeerAck /\ d2.entry = c.entry
          /\ d2.ackValid = c.ackValid /\ d2.willSend = c.willSend
      BY <1>1, <1>3 DEF Contexts
    <2>3. /\ d3 \in Contexts /\ d3.pendingPeerAck = c.pendingPeerAck /\ d3.entry = c.entry
          /\ d3.ackValid = c.ackValid /\ d3.willSend = c.willSend
      BY <1>1, <1>3 DEF Contexts
    <2>4. /\ d4 \in Contexts /\ d4.pendingPeerAck = c.pendingPeerAck /\ d4.entry = c.entry
          /\ d4.ackValid = c.ackValid /\ d4.willSend = c.willSend
      BY <1>1, <1>3 DEF Contexts
    <2>5. /\ d5 \in Contexts /\ d5.pendingPeerAck = c.pendingPeerAck /\ d5.entry = {}
          /\ d5.ackValid = c.ackValid /\ d5.willSend = c.willSend
      BY <1>1, <1>3 DEF Contexts
    <2>6. /\ d6 \in Contexts /\ d6.pendingPeerAck = c.pendingPeerAck /\ d6.entry = c.entry
          /\ d6.ackValid = c.ackValid /\ d6.willSend = c.willSend
      BY <1>1, <1>3 DEF Contexts
    <2>7. /\ d7 \in Contexts /\ d7.pendingPeerAck = c.pendingPeerAck /\ d7.entry = c.entry
          /\ d7.ackValid = c.ackValid /\ d7.willSend = no
      BY <1>1, <1>3 DEF Contexts
    <2> HIDE DEF d1, d2, d3, d4, d5, d6, d7
    <2> QED
      BY <2>1, <2>2, <2>3, <2>4, <2>5, <2>6, <2>7
  <1> HIDE DEF d1, d2, d3, d4, d5, d6, d7
  <1>5. \A d \in {d1, d2, d3, d4, d5, d6, d7} : Silent(s, WithContext(s, x, d), K)
    <2> SUFFICES ASSUME NEW d \in {d1, d2, d3, d4, d5, d6, d7}
                 PROVE  Silent(s, WithContext(s, x, d), K)
      OBVIOUS
    <2>1. d \in Contexts /\ Withdraws(c, d)
      BY <1>3, <1>4 DEF Withdraws
    <2> QED
      BY <2>1, SilentContext DEF c
  <1> QED
    BY <1>2, <1>5

\* Marking the session, setting the error, and the histories of acks and deliveries.
LEMMA SilentMarks ==
    ASSUME NEW s \in NodeStates, NEW K, NEW k \in Counters,
           NEW err \in {"None", "NonCritical", "Critical"}
    PROVE  /\ Silent(s, MarkAsDefunct(s), K)
           /\ Silent(s, MarkActiveRx(s), K)
           /\ Silent(s, [s EXCEPT !.err = err], K)
           /\ Silent(s, [s EXCEPT !.acked = @ \cup {k}], K)
           /\ Silent(s, [s EXCEPT !.delivered[k] = @ + 1], K)
  <1> DEFINE t1 == MarkAsDefunct(s)
             t2 == MarkActiveRx(s)
             t3 == [s EXCEPT !.err = err]
             t4 == [s EXCEPT !.acked = @ \cup {k}]
             t5 == [s EXCEPT !.delivered[k] = @ + 1]
  <1>1. \A t \in {t1, t2, t3, t4, t5} :
           /\ t \in NodeStates /\ t.node = s.node /\ t.dropped = s.dropped
           /\ t.ec = s.ec /\ t.sent = s.sent /\ t.tx = s.tx
    BY DEF MarkAsDefunct, MarkActiveRx, NodeStates, SessionStates
  <1> HIDE DEF t1, t2, t3, t4, t5
  <1>2. \A t \in {t1, t2, t3, t4, t5} : Silent(s, t, K)
    BY <1>1 DEF Silent, Calm, OutOfTurn, Withdraws
  <1> QED
    BY <1>2 DEF t1, t2, t3, t4, t5


\* DispatchMessage speaks only if it sends an application message, which then carries
\* the ack the context has; without a table entry only an exhausted counter is
\* critical.
LEMMA DispatchTurn ==
    ASSUME NEW s \in NodeStates, NEW x \in Exchanges, NEW K, NEW E,
           NEW kind \in {"App", "StandaloneAck"}, NEW reliable \in BOOLEAN
    PROVE  LET t == DispatchMessage(s, x, kind, reliable)
           IN /\ t.err # "None" => Silent(s, t, K)
              /\ t.err = "Critical" /\ ~reliable => s.tx = MaxCounter
              /\ kind = "StandaloneAck" /\ ~reliable => Silent(s, t, K)
              /\ /\ kind = "App" /\ t.err = "None"
                 /\ s.ec[x].entry = {} /\ Answers(s.ec[x], s.tx, E)
                 => Speaks(s, t, x, K, E)
  <1> DEFINE c == s.ec[x]
             p == c.ackPending /\ ~c.ackValid
             a == IF c.ackValid THEN c.pendingPeerAck ELSE 0
             msg == [from |-> s.node, x |-> x, kind |-> kind, ctr |-> s.tx + 1,
                     needsAck |-> reliable, ack |-> a]
             t == DispatchMessage(s, x, kind, reliable)
             taken == [c EXCEPT !.ackPending = p]
             kept == IF reliable THEN [taken EXCEPT !.entry = {msg}, !.sendCount = 0]
                                 ELSE taken
             refused == \/ reliable /\ (c.entry # {} \/ RetransTableFull(s))
                        \/ CounterExhausted(s)
  <1>1. /\ c \in Contexts /\ s.tx \in Counters /\ s.node \in Nodes
        /\ s.sent \in SUBSET Messages
    BY DEF NodeStates
  <1>2. /\ c.pendingPeerAck \in Counters /\ c.ackValid \in BOOLEAN /\ p \in BOOLEAN
        /\ Counters \subseteq Nat
    BY <1>1 DEF Contexts, Counters
  <1>3. ~CounterExhausted(s) => s.tx + 1 \in Counters /\ s.tx # MaxCounter
    BY <1>1, WindowAssumption DEF CounterExhausted, Counters
  <1>4. a \in Counters /\ (c.ackValid => a = c.pendingPeerAck)
    <2>1. 0 \in Counters
      BY WindowAssumption DEF Counters
    <2> QED
      BY <1>1, <1>2, <2>1
  <1>5. t = IF refused
              THEN [s EXCEPT !.ec[x] = taken, !.err = "Critical"]
              ELSE IF ~s.up
                THEN [s EXCEPT !.ec[x] = taken, !.err = "NonCritical", !.tx = @ + 1]
                ELSE [s EXCEPT !.ec[x] = kept, !.err = "None", !.tx = @ + 1,
                               !.sent = @ \cup {msg}]
    BY DEF DispatchMessage
  <1> HIDE DEF a
  <1>6. /\ ~CounterExhausted(s) => msg \in Messages
        /\ msg.ack = a /\ msg.from = s.node /\ msg.x = x /\ msg.kind = kind
        /\ msg.needsAck = reliable /\ msg.ctr = s.tx + 1
    BY <1>1, <1>3, <1>4 DEF Messages
  <1> HIDE DEF msg, t, p, refused
  <1>7. /\ taken \in Contexts /\ Withdraws(c, taken) /\ taken.entry = c.entry
    <2>1. /\ taken \in Contexts
          /\ taken.pendingPeerAck = c.pendingPeerAck /\ taken.entry = c.entry
          /\ taken.ackValid = c.ackValid /\ taken.willSend = c.willSend
      <3> HIDE DEF c
      <3> QED
        BY <1>1, <1>2 DEF Contexts
    <2> HIDE DEF taken
    <2> QED
      BY <2>1 DEF Withdraws
  <1> HIDE DEF taken
  <1>8. ASSUME NEW d \in Contexts, Withdraws(c, d), NEW tx \in Counters,
               NEW sent \in SUBSET Messages,
               NEW err \in {"None", "NonCritical", "Critical"}, s.sent \subseteq sent,
               s.tx = MaxCounter => tx = MaxCounter,
               \A m \in sent : OutOfTurn(m, s.sent, K)
        PROVE  Silent(s, WithSend(s, x, d, tx, sent, err), K)
               /\ WithSend(s, x, d, tx, sent, err).err = err
    <2> DEFINE u == WithSend(s, x, d, tx, sent, err)
    <2>1. /\ Calm(s, u) /\ u.ec[x] = d /\ u.sent = sent /\ u.err = err
          /\ \A y \in Exchanges : y # x => Withdraws(s.ec[y], u.ec[y])
      BY <1>8, SendParts
    <2> HIDE DEF u
    <2> QED
      BY <1>8, <2>1 DEF Silent, u, c
  <1>9. \A m \in s.sent : OutOfTurn(m, s.sent, K)
    BY DEF OutOfTurn
  <1>10. CASE refused
    <2>1. t = WithSend(s, x, taken, s.tx, s.sent, "Critical")
      BY <1>1, <1>5, <1>10 DEF NodeStates, WithSend
    <2>2. Silent(s, t, K) /\ t.err = "Critical"
      BY <1>1, <1>7, <1>8, <1>9, <2>1
    <2>3. ~reliable => s.tx = MaxCounter
      BY <1>10 DEF refused, CounterExhausted
    <2> QED
      BY <2>2, <2>3 DEF t
  <1>11. CASE ~refused /\ ~s.up
    <2>1. t = WithSend(s, x, taken, s.tx + 1, s.sent, "NonCritical")
      BY <1>1, <1>5, <1>11 DEF NodeStates, WithSend
    <2>2. s.tx + 1 \in Counters /\ s.tx # MaxCounter
      BY <1>3, <1>11 DEF refused
    <2>3. Silent(s, t, K) /\ t.err = "NonCritical"
      BY <1>1, <1>7, <1>8, <1>9, <2>1, <2>2
    <2> QED
      BY <2>3 DEF t
  <1>12. CASE ~refused /\ s.up
    <2> DEFINE sent == s.sent \cup {msg}
               tx == s.tx + 1
    <2>1. tx \in Counters /\ msg \in Messages /\ s.tx # MaxCounter /\ tx # 0
      <3>1. ~CounterExhausted(s)
        BY <1>12 DEF refused
      <3>2. s.tx \in Nat
        BY <1>1, <1>2
      <3>3. s.tx + 1 # 0
        BY <3>2
      <3> QED
        BY <1>3, <1>6, <3>1, <3>3
    <2>2. /\ kept \in Contexts
          /\ ~reliable => kept = taken
          /\ reliable => kept.entry = {msg}
      <3>1. CASE reliable
        BY <1>7, <2>1, <3>1 DEF Contexts
      <3>2. CASE ~reliable
        BY <1>7, <3>2
      <3> QED
        BY <3>1, <3>2
    <2>3. t = WithSend(s, x, kept, tx, sent, "None")
      <3> HIDE DEF kept
      <3> QED
        BY <1>1, <1>5, <1>12 DEF NodeStates, WithSend
    <2> HIDE DEF kept
    <2>4. sent \in SUBSET Messages /\ s.sent \subseteq sent /\ msg \in sent
      BY <1>1, <2>1
    <2>5. \A m \in sent : m = msg \/ OutOfTurn(m, s.sent, K)
      BY <1>9
    <2> HIDE DEF sent, tx
    <2>6. /\ Calm(s, t) /\ t.ec[x] = kept /\ t.sent = sent /\ t.err = "None"
          /\ \A y \in Exchanges : y # x => Withdraws(s.ec[y], t.ec[y])
      BY <2>1, <2>2, <2>3, <2>4, SendParts
    <2>7. ASSUME kind = "StandaloneAck", ~reliable
          PROVE  Silent(s, t, K)
      <3>1. OutOfTurn(msg, s.sent, K)
        BY <1>6, <2>7 DEF OutOfTurn
      <3>2. Withdraws(c, kept)
        BY <1>7, <2>2, <2>7
      <3> QED
        BY <2>5, <2>6, <3>1, <3>2 DEF Silent, c
    <2>8. ASSUME kind = "App", c.entry = {}, Answers(c, s.tx, E)
          PROVE  Speaks(s, t, x, K, E)
      <3>1. \A e \in kept.entry : e = msg /\ e.needsAck
        BY <1>6, <1>7, <2>2, <2>8
      <3>2. \A b \in E : msg.ack = b
        BY <1>4, <1>6, <2>1, <2>8 DEF Answers
      <3>3. msg.ctr # 0
        BY <1>6, <2>1 DEF tx
      <3> QED
        BY <1>6, <2>4, <2>5, <2>6, <2>8, <3>1, <3>2, <3>3 DEF Speaks
    <2> QED
      BY <2>6, <2>7, <2>8 DEF t, c
  <1> QED
    BY <1>10, <1>11, <1>12

\* The same for what an exchange with a session sends.
LEMMA SendOnExchangeTurn ==
    ASSUME NEW s \in NodeStates, NEW x \in Exchanges, NEW K, NEW E,
           NEW kind \in {"App", "StandaloneAck"}, NEW flags \in SendFlags
    PROVE  LET t == SendOnExchange(s, x, kind, flags)
           IN /\ t.err # "None" => Silent(s, t, K)
              /\ kind = "StandaloneAck" /\ flags.noAutoRequestAck => Silent(s, t, K)
              /\ /\ kind = "App" /\ t.err = "None"
                 /\ s.ec[x].entry = {} /\ Answers(s.ec[x], s.tx, E)
                 => Speaks(s, t, x, K, E)
              /\ /\ t.err = "Critical" /\ flags.noAutoRequestAck
                 /\ ~flags.expectResponse /\ s.ec[x].hasSession
                 => s.tx = MaxCounter
  <1> DEFINE yes == TRUE
             no == FALSE
             asked == IF flags.expectResponse THEN SetResponseExpected(s, x, yes) ELSE s
             reliable == ~flags.noAutoRequestAck
             done == DispatchMessage(asked, x, kind, reliable)
             unasked == IF flags.expectResponse THEN SetResponseExpected(done, x, no)
                                                ELSE done
             refused == \/ ~s.ec[x].hasSession
                        \/ flags.expectResponse /\ s.ec[x].responseExpected
             t == SendOnExchange(s, x, kind, flags)
  <1>1. t = IF refused
              THEN [s EXCEPT !.err = "Critical"]
              ELSE IF done.err # "None" THEN MarkAsDefunct(unasked) ELSE done
    BY DEF SendOnExchange
  <1>2. /\ reliable \in BOOLEAN /\ yes \in BOOLEAN /\ no \in BOOLEAN
        /\ flags.noAutoRequestAck = ~reliable
    BY DEF SendFlags
  <1> HIDE DEF t, yes, no, reliable
  <1>3. /\ Silent(s, asked, K) /\ asked \in NodeStates
        /\ asked.tx = s.tx /\ asked.ec[x].entry = s.ec[x].entry
        /\ asked.ec[x].entry = {} /\ Answers(s.ec[x], s.tx, E) =>
              Answers(asked.ec[x], asked.tx, E)
    <2>1. Silent(s, asked, K)
      BY <1>2, SilentFlags, SilentRefl
    <2>2. asked.tx = s.tx
      BY DEF SetResponseExpected
    <2>3. asked.ec[x].entry = s.ec[x].entry
      BY <1>2, SetResponseExpectedFacts
    <2> HIDE DEF asked
    <2> QED
      BY <2>1, <2>2, <2>3 DEF Silent, Calm, Withdraws, Answers
  <1> HIDE DEF asked
  <1>4. /\ done.err # "None" => Silent(asked, done, K)
        /\ done.err = "Critical" /\ ~reliable => s.tx = MaxCounter
        /\ kind = "StandaloneAck" /\ ~reliable => Silent(asked, done, K)
        /\ /\ kind = "App" /\ done.err = "None"
           /\ s.ec[x].entry = {} /\ Answers(s.ec[x], s.tx, E)
           => Speaks(asked, done, x, K, E)
    BY <1>2, <1>3, DispatchTurn
  <1> HIDE DEF done
  <1>5. CASE refused
    <2>1. t = [s EXCEPT !.err = "Critical"]
      BY <1>1, <1>5
    <2>2. t.err = "Critical" /\ Silent(s, t, K)
      <3>1. 0 \in Counters
        BY WindowAssumption DEF Counters
      <3>2. t.err = "Critical"
        BY <2>1 DEF NodeStates
      <3> QED
        BY <2>1, <3>1, <3>2, SilentMarks
    <2> QED
      BY <1>5, <2>2 DEF t
  <1>6. CASE ~refused /\ done.err # "None"
    <2>1. t = MarkAsDefunct(unasked)
      BY <1>1, <1>6
    <2>2. Silent(asked, done, K) /\ done \in NodeStates
      BY <1>4, <1>6 DEF Silent, Calm
    <2>3. Silent(done, unasked, K) /\ unasked \in NodeStates
      <3>1. Silent(done, unasked, K)
        BY <1>2, <2>2, SilentFlags, SilentRefl
      <3> QED
        BY <3>1 DEF Silent, Calm
    <2>4. unasked.err = done.err
      BY <1>2, <2>2, SetResponseExpectedFacts
    <2> HIDE DEF unasked
    <2>5. Silent(unasked, t, K) /\ t.err = unasked.err
      <3>1. 0 \in Counters
        BY WindowAssumption DEF Counters
      <3> QED
        BY <2>1, <2>3, <3>1, SilentMarks, MarkFacts
    <2>6. Silent(s, t, K)
      BY <1>3, <2>2, <2>3, <2>5, SilentTrans
    <2> QED
      BY <1>2, <1>4, <1>6, <2>4, <2>5, <2>6 DEF t
  <1>7. CASE ~refused /\ done.err = "None"
    <2>1. t = done
      BY <1>1, <1>7
    <2>2. kind = "StandaloneAck" /\ ~reliable => Silent(s, t, K)
      BY <1>3, <1>4, <2>1, SilentTrans
    <2>3. Speaks(asked, done, x, K, E) => Speaks(s, t, x, K, E)
      BY <1>3, <2>1, BesideTrans, SpeaksTrans
    <2> QED
      BY <1>2, <1>4, <1>7, <2>1, <2>2, <2>3 DEF t
  <1> QED
    BY <1>5, <1>6, <1>7


\* What a silent operation leaves is a state of the node.
LEMMA SilentHas ==
    ASSUME NEW s, NEW t, NEW K, Silent(s, t, K)
    PROVE  t \in NodeStates
  BY DEF Silent, Calm

\* Standalone acks are silent, and only an exhausted counter stops one for good.
LEMMA AcksSilent ==
    ASSUME NEW s \in NodeStates, NEW x \in Exchanges, NEW K
    PROVE  /\ Silent(s, SendStandaloneAckMessage(s, x), K)
           /\ Silent(s, FlushAcks(s, x), K)
           /\ s.ec[x].hasSession /\ FlushAcks(s, x).err = "Critical" => s.tx = MaxCounter
  <1> DEFINE flags == [expectResponse |-> FALSE, noAutoRequestAck |-> TRUE]
             t == SendStandaloneAckMessage(s, x)
             quiet == [s EXCEPT !.err = "None"]
  <1>1. /\ t = SendOnExchange(s, x, "StandaloneAck", flags)
        /\ flags \in SendFlags /\ flags.noAutoRequestAck /\ ~flags.expectResponse
    BY DEF SendStandaloneAckMessage, SendFlags
  <1> HIDE DEF flags, t
  <1>2. Silent(s, t, K) /\ (s.ec[x].hasSession /\ t.err = "Critical" => s.tx = MaxCounter)
    BY <1>1, SendOnExchangeTurn
  <1>3. Silent(s, quiet, K) /\ quiet.err = "None"
    <2>1. 0 \in Counters
      BY WindowAssumption DEF Counters
    <2>2. quiet.err = "None"
      BY DEF NodeStates
    <2> QED
      BY <2>1, <2>2, SilentMarks
  <1>4. FlushAcks(s, x) \in {t, quiet}
    BY DEF FlushAcks, t
  <1> HIDE DEF quiet
  <1> QED
    BY <1>2, <1>3, <1>4 DEF t

\* Closing, aborting and the end of a message's handling are silent.
LEMMA ClosingSilent ==
    ASSUME NEW s \in NodeStates, NEW x \in Exchanges, NEW clear \in BOOLEAN, NEW K
    PROVE  /\ Silent(s, DoClose(s, x, clear), K)
           /\ Silent(s, Close(s, x), K)
           /\ Silent(s, Abort(s, x), K)
           /\ Silent(s, MessageHandled(s, x), K)
  <1>1. ASSUME NEW b \in BOOLEAN
        PROVE  Silent(s, DoClose(s, x, b), K)
    <2> DEFINE marked == SetClosed(s, x)
               flushed == FlushAcks(marked, x)
               cleared == ClearRetransTable(flushed, x)
    <2>1. DoClose(s, x, b) \in {s, cleared, flushed}
      BY DEF DoClose, SetClosed
    <2>2. Silent(s, marked, K) /\ marked \in NodeStates
      BY <1>1, SilentFlags, SilentHas
    <2> HIDE DEF marked
    <2>3. Silent(marked, flushed, K) /\ flushed \in NodeStates
      BY <2>2, AcksSilent, SilentHas
    <2> HIDE DEF flushed
    <2>4. Silent(flushed, cleared, K)
      BY <1>1, <2>3, SilentFlags
    <2> HIDE DEF cleared
    <2>5. Silent(s, flushed, K) /\ Silent(s, cleared, K)
      BY <2>2, <2>3, <2>4, SilentTrans
    <2> QED
      BY <2>1, <2>5, SilentRefl
  <1>2. ASSUME NEW b \in BOOLEAN
        PROVE  Silent(s, Release(DoClose(s, x, b), x), K)
    <2> DEFINE done == DoClose(s, x, b)
    <2>1. Silent(s, done, K) /\ done \in NodeStates
      BY <1>1, <1>2, SilentHas
    <2> HIDE DEF done
    <2>2. Silent(done, Release(done, x), K)
      BY <1>2, <2>1, SilentFlags
    <2>3. Silent(s, Release(done, x), K)
      BY <2>1, <2>2, SilentTrans
    <2> QED
      BY <2>3 DEF done
  <1>3. Silent(s, Close(s, x), K) /\ Silent(s, Abort(s, x), K)
    BY <1>2 DEF Close, Abort
  <1>4. Silent(s, MessageHandled(s, x), K)
    BY <1>3, SilentRefl DEF MessageHandled
  <1> QED
    BY <1>1, <1>3, <1>4

\* Sending an application message takes the turn; if it fails, the announcement and the
\* ack stay for another try.
LEMMA SendMessageTurn ==
    ASSUME NEW s \in NodeStates, NEW x \in Exchanges, NEW flags \in SendFlags, NEW K, NEW E,
           s.ec[x].entry = {}, Answers(s.ec[x], s.tx, E)
    PROVE  TakesTurn(s, SendMessage(s, x, flags), x, K, E)
  <1> DEFINE done == SendOnExchange(s, x, "App", flags)
             no == FALSE
             spoken == SetWillSend(done, x, no)
             t == SendMessage(s, x, flags)
  <1>1. t = IF done.err # "None" THEN done ELSE MessageHandled(spoken, x)
    BY DEF SendMessage, SetWillSend
  <1>2. /\ done.err # "None" => Silent(s, done, K)
        /\ done.err = "None" => Speaks(s, done, x, K, E)
    BY SendOnExchangeTurn
  <1>3. no \in BOOLEAN /\ ~no
    OBVIOUS
  <1> HIDE DEF t, no, done
  <1>4. CASE done.err # "None"
    <2>1. t = done /\ Silent(s, t, K)
      BY <1>1, <1>2, <1>4
    <2>2. Beside(s, t, x, K) /\ t.ec[x].entry = {} /\ Answers(t.ec[x], t.tx, E)
      BY <2>1, BesideTrans DEF Silent, Calm, Withdraws, Answers
    <2> QED
      BY <2>2 DEF TakesTurn, t
  <1>5. CASE done.err = "None"
    <2>1. t = MessageHandled(spoken, x) /\ Speaks(s, done, x, K, E) /\ done \in NodeStates
      BY <1>1, <1>2, <1>5 DEF Speaks, Calm
    <2>2. Silent(done, spoken, K) /\ spoken \in NodeStates
      BY <1>3, <2>1, SilentFlags, SilentHas DEF no
    <2>3. ~spoken.ec[x].willSend
      BY <1>3, <2>1, SetWillSendFacts
    <2> HIDE DEF spoken
    <2>4. TakesTurn(s, spoken, x, K, E)
      BY <2>1, <2>2, <2>3, SpeaksTrans DEF TakesTurn
    <2>5. Silent(spoken, t, K)
      BY <1>3, <2>1, <2>2, ClosingSilent
    <2>6. TakesTurn(s, t, x, K, E)
      BY <2>4, <2>5, TakesTurnTrans
    <2> QED
      BY <2>6 DEF t
  <1> QED
    BY <1>4, <1>5

\* The response timer is silent.
LEMMA TimeoutSilent ==
    ASSUME NEW s \in NodeStates, NEW x \in Exchanges, NEW K
    PROVE  /\ Silent(s, TimedOut(s, x), K)
           /\ Silent(s, NotifyResponseTimeout(s, x, TRUE), K)
  <1> DEFINE no == FALSE
             quiet == SetResponseExpected(s, x, no)
             t == TimedOut(s, x)
  <1>1. t \in {quiet, MarkAsDefunct(quiet)} /\ no \in BOOLEAN
    BY DEF TimedOut
  <1>2. NotifyResponseTimeout(s, x, TRUE) = MessageHandled(t, x)
    BY DEF NotifyResponseTimeout, TimedOut
  <1>3. 0 \in Counters
    BY WindowAssumption DEF Counters
  <1> HIDE DEF t, no
  <1>4. Silent(s, quiet, K) /\ quiet \in NodeStates
    BY <1>1, SilentFlags, SilentHas
  <1> HIDE DEF quiet
  <1>5. Silent(quiet, MarkAsDefunct(quiet), K)
    BY <1>3, <1>4, SilentMarks
  <1>6. Silent(s, t, K) /\ t \in NodeStates
    BY <1>1, <1>4, <1>5, SilentTrans, SilentHas
  <1>7. Silent(t, MessageHandled(t, x), K)
    BY <1>1, <1>6, ClosingSilent
  <1> QED
    BY <1>2, <1>6, <1>7, SilentTrans DEF t

\* So is a context that loses its session.
LEMMA OnSessionReleasedSilent ==
    ASSUME NEW s \in NodeStates, NEW x \in Exchanges, NEW K
    PROVE  Silent(s, OnSessionReleased(s, x), K)
  <1> DEFINE c == s.ec[x]
             yes == TRUE
             released == DropSession(s, x)
             waited == TimedOut(released, x)
             told == IF c.responseExpected THEN waited ELSE released
             t == OnSessionReleased(s, x)
  <1>1. t = CASE c.closed -> ClearRetransTable(released, x)
              [] ~c.closed /\ c.willSend -> DoClose(released, x, yes)
              [] OTHER -> Abort(told, x)
    BY DEF OnSessionReleased, DropSession, NotifyResponseTimeout, TimedOut
  <1>2. yes \in BOOLEAN
    OBVIOUS
  <1>3. t \in {ClearRetransTable(released, x), DoClose(released, x, yes), Abort(told, x)}
    <2> HIDE DEF t, told, released, yes
    <2>1. CASE c.closed
      BY <1>1, <2>1
    <2>2. CASE ~c.closed /\ c.willSend
      BY <1>1, <2>2
    <2>3. CASE ~c.closed /\ ~c.willSend
      BY <1>1, <2>3
    <2> QED
      BY <2>1, <2>2, <2>3
  <1> HIDE DEF yes, t, c
  <1>4. Silent(s, released, K) /\ released \in NodeStates
    BY <1>2, SilentFlags, SilentHas
  <1> HIDE DEF released
  <1>5. Silent(released, waited, K)
    BY <1>4, TimeoutSilent
  <1> HIDE DEF waited
  <1>6. Silent(released, told, K) /\ told \in NodeStates
    BY <1>4, <1>5, SilentRefl, SilentHas
  <1> HIDE DEF told
  <1>7. /\ Silent(released, ClearRetransTable(released, x), K)
        /\ Silent(released, DoClose(released, x, yes), K)
    BY <1>2, <1>4, SilentFlags, ClosingSilent
  <1>8. Silent(told, Abort(told, x), K)
    BY <1>2, <1>6, ClosingSilent
  <1> QED
    BY <1>3, <1>4, <1>6, <1>7, <1>8, SilentTrans DEF t

\* So is an eviction of the session.
LEMMA MarkForEvictionSilent ==
    ASSUME NEW s \in NodeStates, NEW ignoring, NEW K
    PROVE  Silent(s, MarkForEviction(s, ignoring), K)
  <1> DEFINE ec == [x \in Exchanges |->
                      IF s.ec[x].hasSession /\ x \notin ignoring
                        THEN OnSessionReleased(s, x).ec[x]
                        ELSE s.ec[x]]
             told == [s EXCEPT !.session = "PendingEviction", !.ec = ec]
             t == MarkForEviction(s, ignoring)
  <1>1. t \in {s, told}
    BY DEF MarkForEviction
  <1>2. ASSUME NEW x \in Exchanges
        PROVE  ec[x] \in Contexts /\ Withdraws(s.ec[x], ec[x])
    <2>1. ec[x] \in {s.ec[x], OnSessionReleased(s, x).ec[x]}
      OBVIOUS
    <2>2. Silent(s, OnSessionReleased(s, x), K)
      BY OnSessionReleasedSilent
    <2>3. OnSessionReleased(s, x) \in NodeStates
      BY <2>2, SilentHas
    <2>4. s.ec[x] \in Contexts /\ OnSessionReleased(s, x).ec[x] \in Contexts
      BY <2>3 DEF NodeStates
    <2> HIDE DEF ec
    <2> QED
      BY <2>1, <2>2, <2>4 DEF Silent, Withdraws
  <1>3. ec \in [Exchanges -> Contexts]
    <2>1. ec = [x \in Exchanges |-> ec[x]]
      OBVIOUS
    <2> HIDE DEF ec
    <2> QED
      BY <1>2, <2>1
  <1> HIDE DEF ec, t
  <1>4. /\ told \in NodeStates /\ told.node = s.node /\ told.dropped = s.dropped
        /\ told.ec = ec /\ told.sent = s.sent /\ told.tx = s.tx
    BY <1>3 DEF NodeStates, SessionStates
  <1> HIDE DEF told
  <1>5. Silent(s, told, K)
    BY <1>2, <1>4 DEF Silent, Calm, OutOfTurn
  <1> QED
    BY <1>1, <1>5, SilentRefl DEF t

\* A retransmission repeats what is on the network, or gives it up.
LEMMA RetransmitSilent ==
    ASSUME NEW s \in NodeStates, NEW x \in Exchanges, NEW K, s.ec[x].entry \subseteq K
    PROVE  Silent(s, Retransmit(s, x), K)
  <1> DEFINE c == s.ec[x]
             d == [c EXCEPT !.sendCount = @ + 1]
             sent == s.sent \cup c.entry
             again == WithSend(s, x, d, s.tx, sent, s.err)
             given == ClearRetransTable(s, x)
             t == Retransmit(s, x)
             yes == TRUE
  <1>1. c \in Contexts /\ yes \in BOOLEAN /\ 0 \in Counters
    BY WindowAssumption DEF NodeStates, Counters
  <1>2. t \in {given, MarkAsDefunct(given), again}
    BY <1>1 DEF Retransmit, WithSend, NodeStates
  <1>3. d \in Contexts /\ Withdraws(c, d)
    <2>1. /\ d \in Contexts /\ d.pendingPeerAck = c.pendingPeerAck /\ d.entry = c.entry
          /\ d.ackValid = c.ackValid /\ d.willSend = c.willSend
      <3> HIDE DEF c
      <3> QED
        BY <1>1 DEF Contexts
    <2> HIDE DEF c, d
    <2> QED
      BY <2>1 DEF Withdraws
  <1>4. Silent(s, again, K)
    <2>1. s.tx \in Counters /\ s.err \in {"None", "NonCritical", "Critical"}
      BY <1>1 DEF NodeStates
    <2>2. /\ sent \in SUBSET Messages /\ s.sent \subseteq sent
          /\ \A m \in sent : OutOfTurn(m, s.sent, K)
      <3>1. c.entry \subseteq Messages
        <4> HIDE DEF c
        <4> QED
          BY <1>1 DEF Contexts
      <3>2. s.sent \subseteq Messages
        BY DEF NodeStates
      <3> QED
        BY <3>1, <3>2 DEF OutOfTurn
    <2> HIDE DEF d, sent
    <2>3. /\ Calm(s, again) /\ again.ec[x] = d /\ again.sent = sent
          /\ \A y \in Exchanges : y # x => Withdraws(s.ec[y], again.ec[y])
      BY <1>3, <2>1, <2>2, SendParts
    <2> HIDE DEF again
    <2> QED
      BY <1>3, <2>2, <2>3 DEF Silent
  <1> HIDE DEF t, again, yes
  <1>5. Silent(s, given, K) /\ given \in NodeStates
    BY <1>1, SilentFlags, SilentHas
  <1> HIDE DEF given
  <1>6. Silent(given, MarkAsDefunct(given), K)
    BY <1>1, <1>5, SilentMarks
  <1>7. Silent(s, MarkAsDefunct(given), K)
    BY <1>5, <1>6, SilentTrans
  <1> QED
    BY <1>2, <1>4, <1>5, <1>7 DEF t


\* The ack of everything a context waits for leaves it without a table entry.
LEMMA HandleRcvdAckSilent ==
    ASSUME NEW s \in NodeStates, NEW x \in Exchanges, NEW a \in Counters, NEW K
    PROVE  LET t == HandleRcvdAck(s, x, a)
           IN /\ Silent(s, t, K)
              /\ (\A e \in s.ec[x].entry : e.ctr = a) => t.ec[x].entry = {}
  <1> DEFINE seen == [s EXCEPT !.acked = @ \cup {a}]
             clear == ClearRetransTable(seen, x)
             t == HandleRcvdAck(s, x, a)
             yes == TRUE
  <1>1. /\ t = IF \E m \in s.ec[x].entry : m.ctr = a THEN AckSeen(clear, x) ELSE seen
        /\ yes \in BOOLEAN
    BY DEF HandleRcvdAck, AckSeen
  <1> HIDE DEF t, yes
  <1>2. Silent(s, seen, K) /\ seen \in NodeStates
    BY SilentMarks, SilentHas
  <1>3. seen.ec = s.ec
    OBVIOUS
  <1> HIDE DEF seen
  <1>4. Silent(seen, clear, K) /\ clear \in NodeStates /\ clear.ec[x].entry = {}
    BY <1>1, <1>2, SilentFlags, SilentHas, ClearRetransTableFacts
  <1> HIDE DEF clear
  <1>5. Silent(clear, AckSeen(clear, x), K) /\ AckSeen(clear, x).ec[x].entry = {}
    BY <1>1, <1>4, SilentFlags, AckSeenFacts
  <1>6. Silent(s, AckSeen(clear, x), K)
    BY <1>2, <1>4, <1>5, SilentTrans
  <1>7. CASE \E m \in s.ec[x].entry : m.ctr = a
    BY <1>1, <1>5, <1>6, <1>7 DEF t
  <1>8. CASE ~\E m \in s.ec[x].entry : m.ctr = a
    BY <1>1, <1>2, <1>3, <1>8 DEF t
  <1> QED
    BY <1>7, <1>8

\* Recording what is to be acknowledged, and putting it back.
LEMMA PendingTurn ==
    ASSUME NEW s \in NodeStates, NEW x \in Exchanges, NEW v \in Counters, NEW K
    PROVE  /\ LET t == SetPendingPeerAckMessageCounter(s, x, v)
              IN /\ Beside(s, t, x, K) /\ t \in NodeStates
                 /\ t.ec[x].ackValid /\ t.ec[x].pendingPeerAck = v
           /\ LET t == PutBack(s, x, v)
              IN /\ Beside(s, t, x, K) /\ t \in NodeStates
                 /\ t.ec[x].ackValid = s.ec[x].ackValid /\ t.ec[x].pendingPeerAck = v
  <1> DEFINE c == s.ec[x]
             yes == TRUE
             d == [c EXCEPT !.pendingPeerAck = v, !.ackPending = yes, !.ackValid = yes]
             e == [c EXCEPT !.pendingPeerAck = v]
  <1>1. /\ SetPendingPeerAckMessageCounter(s, x, v) = WithContext(s, x, d)
        /\ PutBack(s, x, v) = WithContext(s, x, e)
    BY DEF NodeStates, WithContext, SetPendingPeerAckMessageCounter, PutBack
  <1>2. c \in Contexts /\ yes \in BOOLEAN /\ yes
    BY DEF NodeStates
  <1> HIDE DEF c, yes
  <1>3. /\ d \in Contexts /\ d.ackValid = yes /\ d.pendingPeerAck = v
        /\ e \in Contexts /\ e.ackValid = c.ackValid /\ e.pendingPeerAck = v
    BY <1>2 DEF Contexts
  <1> HIDE DEF d, e
  <1>4. ASSUME NEW b \in Contexts
        PROVE  LET t == WithContext(s, x, b)
               IN Beside(s, t, x, K) /\ t \in NodeStates /\ t.ec[x] = b
    BY BesideContext, UpdateContext DEF Local
  <1> QED
    BY <1>1, <1>2, <1>3, <1>4 DEF c

\* A duplicate that wants an ack gets it, and what was to be acknowledged before is put
\* back; a new message becomes what is to be acknowledged, unless the counter is
\* exhausted and nothing can be sent any more.
LEMMA HandleNeedsAckTurn ==
    ASSUME NEW s \in NodeStates, NEW x \in Exchanges, NEW k \in Counters,
           NEW dup \in BOOLEAN, NEW K
    PROVE  LET t == HandleNeedsAck(s, x, k, dup)
           IN /\ dup => Silent(s, t, K)
              /\ ~dup /\ s.ec[x].hasSession =>
                   Beside(s, t, x, K) /\ Answers(t.ec[x], t.tx, {k})
  <1> DEFINE c == s.ec[x]
             pending == SetPendingPeerAckMessageCounter(s, x, k)
             forced == SendStandaloneAckMessage(pending, x)
             flushed == FlushAcks(s, x)
             old == IF c.ackValid THEN c.pendingPeerAck ELSE forced.ec[x].pendingPeerAck
             t == HandleNeedsAck(s, x, k, dup)
  <1>1. t = CASE dup /\ c.ackPending /\ c.pendingPeerAck # k ->
                   SetPendingPeerAckMessageCounter(forced, x, c.pendingPeerAck)
              [] dup /\ ~(c.ackPending /\ c.pendingPeerAck # k) -> PutBack(forced, x, old)
              [] ~dup /\ flushed.err = "Critical" -> flushed
              [] OTHER -> SetPendingPeerAckMessageCounter(flushed, x, k)
    BY DEF HandleNeedsAck, PutBack
  <1> HIDE DEF t
  <1>2. c.ackPending \in BOOLEAN /\ c.ackValid \in BOOLEAN /\ c.pendingPeerAck \in Counters
    BY DEF NodeStates, Contexts
  <1>3. ASSUME NEW u \in NodeStates, NEW v \in Counters
        PROVE  LET w == SetPendingPeerAckMessageCounter(u, x, v)
               IN /\ Beside(u, w, x, K) /\ w \in NodeStates
                  /\ w.ec[x].ackValid /\ w.ec[x].pendingPeerAck = v
    BY PendingTurn
  <1>4. ASSUME NEW u \in NodeStates, NEW v \in Counters
        PROVE  LET w == PutBack(u, x, v)
               IN /\ Beside(u, w, x, K) /\ w \in NodeStates
                  /\ w.ec[x].ackValid = u.ec[x].ackValid /\ w.ec[x].pendingPeerAck = v
    BY PendingTurn
  <1>5. /\ Beside(s, pending, x, K) /\ pending \in NodeStates
        /\ pending.ec[x].ackValid
    BY <1>3
  <1> HIDE DEF pending
  <1>6. /\ Silent(pending, forced, K) /\ forced \in NodeStates /\ forced.ec[x].ackValid
    BY <1>5, AcksSilent, SilentHas DEF Silent, Withdraws
  <1>7. Beside(s, forced, x, K)
    BY <1>5, <1>6, BesideTrans
  <1>8. /\ Silent(s, flushed, K) /\ flushed \in NodeStates
        /\ c.hasSession /\ flushed.err = "Critical" => flushed.tx = MaxCounter
    BY AcksSilent, SilentHas DEF Silent, Calm
  <1> HIDE DEF forced, flushed
  <1>9. old \in Counters /\ (c.ackValid => old = c.pendingPeerAck)
    BY <1>2, <1>6 DEF NodeStates, Contexts
  <1> HIDE DEF old
  <1>10. SameLife(c, t.ec[x])
    BY HandleNeedsAckQuiet DEF Quiet, t
  <1>11. ASSUME dup
         PROVE  /\ Beside(s, t, x, K)
                /\ c.ackValid => t.ec[x].ackValid /\ t.ec[x].pendingPeerAck = c.pendingPeerAck
    <2>1. CASE c.ackPending /\ c.pendingPeerAck # k
      <3>1. t = SetPendingPeerAckMessageCounter(forced, x, c.pendingPeerAck)
        BY <1>1, <1>11, <2>1
      <3> HIDE DEF c
      <3>2. /\ Beside(forced, t, x, K)
            /\ t.ec[x].ackValid /\ t.ec[x].pendingPeerAck = c.pendingPeerAck
        BY <1>2, <1>3, <1>6, <3>1
      <3> QED
        BY <1>7, <3>2, BesideTrans
    <2>2. CASE ~(c.ackPending /\ c.pendingPeerAck # k)
      <3>1. t = PutBack(forced, x, old)
        BY <1>1, <1>11, <2>2
      <3>2. /\ Beside(forced, t, x, K)
            /\ t.ec[x].ackValid = forced.ec[x].ackValid /\ t.ec[x].pendingPeerAck = old
        BY <1>4, <1>6, <1>9, <3>1
      <3> QED
        BY <1>6, <1>7, <1>9, <3>2, BesideTrans
    <2> QED
      BY <2>1, <2>2
  <1>12. dup => Silent(s, t, K)
    <2> SUFFICES ASSUME dup
                 PROVE  Silent(s, t, K)
      OBVIOUS
    <2>1. Withdraws(c, t.ec[x])
      BY <1>10, <1>11 DEF Withdraws, SameLife
    <2> QED
      BY <1>11, <2>1 DEF Beside, Silent, c
  <1>13. ASSUME ~dup, c.hasSession
         PROVE  Beside(s, t, x, K) /\ Answers(t.ec[x], t.tx, {k})
    <2>1. CASE flushed.err = "Critical"
      <3>1. t = flushed
        BY <1>1, <1>13, <2>1
      <3> QED
        BY <1>8, <1>13, <2>1, <3>1, BesideTrans DEF Answers
    <2>2. CASE flushed.err # "Critical"
      <3>1. t = SetPendingPeerAckMessageCounter(flushed, x, k)
        BY <1>1, <1>13, <2>2
      <3>2. /\ Beside(flushed, t, x, K)
            /\ t.ec[x].ackValid /\ t.ec[x].pendingPeerAck = k
        BY <1>3, <1>8, <3>1
      <3> QED
        BY <1>8, <3>2, BesideTrans DEF Answers
    <2> QED
      BY <2>1, <2>2
  <1> QED
    BY <1>12, <1>13 DEF t


\* Whoever is told about a message may announce an answer or give it.
LEMMA OnMessageReceivedTurn ==
    ASSUME NEW s \in NodeStates, NEW x \in Exchanges, NEW k \in Counters,
           NEW reaction \in Reactions, NEW K, NEW E,
           s.ec[x].entry = {}, ~s.ec[x].willSend, Answers(s.ec[x], s.tx, E)
    PROVE  TakesTurn(s, OnMessageReceived(s, x, k, reaction), x, K, E)
  <1> DEFINE got == [s EXCEPT !.delivered[k] = @ + 1]
             yes == TRUE
             d == [got.ec[x] EXCEPT !.willSend = yes]
             told == SetWillSend(got, x, yes)
             t == OnMessageReceived(s, x, k, reaction)
  <1>1. /\ Silent(s, got, K) /\ got \in NodeStates
    BY SilentMarks, SilentHas
  <1>2. got.ec = s.ec /\ got.tx = s.tx
    BY DEF NodeStates
  <1>3. t = CASE reaction.kind = "WillSendMessage" -> told
              [] reaction.kind = "SendMessage" -> SendMessage(got, x, reaction.flags)
              [] OTHER -> got
    BY DEF OnMessageReceived, SetWillSend
  <1>4. yes \in BOOLEAN /\ reaction.flags \in SendFlags
    BY DEF Reactions
  <1> HIDE DEF got, yes, t
  <1>5. Beside(s, got, x, K)
    BY <1>1, BesideTrans
  <1>6. CASE reaction.kind = "WillSendMessage"
    <2> DEFINE c == got.ec[x]
    <2>1. t = told /\ told = WithContext(got, x, d)
      BY <1>1, <1>3, <1>6 DEF SetWillSend, WithContext, NodeStates
    <2>2. c \in Contexts
      BY <1>1 DEF NodeStates
    <2>3. /\ d \in Contexts /\ d.entry = c.entry /\ d.ackValid = c.ackValid
          /\ d.pendingPeerAck = c.pendingPeerAck
      <3> HIDE DEF c
      <3>1. d = [c EXCEPT !.willSend = yes]
        BY DEF c
      <3> QED
        BY <1>4, <2>2, <3>1 DEF Contexts
    <2> HIDE DEF d, told
    <2>4. Beside(got, t, x, K) /\ t.ec[x] = d /\ t.tx = got.tx
      BY <1>1, <2>1, <2>3, BesideContext, UpdateContext
    <2>5. t.ec[x].entry = {} /\ Answers(t.ec[x], t.tx, E)
      BY <1>2, <2>3, <2>4 DEF Answers
    <2> QED
      BY <1>5, <2>4, <2>5, BesideTrans DEF TakesTurn, t
  <1>7. CASE reaction.kind = "SendMessage"
    <2>1. t = SendMessage(got, x, reaction.flags)
      BY <1>3, <1>7
    <2>2. TakesTurn(got, t, x, K, E)
      BY <1>1, <1>2, <1>4, <2>1, SendMessageTurn
    <2> QED
      BY <1>5, <2>2, TakesTurnTrans DEF t
  <1>8. CASE reaction.kind \notin {"WillSendMessage", "SendMessage"}
    <2>1. t = got
      BY <1>3, <1>8
    <2> QED
      BY <1>2, <1>5, <2>1 DEF TakesTurn, t
  <1> QED
    BY <1>6, <1>7, <1>8

\* A duplicate, and a standalone ack, leave everybody silent.
LEMMA HandleMessageSilent ==
    ASSUME NEW s \in NodeStates, NEW x \in Exchanges, NEW m \in Messages,
           NEW dup \in BOOLEAN, NEW reaction \in Reactions, NEW K,
           dup \/ (m.kind = "StandaloneAck" /\ ~m.needsAck)
    PROVE  Silent(s, HandleMessage(s, x, m, dup, reaction), K)
  <1> DEFINE s1 == IF ~dup /\ m.ack # 0 THEN HandleRcvdAck(s, x, m.ack) ELSE s
             s2 == IF m.needsAck THEN HandleNeedsAck(s1, x, m.ctr, dup) ELSE s1
             s3 == IF s2.ec[x].closed THEN FlushAcks(s2, x) ELSE s2
             t == HandleMessage(s, x, m, dup, reaction)
  <1>1. t = s3
    BY DEF HandleMessage
  <1>2. m.ack \in Counters /\ m.ctr \in Counters
    BY DEF Messages
  <1> HIDE DEF t
  <1>3. Silent(s, s1, K) /\ s1 \in NodeStates
    BY <1>2, HandleRcvdAckSilent, SilentRefl, SilentHas
  <1> HIDE DEF s1
  <1>4. Silent(s1, s2, K) /\ s2 \in NodeStates
    BY <1>2, <1>3, HandleNeedsAckTurn, SilentRefl, SilentHas
  <1> HIDE DEF s2
  <1>5. Silent(s2, s3, K)
    BY <1>4, AcksSilent, SilentRefl
  <1> HIDE DEF s3
  <1> QED
    BY <1>1, <1>3, <1>4, <1>5, SilentTrans DEF t

\* A new message that brings the awaited acks passes the turn to this node.
LEMMA HandleMessageTurn ==
    ASSUME NEW s \in NodeStates, NEW x \in Exchanges, NEW m \in Messages,
           NEW reaction \in Reactions, NEW K, NEW E,
           NEW dup, dup = FALSE, m.kind = "App", s.ec[x].hasSession, ~s.ec[x].willSend,
           \A e \in s.ec[x].entry : e.ctr = m.ack /\ m.ack # 0,
           E \subseteq {m.ctr}, E # {} => m.needsAck
    PROVE  TakesTurn(s, HandleMessage(s, x, m, dup, reaction), x, K, E)
  <1> DEFINE no == FALSE
             s1 == IF ~dup /\ m.ack # 0 THEN HandleRcvdAck(s, x, m.ack) ELSE s
             s2 == IF m.needsAck THEN HandleNeedsAck(s1, x, m.ctr, dup) ELSE s1
             s3 == IF s2.ec[x].closed THEN FlushAcks(s2, x) ELSE s2
             s4 == SetResponseExpected(s3, x, no)
             got == OnMessageReceived(s4, x, m.ctr, reaction)
             refused == [s3 EXCEPT !.dropped = @ \cup {m.ctr}]
             t == HandleMessage(s, x, m, dup, reaction)
  <1>1. t = IF \/ s2.ec[x].closed /\ s3.err = "Critical"
               \/ m.kind = "StandaloneAck"
               \/ dup
              THEN s3
              ELSE IF s3.ec[x].entry # {}
                THEN MessageHandled(refused, x)
                ELSE IF s4.ec[x].closed THEN s4 ELSE MessageHandled(got, x)
    BY DEF HandleMessage
  <1>2. /\ m.ack \in Counters /\ m.ctr \in Counters /\ m.needsAck \in BOOLEAN
        /\ no \in BOOLEAN /\ dup \in BOOLEAN /\ ~dup
    BY DEF Messages
  <1> HIDE DEF t, no
  <1>3. /\ Silent(s, s1, K) /\ s1 \in NodeStates /\ s1.ec[x].entry = {}
        /\ ~s1.ec[x].willSend /\ s1.ec[x].hasSession
    <2>1. CASE m.ack # 0
      <3>1. s1 = HandleRcvdAck(s, x, m.ack)
        BY <1>2, <2>1
      <3> HIDE DEF s1
      <3>2. Silent(s, s1, K) /\ s1.ec[x].entry = {}
        BY <1>2, <3>1, HandleRcvdAckSilent
      <3>3. Cleared(s.ec[x], s1.ec[x])
        BY <1>2, <3>1, HandleRcvdAckFacts
      <3> QED
        BY <3>2, <3>3, SilentHas DEF Cleared
    <2>2. CASE m.ack = 0
      <3>1. s1 = s
        BY <2>2
      <3> HIDE DEF s1
      <3> QED
        BY <2>2, <3>1, SilentRefl
    <2> QED
      BY <2>1, <2>2
  <1> HIDE DEF s1
  <1>4. /\ Beside(s1, s2, x, K) /\ s2 \in NodeStates /\ Answers(s2.ec[x], s2.tx, E)
        /\ SameLife(s1.ec[x], s2.ec[x])
    <2>1. CASE m.needsAck
      <3>1. s2 = HandleNeedsAck(s1, x, m.ctr, dup)
        BY <2>1
      <3> HIDE DEF s2
      <3>2. Beside(s1, s2, x, K) /\ Answers(s2.ec[x], s2.tx, {m.ctr})
        BY <1>2, <1>3, <3>1, HandleNeedsAckTurn
      <3>3. Quiet(s1, s2, x)
        BY <1>2, <1>3, <3>1, HandleNeedsAckQuiet
      <3> QED
        BY <3>2, <3>3 DEF Answers, Quiet, Local
    <2>2. CASE ~m.needsAck
      <3>1. s2 = s1 /\ E = {}
        BY <2>2
      <3> HIDE DEF s2
      <3> QED
        BY <1>3, <3>1, SilentRefl, BesideTrans DEF Answers, SameLife
    <2> QED
      BY <1>2, <2>1, <2>2
  <1> HIDE DEF s2
  <1>5. Silent(s2, s3, K) /\ s3 \in NodeStates
    BY <1>4, AcksSilent, SilentRefl, SilentHas
  <1> HIDE DEF s3
  <1>6. Silent(s3, s4, K) /\ s4 \in NodeStates
    BY <1>2, <1>5, SilentFlags, SilentHas
  <1> HIDE DEF s4
  <1>7. /\ Beside(s, s3, x, K) /\ s3.ec[x].entry = {} /\ ~s3.ec[x].willSend
        /\ Beside(s, s4, x, K) /\ s4.ec[x].entry = {} /\ ~s4.ec[x].willSend
        /\ Answers(s4.ec[x], s4.tx, E)
    <2>1. Beside(s, s2, x, K) /\ s2.ec[x].entry = {} /\ ~s2.ec[x].willSend
      BY <1>3, <1>4, BesideTrans DEF SameLife
    <2>2. Beside(s, s3, x, K) /\ Beside(s, s4, x, K)
      BY <1>5, <1>6, <2>1, BesideTrans
    <2>3. Silent(s2, s4, K)
      BY <1>5, <1>6, SilentTrans
    <2>4. /\ s3.ec[x].entry = {} /\ ~s3.ec[x].willSend
          /\ s4.ec[x].entry = {} /\ ~s4.ec[x].willSend
      BY <1>5, <2>1, <2>3 DEF Silent, Withdraws
    <2>5. Answers(s4.ec[x], s4.tx, E)
      BY <1>4, <2>3 DEF Silent, Calm, Withdraws, Answers
    <2> QED
      BY <2>2, <2>4, <2>5
  <1>8. TakesTurn(s4, got, x, K, E)
    BY <1>2, <1>6, <1>7, OnMessageReceivedTurn
  <1>9. got \in NodeStates
    BY <1>8 DEF TakesTurn, Beside, Speaks, Calm
  <1> HIDE DEF got, refused
  <1>10. Silent(got, MessageHandled(got, x), K)
    BY <1>2, <1>9, ClosingSilent
  <1>11. TakesTurn(s, MessageHandled(got, x), x, K, E)
    BY <1>7, <1>8, <1>10, TakesTurnTrans
  <1>12. TakesTurn(s, s3, x, K, E) /\ TakesTurn(s, s4, x, K, E)
    BY <1>7 DEF TakesTurn
  <1>13. t \in {s3, s4, MessageHandled(got, x)}
    BY <1>1, <1>7
  <1> QED
    BY <1>11, <1>12, <1>13 DEF t

\* The ephemeral exchange is silent.
LEMMA SendStandaloneAckIfNeededSilent ==
    ASSUME NEW s \in NodeStates, NEW m \in Messages, NEW K
    PROVE  Silent(s, SendStandaloneAckIfNeeded(s, m), K)
  <1> DEFINE x == m.x
             no == FALSE
             new == NewContext(no)
             ephemeral == WithContext(s, x, new)
             pending == SetPendingPeerAckMessageCounter(ephemeral, x, m.ctr)
             sent == SendStandaloneAckMessage(pending, x)
             c == s.ec[x]
             back == WithContext(sent, x, c)
             t == SendStandaloneAckIfNeeded(s, m)
  <1>1. t \in {s, back}
    BY DEF SendStandaloneAckIfNeeded, WithContext
  <1>2. x \in Exchanges /\ m.ctr \in Counters /\ no \in BOOLEAN
    BY DEF Messages
  <1>3. c \in Contexts /\ new \in Contexts
    BY <1>2, NewContextFacts DEF NodeStates
  <1> HIDE DEF t, x, new, no
  <1>4. Beside(s, ephemeral, x, K) /\ ephemeral \in NodeStates
    BY <1>2, <1>3, BesideContext, UpdateContext DEF Local
  <1> HIDE DEF ephemeral
  <1>5. Beside(ephemeral, pending, x, K) /\ pending \in NodeStates
    BY <1>2, <1>4, PendingTurn
  <1> HIDE DEF pending
  <1>6. Silent(pending, sent, K) /\ sent \in NodeStates
    BY <1>2, <1>5, AcksSilent, SilentHas
  <1> HIDE DEF sent
  <1>7. Beside(sent, back, x, K) /\ back.ec[x] = c
    BY <1>2, <1>3, <1>6, BesideContext, UpdateContext
  <1> HIDE DEF back
  <1>8. Beside(s, back, x, K)
    BY <1>4, <1>5, <1>6, <1>7, BesideTrans
  <1>9. Silent(s, back, K)
    BY <1>7, <1>8 DEF Beside, Silent, Withdraws, c
  <1> QED
    BY <1>1, <1>9, SilentRefl DEF t

\* ExchangeManager::OnMessageReceived is silent about a duplicate or a standalone ack,
\* and passes the turn on the exchange of a new application message.
LEMMA DispatchToExchangeTurn ==
    ASSUME NEW s \in NodeStates, Ready(s), NEW m \in Messages, NEW dup \in BOOLEAN,
           NEW reaction \in Reactions, NEW K, NEW E
    PROVE  LET t == DispatchToExchange(s, m, dup, reaction)
               c == s.ec[m.x]
           IN /\ dup \/ (m.kind = "StandaloneAck" /\ ~m.needsAck) => Silent(s, t, K)
              /\ /\ ~dup /\ m.kind = "App" /\ ~c.willSend
                 /\ \A e \in c.entry : e.ctr = m.ack /\ m.ack # 0
                 /\ E \subseteq {m.ctr} /\ (E # {} => m.needsAck)
                 => TakesTurn(s, t, m.x, K, E)
  <1> DEFINE x == m.x
             c == s.ec[x]
             no == FALSE
             new == NewContext(no)
             created == WithContext(s, x, new)
             known == HandleMessage(s, x, m, dup, reaction)
             opened == HandleMessage(created, x, m, dup, reaction)
             refused == SendStandaloneAckIfNeeded(s, m)
             t == DispatchToExchange(s, m, dup, reaction)
  <1>1. /\ c.hasSession => t = known
        /\ ~c.hasSession => t \in {s, opened, refused}
        /\ ~c.hasSession /\ (dup \/ m.kind # "App") => t \in {s, refused}
    BY DEF DispatchToExchange, WithContext
  <1>2. x \in Exchanges /\ no \in BOOLEAN
    BY DEF Messages
  <1>3. c.hasSession \in BOOLEAN /\ (~c.hasSession => c.entry = {})
    <2>1. c \in Contexts
      BY <1>2 DEF NodeStates
    <2>2. c.hasSession \in BOOLEAN
      <3> HIDE DEF c
      <3> QED
        BY <2>1 DEF Contexts
    <2> QED
      BY <1>2, <2>2, NoContextFacts DEF Ready, Settled, Sound
  <1>4. Silent(s, refused, K) /\ Silent(s, s, K)
    BY SendStandaloneAckIfNeededSilent, SilentRefl
  <1>5. /\ new \in Contexts /\ new.entry = {} /\ ~new.willSend /\ new.hasSession
    BY <1>2, NewContextFacts DEF NewContext
  <1> HIDE DEF t, x, new, no, refused
  <1>6. ASSUME dup \/ (m.kind = "StandaloneAck" /\ ~m.needsAck)
        PROVE  Silent(s, t, K)
    <2>1. CASE c.hasSession
      BY <1>1, <1>2, <1>6, <2>1, HandleMessageSilent
    <2>2. CASE ~c.hasSession
      <3>1. t \in {s, refused}
        BY <1>1, <1>6, <2>2
      <3> QED
        BY <1>4, <3>1
    <2> QED
      BY <1>3, <2>1, <2>2
  <1>7. ASSUME ~dup, m.kind = "App", ~c.willSend,
               \A e \in c.entry : e.ctr = m.ack /\ m.ack # 0,
               E \subseteq {m.ctr}, E # {} => m.needsAck
        PROVE  TakesTurn(s, t, x, K, E)
    <2>1. dup = FALSE
      BY <1>7
    <2>2. CASE c.hasSession
      <3>1. t = known
        BY <1>1, <2>2
      <3>2. TakesTurn(s, known, x, K, E)
        BY <1>2, <1>7, <2>1, <2>2, HandleMessageTurn
      <3> QED
        BY <3>1, <3>2
    <2>3. CASE ~c.hasSession
      <3>1. ASSUME NEW u, Silent(s, u, K)
            PROVE  TakesTurn(s, u, x, K, E)
        <4>1. Beside(s, u, x, K)
          BY <3>1, BesideTrans
        <4>2. u.ec[x].entry = {} /\ ~u.ec[x].willSend
          BY <1>2, <1>3, <1>7, <2>3, <3>1 DEF Silent, Withdraws
        <4> QED
          BY <4>1, <4>2 DEF TakesTurn
      <3>2. /\ Beside(s, created, x, K) /\ created \in NodeStates
            /\ created.ec[x] = new
        BY <1>2, <1>5, BesideContext, UpdateContext DEF Local
      <3> HIDE DEF created, c
      <3>3. TakesTurn(created, opened, x, K, E)
        <4>1. /\ created.ec[x].hasSession /\ ~created.ec[x].willSend
              /\ \A e \in created.ec[x].entry : e.ctr = m.ack /\ m.ack # 0
          BY <1>5, <3>2
        <4> QED
          BY <1>2, <1>7, <2>1, <3>2, <4>1, HandleMessageTurn
      <3> HIDE DEF opened
      <3>4. TakesTurn(s, opened, x, K, E)
        BY <1>2, <3>2, <3>3, TakesTurnTrans
      <3> QED
        BY <1>1, <1>4, <2>3, <3>1, <3>4
    <2> QED
      BY <1>3, <2>2, <2>3
  <1> QED
    BY <1>6, <1>7 DEF t, x
===============================================================================
