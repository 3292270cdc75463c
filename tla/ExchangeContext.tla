---------------------------- MODULE ExchangeContext ----------------------------
(***************************************************************************)
(* Exchanges and the Message Reliability Protocol (MRP) of one node:       *)
(* messaging/ExchangeContext, ReliableMessageContext, ReliableMessageMgr   *)
(* and ExchangeMessageDispatch, on one CASE session over UDP.              *)
(*                                                                         *)
(* Every method is an operator on the state `s' of its node, so that a     *)
(* handler is the composition of the calls it makes.  ReliableMessaging    *)
(* turns the handlers into actions of two nodes and a network.             *)
(***************************************************************************)
EXTENDS PeerMessageCounter, FiniteSets

CONSTANTS
    Nodes,               \* the two ends of the session
    Initiators,          \* the nodes whose application starts exchanges
    MaxExchanges,        \* bound: exchanges a node initiates
    MaxRetrans,          \* CHIP_CONFIG_RMP_DEFAULT_MAX_RETRANS
    RetransTableSize,    \* CHIP_CONFIG_RMP_RETRANS_TABLE_SIZE
    MaxExchangeContexts  \* CHIP_CONFIG_MAX_EXCHANGE_CONTEXTS

ASSUME ExchangeAssumption ==
    /\ Initiators \subseteq Nodes
    /\ MaxExchanges \in Nat
    /\ MaxRetrans \in Nat
    /\ RetransTableSize \in Nat
    /\ MaxExchangeContexts \in Nat

\* An exchange is known by its id and by the node that initiated it.
Exchanges == [initiator : Initiators, id : 1 .. MaxExchanges]

\* Counters start at 1: in `ack' and `pendingPeerAck' 0 stands for none.
Messages ==
    [from : Nodes, x : Exchanges, kind : {"App", "StandaloneAck"},
     ctr : Counters, needsAck : BOOLEAN, ack : Counters]

\* SendMessageFlags: kExpectResponse, kNoAutoRequestAck.
SendFlags == [expectResponse : BOOLEAN, noAutoRequestAck : BOOLEAN]
NoFlags == [expectResponse |-> FALSE, noAutoRequestAck |-> FALSE]

\* SecureSession::State, from the activation on.
SessionStates == {"Active", "Defunct", "PendingEviction"}

\* An ExchangeContext.  `refs' is the reference that Close() and Abort() release;
\* the entry in the retransmission table, which holds another reference and is
\* kFlagWaitingForAck, is `entry' with `sendCount'.  mDelegate is not null as long as
\* the context is not closed.
Contexts ==
    [live : BOOLEAN, refs : Int, closed : BOOLEAN, hasSession : BOOLEAN,
     willSend : BOOLEAN, responseExpected : BOOLEAN,
     waitingForResponseOrAck : BOOLEAN, ackPending : BOOLEAN, ackValid : BOOLEAN,
     pendingPeerAck : Counters, entry : SUBSET Messages, sendCount : Nat]

\* The constructor: an initiator has been created to send a message.
NewContext(willSend) ==
    [live |-> TRUE, refs |-> 1, closed |-> FALSE, hasSession |-> TRUE,
     willSend |-> willSend, responseExpected |-> FALSE,
     waitingForResponseOrAck |-> FALSE, ackPending |-> FALSE, ackValid |-> FALSE,
     pendingPeerAck |-> 0, entry |-> {}, sendCount |-> 0]

\* A free slot of the context pool.
NoContext ==
    [NewContext(FALSE) EXCEPT !.live = FALSE, !.refs = 0, !.closed = TRUE,
                              !.hasSession = FALSE]

\* The state of a node while one of its handlers runs.  `up': the network interface
\* takes messages; `sent': what the handler has sent; `err': what the last send
\* returned; `acked', `delivered', `dropped': histories of the own messages an ack
\* came in for, of how often the application got a message, and of the messages
\* refused because they lack the awaited ack.
NodeStates ==
    [node : Nodes, up : BOOLEAN, ec : [Exchanges -> Contexts], tx : Counters,
     session : SessionStates, sent : SUBSET Messages,
     err : {"None", "NonCritical", "Critical"},
     acked : SUBSET Counters, delivered : [Counters -> Nat],
     dropped : SUBSET Counters]

-------------------------------------------------------------------------------
\* Session and pools.
MarkAsDefunct(s) ==
    [s EXCEPT !.session = IF @ = "Active" THEN "Defunct" ELSE @]

MarkActiveRx(s) ==
    [s EXCEPT !.session = IF @ = "Defunct" THEN "Active" ELSE @]

RetransTableFull(s) ==
    Cardinality({x \in Exchanges : s.ec[x].entry # {}}) >= RetransTableSize

ContextPoolFull(s) ==
    Cardinality({x \in Exchanges : s.ec[x].live}) >= MaxExchangeContexts

\* A context is freed when its last reference goes.
ReleaseContexts(ec) ==
    [x \in Exchanges |->
        IF ec[x].refs = 0 /\ ec[x].entry = {} THEN NoContext ELSE ec[x]]

-------------------------------------------------------------------------------
\* Sending.
SetResponseExpected(s, x, expected) ==
    [s EXCEPT !.ec[x].responseExpected = expected,
              !.ec[x].waitingForResponseOrAck = expected]

\* LocalSessionMessageCounter::AdvanceAndConsume that runs over its end.
NeverExhausted(s) == FALSE

\* LocalSessionMessageCounter::AdvanceAndConsume refuses to roll over.
CounterExhausted(s) == s.tx = MaxCounter

\* ExchangeMessageDispatch::SendMessage.  The pending ack is taken before anything
\* can fail.  A message needs a slot of the retransmission table, a message counter
\* that is not exhausted and a transport that takes it; it keeps the slot only if all
\* of that succeeds.
DispatchMessage(s, x, kind, reliable) ==
    LET c == s.ec[x]
        msg == [from |-> s.node, x |-> x, kind |-> kind, ctr |-> s.tx + 1,
                needsAck |-> reliable,
                ack |-> IF c.ackValid THEN c.pendingPeerAck ELSE 0]
        taken == [c EXCEPT !.ackPending = @ /\ ~c.ackValid]
        kept == IF reliable THEN [taken EXCEPT !.entry = {msg}, !.sendCount = 0]
                            ELSE taken
    IN IF \/ reliable /\ (c.entry # {} \/ RetransTableFull(s))
          \/ CounterExhausted(s)
         THEN [s EXCEPT !.ec[x] = taken, !.err = "Critical"]
         ELSE IF ~s.up
           THEN [s EXCEPT !.ec[x] = taken, !.err = "NonCritical", !.tx = @ + 1]
           ELSE [s EXCEPT !.ec[x] = kept, !.err = "None", !.tx = @ + 1,
                          !.sent = @ \cup {msg}]

\* ExchangeContext::SendMessage up to the handling of its success.
SendOnExchange(s, x, kind, flags) ==
    LET asked == IF flags.expectResponse THEN SetResponseExpected(s, x, TRUE) ELSE s
        done == DispatchMessage(asked, x, kind, ~flags.noAutoRequestAck)
        unasked == IF flags.expectResponse THEN SetResponseExpected(done, x, FALSE)
                                           ELSE done
    IN IF \/ ~s.ec[x].hasSession
          \/ flags.expectResponse /\ s.ec[x].responseExpected
         THEN [s EXCEPT !.err = "Critical"]
         ELSE IF done.err # "None" THEN MarkAsDefunct(unasked) ELSE done

\* A standalone ack never asks for an ack and is no application-level message.
SendStandaloneAckMessage(s, x) ==
    SendOnExchange(s, x, "StandaloneAck",
                   [expectResponse |-> FALSE, noAutoRequestAck |-> TRUE])

FlushAcks(s, x) ==
    IF s.ec[x].ackPending THEN SendStandaloneAckMessage(s, x)
                          ELSE [s EXCEPT !.err = "None"]

-------------------------------------------------------------------------------
\* Closing.
ClearRetransTable(s, x) == [s EXCEPT !.ec[x].entry = {}]

DoClose(s, x, clearRetransTable) ==
    LET flushed == FlushAcks([s EXCEPT !.ec[x].closed = TRUE], x)
    IN IF s.ec[x].closed
         THEN s
         ELSE IF clearRetransTable THEN ClearRetransTable(flushed, x) ELSE flushed

Release(s, x) == [s EXCEPT !.ec[x].refs = @ - 1]

Close(s, x) == Release(DoClose(s, x, FALSE), x)

Abort(s, x) == Release(DoClose(s, x, TRUE), x)

\* MessageHandled that does not ask whether the exchange is closed.
MessageHandledAgain(s, x) ==
    IF s.ec[x].responseExpected \/ s.ec[x].willSend THEN s ELSE Close(s, x)

\* Close unless somebody still has something to do on the exchange.
MessageHandled(s, x) ==
    IF s.ec[x].closed \/ s.ec[x].responseExpected \/ s.ec[x].willSend
      THEN s
      ELSE Close(s, x)

\* ExchangeContext::SendMessage of an application message.
SendMessage(s, x, flags) ==
    LET done == SendOnExchange(s, x, "App", flags)
    IN IF done.err # "None"
         THEN done
         ELSE MessageHandled([done EXCEPT !.ec[x].willSend = FALSE], x)

\* NotifyResponseTimeout that leaves the exchange open.
NotifyResponseTimeoutOnly(s, x, closeIfNeeded) ==
    LET quiet == SetResponseExpected(s, x, FALSE)
    IN IF s.ec[x].hasSession /\ s.ec[x].waitingForResponseOrAck
         THEN MarkAsDefunct(quiet)
         ELSE quiet

\* The response timer, or the loss of the session, ends the wait for a response.
NotifyResponseTimeout(s, x, closeIfNeeded) ==
    LET gotMRPAck == ~s.ec[x].waitingForResponseOrAck
        quiet == SetResponseExpected(s, x, FALSE)
        marked == IF s.ec[x].hasSession /\ ~gotMRPAck THEN MarkAsDefunct(quiet)
                                                      ELSE quiet
    IN IF closeIfNeeded THEN MessageHandled(marked, x) ELSE marked

\* OnSessionReleased that forgets the retransmission entry of a closed exchange.
OnSessionReleasedKeepsEntry(s, x) ==
    LET c == s.ec[x]
        released == [s EXCEPT !.ec[x].hasSession = FALSE]
    IN CASE c.closed -> released
         [] ~c.closed /\ c.willSend -> DoClose(released, x, TRUE)
         [] OTHER -> Abort(NotifyResponseTimeout(released, x, FALSE), x)

\* OnSessionReleased that releases the context under a pending send.
OnSessionReleasedAborts(s, x) ==
    LET c == s.ec[x]
        released == [s EXCEPT !.ec[x].hasSession = FALSE]
    IN IF c.closed
         THEN ClearRetransTable(released, x)
         ELSE Abort(NotifyResponseTimeout(released, x, FALSE), x)

\* ExchangeContext::OnSessionReleased; the holder has already dropped the session.
OnSessionReleased(s, x) ==
    LET c == s.ec[x]
        released == [s EXCEPT !.ec[x].hasSession = FALSE]
    IN CASE c.closed -> ClearRetransTable(released, x)
         [] ~c.closed /\ c.willSend -> DoClose(released, x, TRUE)
         [] OTHER -> Abort(IF c.responseExpected
                             THEN NotifyResponseTimeout(released, x, FALSE)
                             ELSE released, x)

\* SecureSession::MarkForEviction: every context that holds the session, except
\* those in `ignoring', is told.  None of them can send any more, so the order in
\* which they are told does not matter.
MarkForEviction(s, ignoring) ==
    IF s.session = "PendingEviction"
      THEN s
      ELSE [s EXCEPT !.session = "PendingEviction",
                     !.ec = [x \in Exchanges |->
                               IF s.ec[x].hasSession /\ x \notin ignoring
                                 THEN OnSessionReleased(s, x).ec[x]
                                 ELSE s.ec[x]]]

-------------------------------------------------------------------------------
\* Receiving.
HandleRcvdAck(s, x, ackMessageCounter) ==
    LET seen == [s EXCEPT !.acked = @ \cup {ackMessageCounter}]
    IN IF \E m \in s.ec[x].entry : m.ctr = ackMessageCounter
         THEN [ClearRetransTable(seen, x) EXCEPT
                 !.ec[x].waitingForResponseOrAck = FALSE]
         ELSE seen

SetPendingPeerAckMessageCounter(s, x, counter) ==
    [s EXCEPT !.ec[x].pendingPeerAck = counter,
              !.ec[x].ackPending = TRUE,
              !.ec[x].ackValid = TRUE]

\* HandleNeedsAckInner that does not put back what was to be acknowledged.
HandleNeedsAckWithoutRestore(s, x, counter, isDuplicate) ==
    LET flushed == FlushAcks(s, x)
    IN CASE isDuplicate -> SendStandaloneAckMessage(
                             SetPendingPeerAckMessageCounter(s, x, counter), x)
         [] ~isDuplicate /\ flushed.err = "Critical" -> flushed
         [] OTHER -> SetPendingPeerAckMessageCounter(flushed, x, counter)

\* HandleNeedsAckInner.  A duplicate is acknowledged at once, and what was to be
\* acknowledged before it is put back.
HandleNeedsAck(s, x, counter, isDuplicate) ==
    LET c == s.ec[x]
        forced == SendStandaloneAckMessage(
                    SetPendingPeerAckMessageCounter(s, x, counter), x)
        flushed == FlushAcks(s, x)
    IN CASE isDuplicate /\ c.ackPending /\ c.pendingPeerAck # counter ->
              SetPendingPeerAckMessageCounter(forced, x, c.pendingPeerAck)
         [] isDuplicate /\ ~(c.ackPending /\ c.pendingPeerAck # counter) ->
              [forced EXCEPT !.ec[x].pendingPeerAck =
                               IF c.ackValid THEN c.pendingPeerAck ELSE @]
         [] ~isDuplicate /\ flushed.err = "Critical" -> flushed
         [] OTHER -> SetPendingPeerAckMessageCounter(flushed, x, counter)

\* What the application does about a message: refuse it if it is unsolicited, do
\* nothing, announce a later message, or answer at once with the given flags.
ReactionKinds == {"refuse", "none", "WillSendMessage", "SendMessage"}
Reactions == [kind : ReactionKinds, flags : SendFlags]

OnMessageReceived(s, x, counter, reaction) ==
    LET got == [s EXCEPT !.delivered[counter] = @ + 1]
    IN CASE reaction.kind = "WillSendMessage" -> [got EXCEPT !.ec[x].willSend = TRUE]
         [] reaction.kind = "SendMessage" -> SendMessage(got, x, reaction.flags)
         [] OTHER -> got

\* ExchangeContext::HandleMessage.
HandleMessage(s, x, m, isDuplicate, reaction) ==
    LET s1 == IF ~isDuplicate /\ m.ack # 0 THEN HandleRcvdAck(s, x, m.ack) ELSE s
        s2 == IF m.needsAck THEN HandleNeedsAck(s1, x, m.ctr, isDuplicate) ELSE s1
        s3 == IF s2.ec[x].closed THEN FlushAcks(s2, x) ELSE s2
        s4 == SetResponseExpected(s3, x, FALSE)
    IN IF \/ s2.ec[x].closed /\ s3.err = "Critical"
          \/ m.kind = "StandaloneAck"
          \/ isDuplicate
         THEN s3
         ELSE IF s3.ec[x].entry # {}
           THEN MessageHandled([s3 EXCEPT !.dropped = @ \cup {m.ctr}], x)
           ELSE IF s4.ec[x].closed
             THEN s4
             ELSE MessageHandled(OnMessageReceived(s4, x, m.ctr, reaction), x)

\* An ephemeral exchange lives for one standalone ack.
SendStandaloneAckIfNeeded(s, m) ==
    LET ephemeral == [s EXCEPT !.ec[m.x] = NewContext(FALSE)]
        sent == SendStandaloneAckMessage(
                  SetPendingPeerAckMessageCounter(ephemeral, m.x, m.ctr), m.x)
    IN IF ~m.needsAck \/ ContextPoolFull(s)
         THEN s
         ELSE [sent EXCEPT !.ec[m.x] = s.ec[m.x]]

\* ExchangeManager::OnMessageReceived.
DispatchToExchange(s, m, isDuplicate, reaction) ==
    LET unsolicited == /\ ~isDuplicate
                       /\ m.x.initiator = m.from
                       /\ m.kind = "App"
        created == [s EXCEPT !.ec[m.x] = NewContext(FALSE)]
    IN CASE s.ec[m.x].hasSession ->
              HandleMessage(s, m.x, m, isDuplicate, reaction)
         [] ~s.ec[m.x].hasSession /\ s.session # "Active" -> s
         [] OTHER ->
              IF unsolicited /\ reaction.kind # "refuse"
                THEN IF ContextPoolFull(s)
                       THEN s
                       ELSE HandleMessage(created, m.x, m, isDuplicate, reaction)
                ELSE SendStandaloneAckIfNeeded(s, m)

-------------------------------------------------------------------------------
\* ReliableMessageMgr::ExecuteActions for the entry of one exchange.
Retransmit(s, x) ==
    LET c == s.ec[x]
        given == ClearRetransTable(s, x)
    IN IF c.sendCount = MaxRetrans
         THEN IF c.responseExpected THEN given ELSE MarkAsDefunct(given)
         ELSE IF c.hasSession /\ s.up
           THEN [s EXCEPT !.sent = @ \cup c.entry, !.ec[x].sendCount = @ + 1]
           ELSE given
===============================================================================
