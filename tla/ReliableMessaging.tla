--------------------------- MODULE ReliableMessaging ---------------------------
(***************************************************************************)
(* Two nodes that exchange messages over one CASE session on UDP: the      *)
(* network loses, duplicates and reorders what is sent, timers fire at any *)
(* time, interfaces fail, sessions are evicted, and the applications send, *)
(* answer, wait and give up as they like.                                  *)
(***************************************************************************)
EXTENDS ExchangeContext

CONSTANTS
    AppFlags,      \* the SendFlags the applications use
    AppKinds,      \* the kinds of reaction to a message the applications show
    FlakyNodes,    \* the nodes whose network interface may go down
    EvictingNodes  \* the nodes that may evict the session

ASSUME ScenarioAssumption ==
    /\ AppFlags \subseteq SendFlags
    /\ AppKinds \subseteq ReactionKinds
    /\ FlakyNodes \subseteq Nodes
    /\ EvictingNodes \subseteq Nodes

\* A session has no third end.
ASSUME TwoEnds == \A n, p, q \in Nodes : p # n /\ q # n => p = q

VARIABLES
    ec,        \* ec[n][x]: the context pool with the retransmission table of node n
    nextId,    \* ExchangeManager::mNextExchangeId, counted from 1
    tx,        \* LocalSessionMessageCounter::mLastUsedValue
    rx,        \* PeerMessageCounter of the session
    session,   \* SecureSession::mState
    up,        \* the interface of the node takes messages
    net,       \* every message ever sent: what is not lost may arrive again
    received,  \* history: the counters that have arrived and were no duplicates
    acked,     \* history: the own counters an acknowledgment has come in for
    delivered, \* history: how often the application got the message of a counter
    dropped    \* history: counters refused for lack of a piggybacked ack

vars == <<ec, nextId, tx, rx, session, up, net, received, acked, delivered, dropped>>

TypeOK ==
    /\ ec \in [Nodes -> [Exchanges -> Contexts]]
    /\ nextId \in [Nodes -> 1 .. MaxExchanges + 1]
    /\ tx \in [Nodes -> Counters]
    /\ rx \in [Nodes -> PeerCounters]
    /\ session \in [Nodes -> SessionStates]
    /\ up \in [Nodes -> BOOLEAN]
    /\ net \subseteq Messages
    /\ received \in [Nodes -> SUBSET Counters]
    /\ acked \in [Nodes -> SUBSET Counters]
    /\ delivered \in [Nodes -> [Counters -> Nat]]
    /\ dropped \in [Nodes -> SUBSET Counters]

\* A session that has just been established.
Init ==
    /\ ec = [n \in Nodes |-> [x \in Exchanges |-> NoContext]]
    /\ nextId = [n \in Nodes |-> 1]
    /\ tx = [n \in Nodes |-> 0]
    /\ rx = [n \in Nodes |-> SetCounter(0)]
    /\ session = [n \in Nodes |-> "Active"]
    /\ up = [n \in Nodes |-> TRUE]
    /\ net = {}
    /\ received = [n \in Nodes |-> {}]
    /\ acked = [n \in Nodes |-> {}]
    /\ delivered = [n \in Nodes |-> [c \in Counters |-> 0]]
    /\ dropped = [n \in Nodes |-> {}]

-------------------------------------------------------------------------------
\* The state in which a handler of node n starts, and what is left of it when it is
\* done: contexts without references are freed, messages are on the network.
Node(n) ==
    [node |-> n, up |-> up[n], ec |-> ec[n], tx |-> tx[n], session |-> session[n],
     sent |-> {}, err |-> "None", acked |-> acked[n], delivered |-> delivered[n],
     dropped |-> dropped[n]]

Done(n, s) ==
    /\ ec' = [ec EXCEPT ![n] = ReleaseContexts(s.ec)]
    /\ tx' = [tx EXCEPT ![n] = s.tx]
    /\ session' = [session EXCEPT ![n] = s.session]
    /\ net' = net \cup s.sent
    /\ acked' = [acked EXCEPT ![n] = s.acked]
    /\ delivered' = [delivered EXCEPT ![n] = s.delivered]
    /\ dropped' = [dropped EXCEPT ![n] = s.dropped]
    /\ UNCHANGED up

\* ExchangeManager::NewContext, only on an active session.
StartExchange(n) ==
    LET x == [initiator |-> n, id |-> nextId[n]]
    IN /\ n \in Initiators
       /\ nextId[n] <= MaxExchanges
       /\ session[n] = "Active"
       /\ ~ContextPoolFull(Node(n))
       /\ Done(n, [Node(n) EXCEPT !.ec[x] = NewContext(TRUE)])
       /\ nextId' = [nextId EXCEPT ![n] = @ + 1]
       /\ UNCHANGED <<rx, received>>

\* The application sends the message it announced.  If that fails it still owns the
\* exchange and may try again or give up.
AppSend(n, x, flags) ==
    /\ ec[n][x].refs = 1
    /\ ec[n][x].willSend
    /\ Done(n, SendMessage(Node(n), x, flags))
    /\ UNCHANGED <<nextId, rx, received>>

\* ExchangeHolder::Release.
AppRelease(n, x) ==
    /\ ec[n][x].refs = 1
    /\ ec[n][x].responseExpected \/ ec[n][x].willSend
    /\ Done(n, Abort(Node(n), x))
    /\ UNCHANGED <<nextId, rx, received>>

\* ExchangeManager::CloseAllContextsForDelegate reaches the context.
AppClose(n, x) ==
    /\ ec[n][x].live /\ ~ec[n][x].closed
    /\ Done(n, Close(Node(n), x))
    /\ UNCHANGED <<nextId, rx, received>>

\* SessionManager::SecureUnicastMessageDispatch: verify the counter, mark the session
\* active, drop a duplicate that wants no ack, commit the counter, dispatch.  An
\* evicted session is gone once no exchange holds it.
Receive(n, m, reaction) ==
    LET isDuplicate == ~VerifyEncryptedUnicast(rx[n], m.ctr)
        s == MarkActiveRx(Node(n))
    IN /\ m.from # n
       /\ session[n] = "PendingEviction" => \E x \in Exchanges : ec[n][x].hasSession
       /\ rx' = [rx EXCEPT ![n] = IF isDuplicate THEN @
                                                 ELSE CommitEncryptedUnicast(@, m.ctr)]
       /\ received' = [received EXCEPT ![n] = IF isDuplicate THEN @ ELSE @ \cup {m.ctr}]
       /\ Done(n, IF isDuplicate /\ ~m.needsAck
                    THEN s
                    ELSE DispatchToExchange(s, m, isDuplicate, reaction))
       /\ UNCHANGED nextId

\* ReliableMessageMgr::ExecuteActions: the ack that is due is sent.
AckTimeout(n, x) ==
    /\ ec[n][x].ackPending
    /\ Done(n, SendStandaloneAckMessage(Node(n), x))
    /\ UNCHANGED <<nextId, rx, received>>

\* ReliableMessageMgr::ExecuteActions: the entry is sent again or given up.
RetransTimeout(n, x) ==
    /\ ec[n][x].entry # {}
    /\ Done(n, Retransmit(Node(n), x))
    /\ UNCHANGED <<nextId, rx, received>>

\* ExchangeContext::HandleResponseTimeout; closing the exchange cancels the timer.
ResponseTimeout(n, x) ==
    /\ ec[n][x].responseExpected
    /\ ~ec[n][x].closed
    /\ Done(n, NotifyResponseTimeout(Node(n), x, TRUE))
    /\ UNCHANGED <<nextId, rx, received>>

\* The session is evicted, by the session table or a newer session.
EvictSession(n) ==
    /\ n \in EvictingNodes
    /\ session[n] # "PendingEviction"
    /\ Done(n, MarkForEviction(Node(n), {}))
    /\ UNCHANGED <<nextId, rx, received>>

\* A command handler removes its own fabric but still has to answer.
AbortAllOtherCommunicationOnFabric(n, x) ==
    /\ n \in EvictingNodes
    /\ ec[n][x].willSend
    /\ ec[n][x].hasSession
    /\ session[n] # "PendingEviction"
    /\ Done(n, MarkForEviction(Node(n), {x}))
    /\ UNCHANGED <<nextId, rx, received>>

InterfaceChange(n) ==
    /\ n \in FlakyNodes
    /\ up' = [up EXCEPT ![n] = ~@]
    /\ UNCHANGED <<ec, nextId, tx, rx, session, net, received, acked, delivered, dropped>>

\* What the application may do about message m at node n.  Flags matter only when it
\* answers, and only a new application message reaches it.
AppReactions(n, m) ==
    {r \in Reactions :
        /\ IF r.kind = "SendMessage" THEN r.flags \in AppFlags ELSE r.flags = NoFlags
        /\ IF m.kind = "App" /\ VerifyEncryptedUnicast(rx[n], m.ctr)
             THEN r.kind \in AppKinds
             ELSE r.kind = "none"}

Next ==
    \E n \in Nodes :
      \/ StartExchange(n)
      \/ EvictSession(n)
      \/ InterfaceChange(n)
      \/ \E m \in net : \E reaction \in AppReactions(n, m) : Receive(n, m, reaction)
      \/ \E x \in Exchanges :
           \/ \E flags \in AppFlags : AppSend(n, x, flags)
           \/ AppRelease(n, x)
           \/ AppClose(n, x)
           \/ AckTimeout(n, x)
           \/ RetransTimeout(n, x)
           \/ ResponseTimeout(n, x)
           \/ AbortAllOtherCommunicationOnFabric(n, x)

Spec == Init /\ [][Next]_vars

\* What ends the waiting on an exchange: its timers, and an application that
\* announced a message and lets the exchange go instead.
Timeout(n, x) ==
    \/ AckTimeout(n, x)
    \/ RetransTimeout(n, x)
    \/ ResponseTimeout(n, x)
    \/ ec[n][x].willSend /\ AppRelease(n, x)

\* An armed timer fires in the end; which of several comes first is left open.
Fairness == \A n \in Nodes, x \in Exchanges : WF_vars(Timeout(n, x))

FairSpec == Spec /\ Fairness

-------------------------------------------------------------------------------
\* The life of a context, as the assertions of ExchangeContext demand it: it is
\* released once, never without having been closed (~ExchangeContext dies
\* otherwise), a closed context that still has its reference is one whose session
\* went away under a pending send (whoever announced the send releases it), and an
\* open context has a session and somebody who will end it: the announced send or
\* the response timer.
ExchangeLifetime ==
    \A n \in Nodes, x \in Exchanges :
        LET c == ec[n][x]
        IN c.live =>
             /\ c.refs \in {0, 1}
             /\ c.refs = 0 => c.closed /\ c.entry # {}
             /\ c.closed /\ c.refs = 1 => c.willSend /\ ~c.hasSession
             /\ ~c.closed => c.hasSession /\ (c.willSend \/ c.responseExpected)

\* ExecuteActions takes the session of every entry of the retransmission table
\* without asking whether there is one, and dies if there is none.
RetransEntryHasSession ==
    \A n \in Nodes, x \in Exchanges :
        ec[n][x].entry # {} => ec[n][x].live /\ ec[n][x].hasSession

\* Whoever announced a message keeps a pointer to the context (ExchangeHolder does),
\* so nothing but that application may free it, by this or another message it sends
\* or by letting go: not the eviction of the session, not a message, not a timer.
PendingSendKeepsContext ==
    [][\A n \in Nodes, x \in Exchanges :
          ec[n][x].live /\ ec[n][x].willSend /\ ~ec'[n][x].live =>
              \/ \E flags \in AppFlags : AppSend(n, x, flags)
              \/ AppRelease(n, x)
              \/ AppClose(n, x)
              \/ \E m \in net : \E reaction \in AppReactions(n, m) :
                    /\ m.x = x /\ reaction.kind = "SendMessage"
                    /\ Receive(n, m, reaction)]_vars

\* The application gets a message at most once, however often it is sent again and
\* whatever is duplicated on the way.
AtMostOnceDelivery ==
    \A n \in Nodes, c \in Counters : delivered[n][c] <= 1

\* An acknowledgment comes only for a message that has arrived, unless the peer
\* has meanwhile seen a counter more than the window above it: that message then
\* counts as a duplicate and is acknowledged unseen.
AckMeansReceived ==
    \A n, p \in Nodes : n # p =>
        \A c \in acked[n] :
            c \in received[p] \/ c + WindowSize < rx[p].mMaxCounter

\* HandleMessage refuses a message that lacks the ack it waits for, in the belief
\* that only a peer that violates the specification sends one.  A peer that runs
\* this code never does: whatever acks were lost, duplicated or sent in between,
\* its answer carries the ack of the message it answers.
AnswerCarriesAck ==
    \A n \in Nodes : dropped[n] = {}

\* An application message that can still reach the other end.
Unheard(m) ==
    /\ m.kind = "App"
    /\ \E q \in Nodes : q # m.from /\ VerifyEncryptedUnicast(rx[q], m.ctr)

Talk == INSTANCE Conversation
    WITH opened   <- {x \in Exchanges : x.id < nextId[x.initiator]},
         speaker  <- [x \in Exchanges |-> {n \in Nodes : ec[n][x].willSend}],
         underway <- [x \in Exchanges |-> {m \in net : m.x = x /\ Unheard(m)}]

\* Under losses, duplicates, reordering, retransmissions, lone acks, failed sends and
\* evictions the exchanges implement Conversation: the two ends speak in turn, each
\* message is answered at most once, and an exchange that fell silent stays so.
ConversationSpec == Talk!Spec

\* Every exchange ends: whatever is lost and whoever stops answering, timers and
\* retransmission limits bring every context back to the pool.
EveryExchangeEnds ==
    \A n \in Nodes, x \in Exchanges : ec[n][x].live ~> ~ec[n][x].live
===============================================================================
