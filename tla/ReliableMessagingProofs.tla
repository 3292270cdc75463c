------------------------ MODULE ReliableMessagingProofs ------------------------
(***************************************************************************)
(* Reliable messaging for every size of the pools, of the replay window    *)
(* and of the counters, and for every choice of what applications do: the  *)
(* life of exchange contexts is as the assertions in the code demand, no   *)
(* message is delivered twice, an acknowledgment means what it says, an    *)
(* announced send keeps its context, and an answer carries the ack that    *)
(* the other end waits for.                                                *)
(***************************************************************************)
EXTENDS ReliableMessaging, ExchangeContextProofs

\* Between two handlers a slot of the pool is free or holds a settled context, and a
\* context without a reference of its own is held by the retransmission table.
PoolInv ==
    \A n \in Nodes, x \in Exchanges :
        LET c == ec[n][x]
        IN c = NoContext \/ (Settled(c) /\ (c.refs = 0 => c.entry # {}))

\* What has arrived is refused from then on, and only what has arrived is delivered.
OnceInv ==
    \A n \in Nodes :
        /\ rx[n].synced
        /\ \A c \in received[n] : ~VerifyEncryptedUnicast(rx[n], c)
        /\ \A c \in Counters : delivered[n][c] = 0 \/ (delivered[n][c] = 1 /\ c \in received[n])

\* Only an eviction takes the session from a context.
SessionInv ==
    \A n \in Nodes, x \in Exchanges :
        ec[n][x].live /\ ~ec[n][x].hasSession => session[n] = "PendingEviction"

Inv == TypeOK /\ PoolInv /\ OnceInv /\ SessionInv

-------------------------------------------------------------------------------
\* When a synced window takes a counter.
LEMMA UnicastVerify ==
    ASSUME NEW r \in PeerCounters, r.synced, NEW c \in Counters
    PROVE  LET m == r.mMaxCounter
           IN VerifyEncryptedUnicast(r, c) <=>
                \/ c > m
                \/ c < m /\ m - c <= WindowSize /\ m - c - 1 \notin r.mWindow
  <1> DEFINE m == r.mMaxCounter
             p == ClassifyWithoutRollover(r, c)
  <1>1. m \in Nat /\ c \in Nat /\ WindowSize \in Nat
    BY WindowAssumption DEF PeerCounters, Counters
  <1>2. VerifyEncryptedUnicast(r, c) <=>
          p = "FutureCounter" \/ (p = "InWindow" /\ Minus(m, c) - 1 \notin r.mWindow)
    BY DEF VerifyEncryptedUnicast, VerifyPositionEncrypted, SeenInWindow
  <1>3. CASE c > m
    <2>1. p = "FutureCounter"
      BY <1>3 DEF ClassifyWithoutRollover
    <2> QED
      BY <1>2, <1>3, <2>1
  <1>4. CASE c = m
    <2>1. p = "MaxCounter"
      BY <1>1, <1>4 DEF ClassifyWithoutRollover, ClassifyNonFutureCounter
    <2> HIDE DEF p, m
    <2> QED
      BY <1>1, <1>2, <1>4, <2>1 DEF m
  <1>5. CASE c < m
    <2>1. Minus(m, c) = m - c
      BY <1>1, <1>5 DEF Minus
    <2>2. p = IF m - c <= WindowSize THEN "InWindow" ELSE "BeforeWindow"
      BY <1>1, <1>5, <2>1 DEF ClassifyWithoutRollover, ClassifyNonFutureCounter
    <2> HIDE DEF p, m
    <2> QED
      BY <1>1, <1>2, <1>5, <2>1, <2>2 DEF m
  <1> QED
    BY <1>1, <1>3, <1>4, <1>5

\* Committing a counter that was taken refuses it from then on, and goes on refusing
\* whatever was refused before.
LEMMA UnicastCommit ==
    ASSUME NEW r \in PeerCounters, r.synced, NEW c \in Counters,
           VerifyEncryptedUnicast(r, c)
    PROVE  LET q == CommitEncryptedUnicast(r, c)
           IN /\ q \in PeerCounters /\ q.synced
              /\ ~VerifyEncryptedUnicast(q, c)
              /\ \A d \in Counters : ~VerifyEncryptedUnicast(r, d) =>
                                        ~VerifyEncryptedUnicast(q, d)
  <1> DEFINE m == r.mMaxCounter
             q == CommitEncryptedUnicast(r, c)
  <1>1. m \in Nat /\ c \in Nat /\ WindowSize \in Nat
    BY WindowAssumption DEF PeerCounters, Counters
  <1>2. \/ c > m
        \/ c < m /\ m - c <= WindowSize /\ m - c - 1 \notin r.mWindow
    BY UnicastVerify
  <1>3. ASSUME NEW d \in Counters, d = c \/ ~VerifyEncryptedUnicast(r, d),
               q \in PeerCounters, q.synced,
               q.mMaxCounter >= d,
               d # q.mMaxCounter /\ q.mMaxCounter - d <= WindowSize =>
                  q.mMaxCounter - d - 1 \in q.mWindow
        PROVE  ~VerifyEncryptedUnicast(q, d)
    <2>1. q.mMaxCounter \in Nat /\ d \in Nat
      BY <1>3, WindowAssumption DEF PeerCounters, Counters
    <2>2. LET k == q.mMaxCounter
          IN VerifyEncryptedUnicast(q, d) <=>
               \/ d > k
               \/ d < k /\ k - d <= WindowSize /\ k - d - 1 \notin q.mWindow
      BY <1>3, UnicastVerify
    <2> HIDE DEF q
    <2> QED
      BY <1>3, <2>1, <2>2
  <1>4. CASE c > m
    <2> DEFINE w == IF c - m > WindowSize
                      THEN {}
                      ELSE {b \in Bits : b - (c - m) \in r.mWindow} \cup {c - m - 1}
    <2>1. Minus(c, m) = c - m /\ ClassifyWithoutRollover(r, c) = "FutureCounter"
      BY <1>1, <1>4 DEF Minus, ClassifyWithoutRollover
    <2>2. q = [r EXCEPT !.mMaxCounter = c, !.mWindow = w]
      BY <2>1 DEF CommitEncryptedUnicast, CommitWithPosition
    <2>3. w \in SUBSET Bits
      BY <1>1, <1>4 DEF Bits
    <2>4. q \in PeerCounters /\ q.synced /\ q.mMaxCounter = c /\ q.mWindow = w
      <3> HIDE DEF w, q
      <3> QED
        BY <2>2, <2>3 DEF PeerCounters
    <2>5. ASSUME NEW d \in Counters, d = c \/ ~VerifyEncryptedUnicast(r, d)
          PROVE  ~VerifyEncryptedUnicast(q, d)
      <3>1. d \in Nat
        BY DEF Counters
      <3>2. d = c \/ (d <= m /\ (d < m /\ m - d <= WindowSize => m - d - 1 \in r.mWindow))
        <4>1. CASE d = c
          BY <4>1
        <4>2. CASE ~VerifyEncryptedUnicast(r, d)
          BY <1>1, <2>5, <3>1, <4>2, UnicastVerify
        <4> QED
          BY <2>5, <4>1, <4>2
      <3>3. d # c /\ c - d <= WindowSize => c - d - 1 \in w
        <4>1. SUFFICES ASSUME d # c, c - d <= WindowSize
                       PROVE  c - d - 1 \in w
          OBVIOUS
        <4>2. d <= m /\ c - m <= WindowSize /\ c - d - 1 \in Bits
          BY <1>1, <1>4, <3>1, <3>2, <4>1 DEF Bits
        <4>3. w = {b \in Bits : b - (c - m) \in r.mWindow} \cup {c - m - 1}
          BY <1>1, <4>2
        <4>4. CASE d = m
          BY <4>3, <4>4
        <4>5. CASE d < m
          <5>1. m - d - 1 \in r.mWindow /\ c - d - 1 - (c - m) = m - d - 1
            BY <1>1, <1>4, <3>1, <3>2, <4>1, <4>5
          <5> QED
            BY <4>2, <4>3, <5>1
        <4> QED
          BY <1>1, <3>1, <4>2, <4>4, <4>5
      <3> HIDE DEF w, q
      <3>4. q.mMaxCounter >= d
        BY <1>1, <1>4, <2>4, <3>1, <3>2
      <3> QED
        BY <1>3, <2>4, <2>5, <3>3, <3>4
    <2> QED
      BY <2>4, <2>5
  <1>5. CASE c < m /\ m - c <= WindowSize
    <2> DEFINE w == r.mWindow \cup {m - c - 1}
    <2>1. Minus(m, c) = m - c /\ ClassifyWithoutRollover(r, c) = "InWindow"
      BY <1>1, <1>5 DEF Minus, ClassifyWithoutRollover, ClassifyNonFutureCounter
    <2>2. q = [r EXCEPT !.mWindow = w]
      BY <2>1 DEF CommitEncryptedUnicast, CommitWithPosition
    <2>3. w \in SUBSET Bits
      BY <1>1, <1>5 DEF Bits, PeerCounters
    <2>4. q \in PeerCounters /\ q.synced /\ q.mMaxCounter = m /\ q.mWindow = w
      <3> HIDE DEF w, q
      <3> QED
        BY <2>2, <2>3 DEF PeerCounters
    <2>5. ASSUME NEW d \in Counters, d = c \/ ~VerifyEncryptedUnicast(r, d)
          PROVE  ~VerifyEncryptedUnicast(q, d)
      <3>1. d \in Nat
        BY DEF Counters
      <3>2. d <= m /\ (d < m /\ m - d <= WindowSize => m - d - 1 \in w)
        <4>1. CASE d = c
          BY <1>1, <1>5, <4>1
        <4>2. CASE ~VerifyEncryptedUnicast(r, d)
          BY <1>1, <2>5, <3>1, <4>2, UnicastVerify
        <4> QED
          BY <2>5, <4>1, <4>2
      <3> HIDE DEF w, q
      <3> QED
        BY <1>1, <1>3, <2>4, <2>5, <3>1, <3>2
    <2> QED
      BY <2>4, <2>5
  <1> QED
    BY <1>2, <1>4, <1>5

-------------------------------------------------------------------------------
\* A handler starts from a state of its node with the pool in order.
LEMMA NodeFacts ==
    ASSUME TypeOK, PoolInv, SessionInv, NEW n \in Nodes
    PROVE  /\ Node(n) \in NodeStates /\ Ready(Node(n)) /\ Anchored(Node(n))
           /\ Node(n).ec = ec[n] /\ Node(n).node = n
           /\ Node(n).delivered = delivered[n]
           /\ Node(n).session = session[n]
  <1>1. Node(n) \in NodeStates
    BY DEF TypeOK, Node, NodeStates
  <1>2. /\ Node(n).ec = ec[n] /\ Node(n).node = n
        /\ Node(n).delivered = delivered[n]
        /\ Node(n).session = session[n]
    BY DEF Node
  <1> QED
    BY <1>1, <1>2 DEF Ready, PoolInv, Anchored, SessionInv

\* Freeing what nobody holds leaves the pool in order.
LEMMA ReleaseContextsFacts ==
    ASSUME NEW s \in NodeStates, Ready(s)
    PROVE  LET t == ReleaseContexts(s.ec)
           IN /\ t \in [Exchanges -> Contexts]
              /\ \A x \in Exchanges :
                   t[x] = NoContext \/ (Settled(t[x]) /\ (t[x].refs = 0 => t[x].entry # {}))
  <1> DEFINE t == ReleaseContexts(s.ec)
  <1>1. /\ t = [x \in Exchanges |-> t[x]]
        /\ \A x \in Exchanges :
             t[x] = IF s.ec[x].refs = 0 /\ s.ec[x].entry = {} THEN NoContext ELSE s.ec[x]
    BY DEF ReleaseContexts
  <1>2. s.ec \in [Exchanges -> Contexts]
    BY DEF NodeStates
  <1> HIDE DEF t
  <1>3. ASSUME NEW x \in Exchanges
        PROVE  /\ t[x] \in Contexts
               /\ t[x] = NoContext \/ (Settled(t[x]) /\ (t[x].refs = 0 => t[x].entry # {}))
    BY <1>1, <1>2, NoContextFacts DEF Ready
  <1> QED
    BY <1>1, <1>3 DEF t

\* What the end of a handler leaves behind.
LEMMA DoneFacts ==
    ASSUME TypeOK, PoolInv, SessionInv, NEW n \in Nodes, NEW s \in NodeStates,
           Ready(s), Anchored(s), Done(n, s),
           nextId' \in [Nodes -> 1 .. MaxExchanges + 1],
           rx' \in [Nodes -> PeerCounters],
           received' \in [Nodes -> SUBSET Counters]
    PROVE  /\ TypeOK' /\ PoolInv' /\ SessionInv'
           /\ delivered' = [delivered EXCEPT ![n] = s.delivered]
  <1> DEFINE t == ReleaseContexts(s.ec)
  <1>1. /\ t \in [Exchanges -> Contexts]
        /\ \A x \in Exchanges :
             t[x] = NoContext \/ (Settled(t[x]) /\ (t[x].refs = 0 => t[x].entry # {}))
    BY ReleaseContextsFacts
  <1>2. ec' = [ec EXCEPT ![n] = t]
    BY DEF Done
  <1> HIDE DEF t
  <1>3. ec' \in [Nodes -> [Exchanges -> Contexts]]
    BY <1>1, <1>2 DEF TypeOK
  <1>4. /\ s.tx \in Counters /\ s.session \in SessionStates /\ s.sent \subseteq Messages
        /\ s.acked \in SUBSET Counters /\ s.delivered \in [Counters -> Nat]
        /\ s.dropped \in SUBSET Counters
    BY DEF NodeStates
  <1>5. TypeOK'
    BY <1>3, <1>4 DEF TypeOK, Done
  <1>6. PoolInv'
    <2>1. ASSUME NEW k \in Nodes, NEW x \in Exchanges
          PROVE  LET c == ec'[k][x]
                 IN c = NoContext \/ (Settled(c) /\ (c.refs = 0 => c.entry # {}))
      <3>1. CASE k = n
        <4>1. ec'[k][x] = t[x]
          BY <1>2, <3>1 DEF TypeOK
        <4> QED
          BY <1>1, <4>1
      <3>2. CASE k # n
        <4>1. ec'[k][x] = ec[k][x]
          BY <1>2, <3>2 DEF TypeOK
        <4> QED
          BY <4>1 DEF PoolInv
      <3> QED
        BY <3>1, <3>2
    <2> QED
      BY <2>1 DEF PoolInv
  <1>7. SessionInv'
    <2>1. ASSUME NEW k \in Nodes, NEW x \in Exchanges, ec'[k][x].live, ~ec'[k][x].hasSession
          PROVE  session'[k] = "PendingEviction"
      <3>1. CASE k = n
        <4>1. ec'[k][x] = t[x] /\ session'[k] = s.session
          BY <1>2, <3>1 DEF TypeOK, Done
        <4>2. t[x] \in {NoContext, s.ec[x]}
          BY DEF t, ReleaseContexts
        <4> QED
          BY <2>1, <4>1, <4>2, NoContextFacts DEF Anchored
      <3>2. CASE k # n
        <4>1. ec'[k][x] = ec[k][x] /\ session'[k] = session[k]
          BY <1>2, <3>2 DEF TypeOK, Done
        <4> QED
          BY <2>1, <4>1 DEF SessionInv
      <3> QED
        BY <3>1, <3>2
    <2> QED
      BY <2>1 DEF SessionInv
  <1> QED
    BY <1>5, <1>6, <1>7 DEF Done

\* A handler that delivers nothing keeps the invariant.
LEMMA QuietHandler ==
    ASSUME Inv, NEW n \in Nodes, NEW s \in NodeStates, Ready(s), Anchored(s),
           s.delivered = delivered[n], Done(n, s), UNCHANGED <<rx, received>>,
           nextId' \in [Nodes -> 1 .. MaxExchanges + 1]
    PROVE  Inv'
  <1>1. /\ TypeOK' /\ PoolInv' /\ SessionInv'
        /\ delivered' = [delivered EXCEPT ![n] = s.delivered]
    BY DoneFacts DEF Inv, TypeOK
  <1>2. delivered' = delivered
    BY <1>1 DEF Inv, TypeOK
  <1>3. OnceInv'
    BY <1>2 DEF Inv, OnceInv
  <1> QED
    BY <1>1, <1>3 DEF Inv

\* The same for a handler of one exchange whose context exists.
LEMMA QuietExchangeHandler ==
    ASSUME Inv, NEW n \in Nodes, NEW x \in Exchanges, NEW s, ec[n][x].live,
           Local(Node(n), s, x), Settled(s.ec[x]), Done(n, s),
           s.ec[x].hasSession = ec[n][x].hasSession,
           UNCHANGED <<nextId, rx, received>>
    PROVE  Inv'
  <1>1. /\ Node(n) \in NodeStates /\ Ready(Node(n)) /\ Anchored(Node(n))
        /\ Node(n).delivered = delivered[n] /\ Node(n).ec = ec[n]
    BY NodeFacts DEF Inv
  <1>2. /\ s \in NodeStates /\ s.delivered = delivered[n]
        /\ \A y \in Exchanges : y # x => s.ec[y] = Node(n).ec[y]
        /\ Evicted(Node(n), s)
    BY <1>1 DEF Local
  <1>3. Ready(s) /\ Anchored(s)
    BY <1>1, <1>2, ReadyOneExchange, AnchoredOneExchange
  <1>4. nextId' \in [Nodes -> 1 .. MaxExchanges + 1]
    BY DEF Inv, TypeOK
  <1> QED
    BY <1>2, <1>3, <1>4, QuietHandler

\* A slot that is in use holds a settled context.
LEMMA UsedIsSettled ==
    ASSUME Inv, NEW n \in Nodes, NEW x \in Exchanges, ec[n][x] # NoContext
    PROVE  /\ Node(n) \in NodeStates
           /\ Settled(Node(n).ec[x]) /\ Sound(Node(n).ec[x])
           /\ Node(n).ec[x] = ec[n][x]
  <1>1. Node(n) \in NodeStates /\ Node(n).ec = ec[n]
    BY NodeFacts DEF Inv
  <1> QED
    BY <1>1 DEF Inv, PoolInv, Settled

-------------------------------------------------------------------------------
\* The initial states.
LEMMA InitInv == Init => Inv
  <1> SUFFICES ASSUME Init
               PROVE  Inv
    OBVIOUS
  <1>1. 0 \in Counters /\ 1 \in 1 .. MaxExchanges + 1
    BY WindowAssumption, ExchangeAssumption DEF Counters
  <1>2. SetCounter(0) \in PeerCounters /\ SetCounter(0).synced
    BY <1>1 DEF SetCounter, PeerCounters
  <1>3. TypeOK
    BY <1>1, <1>2, NoContextFacts DEF Init, TypeOK, SessionStates
  <1>4. PoolInv
    BY DEF Init, PoolInv
  <1>5. OnceInv
    BY <1>2 DEF Init, OnceInv
  <1>6. SessionInv
    BY NoContextFacts DEF Init, SessionInv
  <1> QED
    BY <1>3, <1>4, <1>5, <1>6 DEF Inv

\* A new exchange of the initiator.
LEMMA StartExchangeInv ==
    ASSUME Inv, NEW n \in Nodes, StartExchange(n)
    PROVE  Inv'
  <1> DEFINE x == [initiator |-> n, id |-> nextId[n]]
             yes == TRUE
             new == NewContext(yes)
             s == WithContext(Node(n), x, new)
  <1>1. /\ n \in Initiators /\ nextId[n] <= MaxExchanges
        /\ Done(n, s)
        /\ nextId' = [nextId EXCEPT ![n] = @ + 1]
        /\ UNCHANGED <<rx, received>>
    BY DEF StartExchange, WithContext
  <1>2. nextId[n] \in 1 .. MaxExchanges /\ nextId' \in [Nodes -> 1 .. MaxExchanges + 1]
    BY <1>1, ExchangeAssumption DEF Inv, TypeOK
  <1>3. x \in Exchanges
    BY <1>1, <1>2 DEF Exchanges
  <1>4. yes \in BOOLEAN /\ yes
    OBVIOUS
  <1> HIDE DEF x, yes
  <1>5. new \in Contexts /\ Settled(new) /\ new.hasSession
    BY <1>4, NewContextFacts
  <1>6. /\ Node(n) \in NodeStates /\ Ready(Node(n)) /\ Anchored(Node(n))
        /\ Node(n).delivered = delivered[n]
    BY NodeFacts DEF Inv
  <1> HIDE DEF new
  <1>7. Local(Node(n), s, x) /\ s.ec[x] = new
    BY <1>3, <1>5, <1>6, UpdateContext
  <1> HIDE DEF s
  <1>8. s \in NodeStates /\ s.delivered = delivered[n] /\ Ready(s) /\ Anchored(s)
    <2>1. /\ s \in NodeStates /\ Evicted(Node(n), s)
          /\ \A y \in Exchanges : y # x => s.ec[y] = Node(n).ec[y]
      BY <1>7 DEF Local
    <2>2. Ready(s) /\ Anchored(s)
      BY <1>3, <1>5, <1>6, <1>7, <2>1, ReadyOneExchange, AnchoredOneExchange
    <2> QED
      BY <1>6, <1>7, <2>1, <2>2 DEF Local
  <1> QED
    BY <1>1, <1>2, <1>8, QuietHandler

\* What the application and the timers do on one exchange.
LEMMA ExchangeStepInv ==
    ASSUME Inv, NEW n \in Nodes, NEW x \in Exchanges,
           \/ \E flags \in AppFlags : AppSend(n, x, flags)
           \/ AppRelease(n, x)
           \/ AppClose(n, x)
           \/ AckTimeout(n, x)
           \/ RetransTimeout(n, x)
           \/ ResponseTimeout(n, x)
    PROVE  Inv'
  <1> DEFINE s == Node(n)
             c == ec[n][x]
  <1>1. c # NoContext
    BY NoContextFacts
    DEF AppSend, AppRelease, AppClose, AckTimeout, RetransTimeout, ResponseTimeout
  <1>2. /\ s \in NodeStates /\ Settled(s.ec[x]) /\ Sound(s.ec[x]) /\ s.ec[x] = c
        /\ c.live
    BY <1>1, UsedIsSettled DEF Sound
  <1> HIDE DEF s, c
  <1>3. ASSUME NEW flags \in AppFlags, AppSend(n, x, flags)
        PROVE  Inv'
    <2> DEFINE t == SendMessage(s, x, flags)
    <2>1. flags \in SendFlags
      BY ScenarioAssumption
    <2>2. c.willSend /\ Done(n, t) /\ UNCHANGED <<nextId, rx, received>>
      BY <1>3 DEF AppSend, s, c
    <2>3. Local(s, t, x) /\ Settled(t.ec[x]) /\ t.ec[x].hasSession = c.hasSession
      BY <1>2, <2>1, <2>2, SendMessageFacts
    <2> HIDE DEF t
    <2> QED
      BY <1>2, <2>2, <2>3, QuietExchangeHandler DEF s, c
  <1>4. ASSUME AppRelease(n, x)
        PROVE  Inv'
    <2> DEFINE t == Abort(s, x)
    <2>1. c.refs = 1 /\ Done(n, t) /\ UNCHANGED <<nextId, rx, received>>
      BY <1>4 DEF AppRelease, s, c
    <2>2. LET d == t.ec[x]
          IN /\ Local(s, t, x)
             /\ d.live = c.live /\ d.refs = c.refs - 1 /\ d.closed
             /\ d.hasSession = c.hasSession /\ d.willSend = c.willSend
             /\ d.responseExpected = c.responseExpected
             /\ d.entry = IF c.closed THEN c.entry ELSE {}
      BY <1>2, AbortFacts
    <2> HIDE DEF t
    <2>3. Settled(t.ec[x])
      BY <1>2, <2>1, <2>2 DEF Settled, Sound
    <2> QED
      BY <1>2, <2>1, <2>2, <2>3, QuietExchangeHandler DEF s, c
  <1>5. ASSUME AppClose(n, x)
        PROVE  Inv'
    <2> DEFINE t == Close(s, x)
    <2>1. ~c.closed /\ Done(n, t) /\ UNCHANGED <<nextId, rx, received>>
      BY <1>5 DEF AppClose, s, c
    <2>2. LET d == t.ec[x]
          IN /\ Local(s, t, x)
             /\ d.live = c.live /\ d.refs = c.refs - 1 /\ d.closed
             /\ d.hasSession = c.hasSession /\ d.willSend = c.willSend
             /\ d.responseExpected = c.responseExpected /\ d.entry = c.entry
      BY <1>2, CloseFacts
    <2> HIDE DEF t
    <2>3. Settled(t.ec[x])
      BY <1>2, <2>1, <2>2 DEF Settled, Sound
    <2> QED
      BY <1>2, <2>1, <2>2, <2>3, QuietExchangeHandler DEF s, c
  <1>6. ASSUME AckTimeout(n, x)
        PROVE  Inv'
    <2> DEFINE t == SendStandaloneAckMessage(s, x)
    <2>1. Done(n, t) /\ UNCHANGED <<nextId, rx, received>>
      BY <1>6 DEF AckTimeout, s
    <2>2. Quiet(s, t, x)
      BY <1>2, SendStandaloneAckMessageQuiet
    <2> HIDE DEF t
    <2>3. Local(s, t, x) /\ Settled(t.ec[x]) /\ t.ec[x].hasSession = c.hasSession
      BY <1>2, <2>2, QuietKeeps DEF Quiet, SameLife
    <2> QED
      BY <1>2, <2>1, <2>3, QuietExchangeHandler DEF s, c
  <1>7. ASSUME RetransTimeout(n, x)
        PROVE  Inv'
    <2> DEFINE t == Retransmit(s, x)
    <2>1. Done(n, t) /\ UNCHANGED <<nextId, rx, received>>
      BY <1>7 DEF RetransTimeout, s
    <2>2. Local(s, t, x) /\ Settled(t.ec[x]) /\ t.ec[x].hasSession = c.hasSession
      BY <1>2, RetransmitFacts
    <2> HIDE DEF t
    <2> QED
      BY <1>2, <2>1, <2>2, QuietExchangeHandler DEF s, c
  <1>8. ASSUME ResponseTimeout(n, x)
        PROVE  Inv'
    <2> DEFINE t == NotifyResponseTimeout(s, x, TRUE)
    <2>1. Done(n, t) /\ UNCHANGED <<nextId, rx, received>>
      BY <1>8 DEF ResponseTimeout, s
    <2>2. Local(s, t, x) /\ Settled(t.ec[x]) /\ t.ec[x].hasSession = c.hasSession
      BY <1>2, NotifyResponseTimeoutFacts
    <2> HIDE DEF t
    <2> QED
      BY <1>2, <2>1, <2>2, QuietExchangeHandler DEF s, c
  <1> QED
    BY <1>3, <1>4, <1>5, <1>6, <1>7, <1>8

\* The session is evicted, whoever asks for it.
LEMMA EvictionInv ==
    ASSUME Inv, NEW n \in Nodes, NEW ignoring, Done(n, MarkForEviction(Node(n), ignoring)),
           UNCHANGED <<nextId, rx, received>>
    PROVE  Inv'
  <1> DEFINE t == MarkForEviction(Node(n), ignoring)
  <1>1. /\ Node(n) \in NodeStates /\ Ready(Node(n))
        /\ Node(n).delivered = delivered[n]
    BY NodeFacts DEF Inv
  <1>2. /\ t \in NodeStates /\ Ready(t) /\ t.delivered = delivered[n]
        /\ t.session = "PendingEviction"
    BY <1>1, MarkForEvictionFacts
  <1>3. nextId' \in [Nodes -> 1 .. MaxExchanges + 1]
    BY DEF Inv, TypeOK
  <1> HIDE DEF t
  <1>4. Anchored(t)
    BY <1>2 DEF Anchored
  <1> QED
    BY <1>2, <1>3, <1>4, QuietHandler DEF t

\* A message arrives, new or not.
LEMMA ReceiveInv ==
    ASSUME Inv, NEW n \in Nodes, NEW m \in net, NEW reaction \in AppReactions(n, m),
           Receive(n, m, reaction)
    PROVE  Inv'
  <1> DEFINE dup == ~VerifyEncryptedUnicast(rx[n], m.ctr)
             k == m.ctr
             r == rx[n]
             q == IF dup THEN r ELSE CommitEncryptedUnicast(r, k)
             g == IF dup THEN received[n] ELSE received[n] \cup {k}
             s == MarkActiveRx(Node(n))
             t == IF dup /\ ~m.needsAck THEN s ELSE DispatchToExchange(s, m, dup, reaction)
  <1>1. /\ rx' = [rx EXCEPT ![n] = q]
        /\ received' = [received EXCEPT ![n] = g]
        /\ Done(n, t) /\ UNCHANGED nextId
    BY DEF Receive
  <1>2. m \in Messages /\ reaction \in Reactions /\ k \in Counters /\ dup \in BOOLEAN
    BY DEF Inv, TypeOK, Messages, AppReactions
  <1>3. r \in PeerCounters /\ r.synced
    BY DEF Inv, TypeOK, OnceInv
  <1>4. /\ Node(n) \in NodeStates /\ Ready(Node(n)) /\ Anchored(Node(n))
        /\ Node(n).delivered = delivered[n]
    BY NodeFacts DEF Inv
  <1>5. s \in NodeStates /\ Ready(s) /\ Anchored(s) /\ s.delivered = delivered[n]
    <2>1. Quiet(Node(n), s, m.x) /\ s.ec = Node(n).ec
      BY <1>4, MarkFacts
    <2> HIDE DEF s
    <2> QED
      BY <1>4, <2>1 DEF Ready, Anchored, Quiet, Local, Evicted
  <1> HIDE DEF dup, s
  <1>6. /\ t \in NodeStates /\ Ready(t) /\ Anchored(t)
        /\ t.delivered \in {delivered[n], [delivered[n] EXCEPT ![k] = @ + 1]}
        /\ dup => t.delivered = delivered[n]
    <2>1. CASE dup /\ ~m.needsAck
      BY <1>5, <2>1
    <2>2. CASE ~(dup /\ ~m.needsAck)
      <3>1. t = DispatchToExchange(s, m, dup, reaction)
        BY <2>2
      <3> HIDE DEF t
      <3> QED
        BY <1>2, <1>5, <3>1, DispatchToExchangeFacts
    <2> QED
      BY <2>1, <2>2
  <1>7. /\ q \in PeerCounters /\ q.synced
        /\ ~VerifyEncryptedUnicast(q, k)
        /\ \A d \in Counters : ~VerifyEncryptedUnicast(r, d) => ~VerifyEncryptedUnicast(q, d)
    <2>1. CASE dup
      <3>1. q = r /\ ~VerifyEncryptedUnicast(r, k)
        BY <2>1 DEF dup
      <3> HIDE DEF q
      <3> QED
        BY <1>3, <3>1
    <2>2. CASE ~dup
      <3>1. q = CommitEncryptedUnicast(r, k) /\ VerifyEncryptedUnicast(r, k)
        BY <2>2 DEF dup
      <3> HIDE DEF q, r, k
      <3> QED
        BY <1>2, <1>3, <3>1, UnicastCommit
    <2> QED
      BY <2>1, <2>2
  <1>8. g \in SUBSET Counters /\ received[n] \subseteq g /\ (~dup => k \in g)
        /\ \A d \in g : d \in received[n] \/ d = k
    BY <1>2 DEF Inv, TypeOK
  <1> HIDE DEF t, q, g
  <1>9. /\ TypeOK' /\ PoolInv' /\ SessionInv'
        /\ delivered' = [delivered EXCEPT ![n] = t.delivered]
    <2>1. /\ rx' \in [Nodes -> PeerCounters] /\ received' \in [Nodes -> SUBSET Counters]
          /\ nextId' \in [Nodes -> 1 .. MaxExchanges + 1]
      BY <1>1, <1>7, <1>8 DEF Inv, TypeOK
    <2> QED
      BY <1>1, <1>6, <2>1, DoneFacts DEF Inv
  <1>10. /\ rx'[n] = q /\ received'[n] = g /\ delivered'[n] = t.delivered
         /\ \A j \in Nodes : j # n => /\ rx'[j] = rx[j] /\ received'[j] = received[j]
                                      /\ delivered'[j] = delivered[j]
    BY <1>1, <1>9 DEF Inv, TypeOK
  <1>11. \A d \in g : ~VerifyEncryptedUnicast(q, d)
    <2>1. ASSUME NEW d \in g
          PROVE  ~VerifyEncryptedUnicast(q, d)
      <3>1. CASE d = k
        BY <1>7, <3>1
      <3>2. CASE d \in received[n]
        <4>1. ~VerifyEncryptedUnicast(r, d) /\ d \in Counters
          BY <1>8, <3>2 DEF Inv, OnceInv
        <4> QED
          BY <1>7, <4>1
      <3> QED
        BY <1>8, <3>1, <3>2
    <2> QED
      BY <2>1
  <1>12. ASSUME NEW d \in Counters
         PROVE  t.delivered[d] = 0 \/ (t.delivered[d] = 1 /\ d \in g)
    <2>1. delivered[n][d] = 0 \/ (delivered[n][d] = 1 /\ d \in received[n])
      BY DEF Inv, OnceInv
    <2>2. CASE t.delivered = delivered[n]
      BY <1>8, <2>1, <2>2
    <2>3. CASE t.delivered # delivered[n]
      <3>1. ~dup /\ t.delivered = [delivered[n] EXCEPT ![k] = @ + 1]
        BY <1>6, <2>3
      <3>2. k \notin received[n]
        BY <3>1 DEF Inv, OnceInv, dup
      <3>3. delivered[n][k] = 0
        BY <1>2, <3>2 DEF Inv, OnceInv
      <3>4. delivered[n] \in [Counters -> Nat]
        BY DEF Inv, TypeOK
      <3>5. t.delivered[k] = 1 /\ (d # k => t.delivered[d] = delivered[n][d])
        BY <1>2, <3>1, <3>3, <3>4
      <3> QED
        BY <1>8, <2>1, <3>1, <3>5
    <2> QED
      BY <2>2, <2>3
  <1>13. OnceInv'
    <2>1. ASSUME NEW j \in Nodes
          PROVE  /\ rx'[j].synced
                 /\ \A c \in received'[j] : ~VerifyEncryptedUnicast(rx'[j], c)
                 /\ \A c \in Counters :
                      delivered'[j][c] = 0 \/ (delivered'[j][c] = 1 /\ c \in received'[j])
      <3>1. CASE j = n
        BY <1>7, <1>10, <1>11, <1>12, <3>1
      <3>2. CASE j # n
        <4>1. /\ rx'[j] = rx[j] /\ received'[j] = received[j]
              /\ delivered'[j] = delivered[j]
          BY <1>10, <3>2
        <4> QED
          BY <4>1 DEF Inv, OnceInv
      <3> QED
        BY <3>1, <3>2
    <2> QED
      BY <2>1 DEF OnceInv
  <1> QED
    BY <1>9, <1>13 DEF Inv

\* Every step keeps the invariant.
LEMMA NextInv == Inv /\ [Next]_vars => Inv'
  <1> SUFFICES ASSUME Inv, [Next]_vars
               PROVE  Inv'
    OBVIOUS
  <1>1. CASE Next
    <2>1. PICK n \in Nodes :
            \/ StartExchange(n)
            \/ EvictSession(n)
            \/ InterfaceChange(n)
            \/ \E m \in net : \E reaction \in AppReactions(n, m) : Receive(n, m, reaction)
            \/ \E x \in Exchanges :
                 \/ \E flags \in AppFlags : AppSend(n, x, flags)
                 \/ AppRelease(n, x)
                 \/ AppClose(n, x)
                 \/ AckTimeout(n, x)
                 \/ RetransTimeout(n, x)
                 \/ ResponseTimeout(n, x)
                 \/ AbortAllOtherCommunicationOnFabric(n, x)
      BY <1>1 DEF Next
    <2>2. CASE StartExchange(n)
      BY <2>2, StartExchangeInv
    <2>3. CASE EvictSession(n)
      <3>1. /\ Done(n, MarkForEviction(Node(n), {}))
            /\ UNCHANGED <<nextId, rx, received>>
        BY <2>3 DEF EvictSession
      <3> QED
        BY <3>1, EvictionInv
    <2>4. CASE InterfaceChange(n)
      <3>1. TypeOK'
        BY <2>4 DEF InterfaceChange, Inv, TypeOK
      <3>2. PoolInv' /\ OnceInv' /\ SessionInv'
        BY <2>4 DEF InterfaceChange, Inv, PoolInv, OnceInv, SessionInv
      <3> QED
        BY <3>1, <3>2 DEF Inv
    <2>5. CASE \E m \in net : \E reaction \in AppReactions(n, m) : Receive(n, m, reaction)
      BY <2>5, ReceiveInv
    <2>6. ASSUME NEW x \in Exchanges,
                 \/ \E flags \in AppFlags : AppSend(n, x, flags)
                 \/ AppRelease(n, x)
                 \/ AppClose(n, x)
                 \/ AckTimeout(n, x)
                 \/ RetransTimeout(n, x)
                 \/ ResponseTimeout(n, x)
          PROVE  Inv'
      BY <2>6, ExchangeStepInv
    <2>7. ASSUME NEW x \in Exchanges, AbortAllOtherCommunicationOnFabric(n, x)
          PROVE  Inv'
      <3>1. /\ Done(n, MarkForEviction(Node(n), {x}))
            /\ UNCHANGED <<nextId, rx, received>>
        BY <2>7 DEF AbortAllOtherCommunicationOnFabric
      <3> QED
        BY <3>1, EvictionInv
    <2> QED
      BY <2>1, <2>2, <2>3, <2>4, <2>5, <2>6, <2>7
  <1>2. CASE UNCHANGED vars
    <2>1. TypeOK'
      BY <1>2 DEF vars, Inv, TypeOK
    <2>2. PoolInv' /\ OnceInv' /\ SessionInv'
      BY <1>2 DEF vars, Inv, PoolInv, OnceInv, SessionInv
    <2> QED
      BY <2>1, <2>2 DEF Inv
  <1> QED
    BY <1>1, <1>2

\* The invariant holds throughout.
LEMMA SpecInv == Spec => []Inv
  BY InitInv, NextInv, PTL DEF Spec

-------------------------------------------------------------------------------
\* Every variable keeps its type: no handler of ReliableMessageMgr, ExchangeContext or
\* ExchangeManager runs a counter over its end or leaves a context half built.
THEOREM MessagingTypeOK == Spec => []TypeOK
  <1>1. Inv => TypeOK
    BY DEF Inv
  <1> QED
    BY <1>1, SpecInv, PTL

\* The reference of ExchangeContext is released once and only after the context was
\* closed, a closed context keeps it only for an announced send, and an open context
\* has a session and somebody who will end it.
THEOREM ExchangeLifetimeHolds == Spec => []ExchangeLifetime
  <1>1. Inv => ExchangeLifetime
    BY NoContextFacts DEF Inv, PoolInv, ExchangeLifetime, Settled, Sound
  <1> QED
    BY <1>1, SpecInv, PTL

\* ReliableMessageMgr::ExecuteActions finds a session for every entry of its table.
THEOREM RetransEntryHasSessionHolds == Spec => []RetransEntryHasSession
  <1>1. Inv => RetransEntryHasSession
    BY NoContextFacts DEF Inv, PoolInv, RetransEntryHasSession, Settled, Sound
  <1> QED
    BY <1>1, SpecInv, PTL

\* SessionManager::SecureUnicastMessageDispatch and ExchangeManager::OnMessageReceived
\* hand a message to the application at most once.
THEOREM AtMostOnceDeliveryHolds == Spec => []AtMostOnceDelivery
  <1>1. Inv => AtMostOnceDelivery
    BY DEF Inv, OnceInv, AtMostOnceDelivery
  <1> QED
    BY <1>1, SpecInv, PTL

-------------------------------------------------------------------------------
(* What an acknowledgment means.                                             *)

\* The counters a node with receive history g and window r may acknowledge: those
\* that arrived and those that dropped out of the window; 0 is no acknowledgment.
KnownAt(g, r) ==
    {c \in Counters : c = 0 \/ c \in g \/ c + WindowSize < r.mMaxCounter}
Known(p) == KnownAt(received[p], rx[p])

\* What the window refuses, a node may acknowledge.
RefusedKnown(g, r) ==
    \A c \in Counters : ~VerifyEncryptedUnicast(r, c) => c \in KnownAt(g, r)

\* Nothing else is waiting to be acknowledged, is acknowledged by a message on the
\* network or in a retransmission table, or counts as acknowledged.
AckInv ==
    /\ \A p \in Nodes, x \in Exchanges : Truthful(ec[p][x], p, Known(p))
    /\ \A m \in net : m.ack \in Known(m.from)
    /\ \A n, p \in Nodes : n # p => \A c \in acked[n] : c # 0 /\ c \in Known(p)
    /\ \A p \in Nodes : RefusedKnown(received[p], rx[p])

\* A window that moves on goes on knowing what it knew, and refuses only what it
\* refused before, what it has just taken, and what dropped out of it.
LEMMA CommitRefuses ==
    ASSUME NEW r \in PeerCounters, r.synced, NEW c \in Counters,
           VerifyEncryptedUnicast(r, c)
    PROVE  LET q == CommitEncryptedUnicast(r, c)
           IN /\ q.mMaxCounter >= r.mMaxCounter
              /\ \A d \in Counters :
                   ~VerifyEncryptedUnicast(q, d) =>
                      \/ d = c
                      \/ ~VerifyEncryptedUnicast(r, d)
                      \/ d + WindowSize < q.mMaxCounter
  <1> DEFINE m == r.mMaxCounter
             q == CommitEncryptedUnicast(r, c)
  <1>1. /\ m \in Nat /\ c \in Nat /\ WindowSize \in Nat
        /\ r.mWindow \subseteq Bits
    BY WindowAssumption DEF PeerCounters, Counters
  <1>2. \/ c > m
        \/ c < m /\ m - c <= WindowSize /\ m - c - 1 \notin r.mWindow
    BY UnicastVerify
  <1>3. q \in PeerCounters /\ q.synced
    BY UnicastCommit
  <1>4. \A d \in Counters : d = m \/ (d < m /\ m - d - 1 \in r.mWindow) =>
                               ~VerifyEncryptedUnicast(r, d)
    <2> SUFFICES ASSUME NEW d \in Counters, d = m \/ (d < m /\ m - d - 1 \in r.mWindow)
                 PROVE  ~VerifyEncryptedUnicast(r, d)
      OBVIOUS
    <2>1. VerifyEncryptedUnicast(r, d) <=>
            \/ d > m
            \/ d < m /\ m - d <= WindowSize /\ m - d - 1 \notin r.mWindow
      BY UnicastVerify
    <2>2. d \in Nat
      BY DEF Counters
    <2> HIDE DEF m
    <2> QED
      BY <1>1, <2>1, <2>2
  <1>5. ASSUME NEW d \in Counters, ~VerifyEncryptedUnicast(q, d)
        PROVE  LET k == q.mMaxCounter
               IN /\ k \in Nat /\ d <= k
                  /\ d = k \/ d + WindowSize < k \/ k - d - 1 \in q.mWindow
    <2>1. LET k == q.mMaxCounter
          IN VerifyEncryptedUnicast(q, d) <=>
               \/ d > k
               \/ d < k /\ k - d <= WindowSize /\ k - d - 1 \notin q.mWindow
      BY <1>3, UnicastVerify
    <2>2. d \in Nat /\ q.mMaxCounter \in Nat
      BY <1>3 DEF PeerCounters, Counters
    <2> HIDE DEF q
    <2> QED
      BY <1>1, <1>5, <2>1, <2>2
  <1>6. CASE c > m
    <2> DEFINE w == IF c - m > WindowSize
                      THEN {}
                      ELSE {b \in Bits : b - (c - m) \in r.mWindow} \cup {c - m - 1}
    <2>1. Minus(c, m) = c - m /\ ClassifyWithoutRollover(r, c) = "FutureCounter"
      BY <1>1, <1>6 DEF Minus, ClassifyWithoutRollover
    <2>2. q = [r EXCEPT !.mMaxCounter = c, !.mWindow = w]
      BY <2>1 DEF CommitEncryptedUnicast, CommitWithPosition
    <2>3. q.mMaxCounter = c /\ q.mWindow = w
      <3> HIDE DEF w, q
      <3> QED
        BY <2>2 DEF PeerCounters
    <2> HIDE DEF q
    <2>4. ASSUME NEW d \in Counters, ~VerifyEncryptedUnicast(q, d), d # c,
                 ~(d + WindowSize < c)
          PROVE  ~VerifyEncryptedUnicast(r, d)
      <3>1. d \in Nat /\ d < c /\ c - d - 1 \in w
        <4> HIDE DEF w
        <4>1. d \in Nat /\ d <= c /\ (d = c \/ d + WindowSize < c \/ c - d - 1 \in w)
          BY <1>5, <2>3, <2>4 DEF Counters
        <4> QED
          BY <1>1, <2>4, <4>1
      <3>2. CASE c - d - 1 = c - m - 1
        BY <1>1, <1>4, <3>1, <3>2
      <3>3. CASE c - d - 1 - (c - m) \in r.mWindow
        <4>1. c - d - 1 - (c - m) = m - d - 1
          BY <1>1, <3>1
        <4>2. m - d - 1 \in Bits
          BY <1>1, <3>3, <4>1
        <4>3. d < m
          BY <1>1, <3>1, <4>2 DEF Bits
        <4> QED
          BY <1>4, <3>3, <4>1, <4>3
      <3> QED
        BY <3>1, <3>2, <3>3
    <2> QED
      BY <1>1, <1>6, <2>3, <2>4 DEF q
  <1>7. CASE c < m /\ m - c <= WindowSize
    <2> DEFINE w == r.mWindow \cup {m - c - 1}
    <2>1. Minus(m, c) = m - c /\ ClassifyWithoutRollover(r, c) = "InWindow"
      BY <1>1, <1>7 DEF Minus, ClassifyWithoutRollover, ClassifyNonFutureCounter
    <2>2. q = [r EXCEPT !.mWindow = w]
      BY <2>1 DEF CommitEncryptedUnicast, CommitWithPosition
    <2>3. q.mMaxCounter = m /\ q.mWindow = w
      <3> HIDE DEF w, q
      <3> QED
        BY <2>2 DEF PeerCounters
    <2> HIDE DEF q
    <2>4. ASSUME NEW d \in Counters, ~VerifyEncryptedUnicast(q, d), d # c,
                 ~(d + WindowSize < m)
          PROVE  ~VerifyEncryptedUnicast(r, d)
      <3>1. d \in Nat /\ d <= m /\ (d = m \/ m - d - 1 \in w)
        BY <1>1, <1>5, <2>3, <2>4 DEF Counters
      <3>2. m - d - 1 # m - c - 1
        BY <1>1, <2>4, <3>1
      <3>3. d = m \/ (d < m /\ m - d - 1 \in r.mWindow)
        BY <1>1, <3>1, <3>2
      <3> QED
        BY <1>4, <3>3
    <2> QED
      BY <1>1, <1>7, <2>3, <2>4 DEF q
  <1> QED
    BY <1>2, <1>6, <1>7

\* So a counter that is taken becomes known, what was known stays known, and what is
\* refused is known.
LEMMA CommitKnows ==
    ASSUME NEW r \in PeerCounters, r.synced, NEW c \in Counters,
           VerifyEncryptedUnicast(r, c), NEW g \in SUBSET Counters, RefusedKnown(g, r)
    PROVE  LET q == CommitEncryptedUnicast(r, c)
               h == g \cup {c}
           IN /\ KnownAt(g, r) \subseteq KnownAt(h, q)
              /\ c \in KnownAt(h, q)
              /\ RefusedKnown(h, q)
  <1> DEFINE q == CommitEncryptedUnicast(r, c)
             h == g \cup {c}
  <1>1. /\ q.mMaxCounter >= r.mMaxCounter
        /\ \A d \in Counters :
             ~VerifyEncryptedUnicast(q, d) =>
                \/ d = c
                \/ ~VerifyEncryptedUnicast(r, d)
                \/ d + WindowSize < q.mMaxCounter
    BY CommitRefuses
  <1>2. q \in PeerCounters
    BY UnicastCommit
  <1> HIDE DEF q
  <1>3. /\ WindowSize \in Nat /\ r.mMaxCounter \in Nat /\ q.mMaxCounter \in Nat
        /\ Counters \subseteq Nat
    BY <1>2, WindowAssumption DEF PeerCounters, Counters
  <1>4. KnownAt(g, r) \subseteq KnownAt(h, q)
    <2> SUFFICES ASSUME NEW d \in KnownAt(g, r)
                 PROVE  d \in KnownAt(h, q)
      OBVIOUS
    <2>1. d \in Counters /\ d \in Nat
      BY <1>3 DEF KnownAt
    <2>2. d + WindowSize < r.mMaxCounter => d + WindowSize < q.mMaxCounter
      BY <1>1, <1>3, <2>1
    <2> QED
      BY <2>1, <2>2 DEF KnownAt
  <1>5. c \in KnownAt(h, q)
    BY DEF KnownAt
  <1>6. RefusedKnown(h, q)
    <2> SUFFICES ASSUME NEW d \in Counters, ~VerifyEncryptedUnicast(q, d)
                 PROVE  d \in KnownAt(h, q)
      BY DEF RefusedKnown
    <2>1. CASE d = c
      BY <1>5, <2>1
    <2>2. CASE ~VerifyEncryptedUnicast(r, d)
      BY <1>4, <2>2 DEF RefusedKnown
    <2>3. CASE d + WindowSize < q.mMaxCounter
      BY <2>3 DEF KnownAt
    <2> QED
      BY <1>1, <2>1, <2>2, <2>3
  <1> QED
    BY <1>4, <1>5, <1>6 DEF q

\* A free slot has nothing to acknowledge.
LEMMA NoContextTruthful ==
    ASSUME NEW n, NEW G, 0 \in G
    PROVE  Truthful(NoContext, n, G)
  <1>1. NoContext.pendingPeerAck = 0
    BY DEF NoContext, NewContext
  <1> QED
    BY <1>1, NoContextFacts DEF Truthful

\* A handler starts truthful.
LEMMA NodeTruthful ==
    ASSUME Inv, AckInv, NEW n \in Nodes, NEW G, Known(n) \subseteq G
    PROVE  /\ TruthfulNode(Node(n), G)
           /\ Node(n).node = n /\ Node(n).acked = acked[n]
  <1>1. /\ Node(n) \in NodeStates /\ Node(n).ec = ec[n] /\ Node(n).node = n
    BY NodeFacts DEF Inv
  <1>2. Node(n).sent = {} /\ Node(n).acked = acked[n]
    BY DEF Node
  <1>3. 0 \in G
    BY WindowAssumption DEF Known, KnownAt, Counters
  <1>4. \A x \in Exchanges : Truthful(ec[n][x], n, G)
    BY DEF AckInv, Truthful
  <1> QED
    BY <1>1, <1>2, <1>3, <1>4 DEF TruthfulNode

\* What a truthful handler leaves behind, when what is known only grows and the acks
\* it took in are for counters the others know.
LEMMA DoneTruthful ==
    ASSUME Inv, AckInv, NEW n \in Nodes, NEW s, Done(n, s),
           TruthfulNode(s, Known(n)'), s.node = n,
           \A p \in Nodes : Known(p) \subseteq Known(p)',
           \A c \in s.acked : c \in acked[n] \/ \A p \in Nodes : p # n => c # 0 /\ c \in Known(p),
           \A p \in Nodes : RefusedKnown(received[p], rx[p])'
    PROVE  AckInv'
  <1> DEFINE t == ReleaseContexts(s.ec)
  <1>1. ASSUME NEW x \in Exchanges
        PROVE  Truthful(t[x], n, Known(n)')
    <2>1. t[x] \in {NoContext, s.ec[x]}
      BY DEF ReleaseContexts
    <2>2. 0 \in Known(n)' /\ Truthful(s.ec[x], n, Known(n)')
      BY DEF TruthfulNode
    <2> HIDE DEF t
    <2> QED
      BY <2>1, <2>2, NoContextTruthful
  <1>2. /\ ec' = [ec EXCEPT ![n] = t] /\ net' = net \cup s.sent
        /\ acked' = [acked EXCEPT ![n] = s.acked]
    BY DEF Done
  <1> HIDE DEF t
  <1>3. ASSUME NEW p \in Nodes, NEW x \in Exchanges
        PROVE  Truthful(ec[p][x], p, Known(p))'
    <2>1. CASE p = n
      <3>1. ec'[p][x] = t[x]
        BY <1>2, <2>1 DEF Inv, TypeOK
      <3> QED
        BY <1>1, <2>1, <3>1 DEF Truthful
    <2>2. CASE p # n
      <3>1. ec'[p][x] = ec[p][x]
        BY <1>2, <2>2 DEF Inv, TypeOK
      <3>2. Truthful(ec[p][x], p, Known(p))
        BY DEF AckInv
      <3> QED
        BY <3>1, <3>2 DEF Truthful
    <2> QED
      BY <2>1, <2>2
  <1>4. ASSUME NEW m \in net'
        PROVE  m.ack \in Known(m.from)'
    <2>1. CASE m \in net
      <3>1. m.from \in Nodes
        BY <2>1 DEF Inv, TypeOK, Messages
      <3>2. m.ack \in Known(m.from)
        BY <2>1 DEF AckInv
      <3> QED
        BY <3>1, <3>2
    <2>2. CASE m \in s.sent
      BY <2>2 DEF TruthfulNode
    <2> QED
      BY <1>2, <2>1, <2>2
  <1>5. ASSUME NEW k \in Nodes, NEW p \in Nodes, k # p, NEW c \in acked'[k]
        PROVE  c # 0 /\ c \in Known(p)'
    <2>1. c # 0 /\ c \in Known(p)
      <3>1. CASE k = n
        <4>1. c \in s.acked
          BY <1>2, <1>5, <3>1 DEF Inv, TypeOK
        <4> QED
          BY <1>5, <3>1, <4>1 DEF AckInv
      <3>2. CASE k # n
        <4>1. c \in acked[k]
          BY <1>2, <1>5, <3>2 DEF Inv, TypeOK
        <4> QED
          BY <1>5, <4>1 DEF AckInv
      <3> QED
        BY <3>1, <3>2
    <2> QED
      BY <2>1
  <1> QED
    BY <1>3, <1>4, <1>5 DEF AckInv

\* Between two messages nothing becomes known.
LEMMA QuietKnows ==
    ASSUME UNCHANGED <<rx, received>>, AckInv
    PROVE  /\ \A p \in Nodes : Known(p)' = Known(p)
           /\ \A p \in Nodes : RefusedKnown(received[p], rx[p])'
  BY DEF AckInv, Known, KnownAt, RefusedKnown

\* A faithful handler between two messages.
LEMMA FaithfulHandler ==
    ASSUME Inv, AckInv, NEW n \in Nodes, NEW s, Done(n, s),
           Faithful(Node(n), s, Known(n)), UNCHANGED <<rx, received>>
    PROVE  AckInv'
  <1>1. /\ \A p \in Nodes : Known(p)' = Known(p)
        /\ \A p \in Nodes : RefusedKnown(received[p], rx[p])'
    BY QuietKnows
  <1>2. Node(n).node = n /\ Node(n).acked = acked[n]
    BY NodeTruthful
  <1>3. TruthfulNode(s, Known(n)') /\ s.node = n /\ s.acked = acked[n]
    BY <1>1, <1>2 DEF Faithful
  <1> QED
    BY <1>1, <1>3, DoneTruthful

\* A message arrives: its counter becomes known, and the ack it carries is one its
\* sender may give.
LEMMA ReceiveAcks ==
    ASSUME Inv, AckInv, NEW n \in Nodes, NEW m \in net,
           NEW reaction \in AppReactions(n, m), Receive(n, m, reaction)
    PROVE  AckInv'
  <1> DEFINE dup == ~VerifyEncryptedUnicast(rx[n], m.ctr)
             k == m.ctr
             r == rx[n]
             G == Known(n)'
             A == {m.ack} \ {0}
             s == MarkActiveRx(Node(n))
             t == IF dup /\ ~m.needsAck THEN s ELSE DispatchToExchange(s, m, dup, reaction)
  <1>1. /\ rx' = [rx EXCEPT ![n] = IF dup THEN r ELSE CommitEncryptedUnicast(r, k)]
        /\ received' = [received EXCEPT ![n] = IF dup THEN received[n]
                                                     ELSE received[n] \cup {k}]
        /\ Done(n, t) /\ m.from # n
    BY DEF Receive
  <1>2. m \in Messages /\ reaction \in Reactions /\ k \in Counters /\ dup \in BOOLEAN
    BY DEF Inv, TypeOK, Messages, AppReactions
  <1>3. /\ r \in PeerCounters /\ r.synced /\ received[n] \in SUBSET Counters
        /\ RefusedKnown(received[n], r)
    BY DEF Inv, TypeOK, OnceInv, AckInv
  <1>4. /\ Known(n) \subseteq G /\ k \in G
        /\ RefusedKnown(received[n], rx[n])'
    <2>1. CASE dup
      <3>1. rx'[n] = r /\ received'[n] = received[n]
        BY <1>1, <2>1 DEF Inv, TypeOK
      <3>2. G = Known(n)
        BY <3>1 DEF Known, KnownAt
      <3>3. k \in Known(n)
        BY <1>2, <1>3, <2>1 DEF RefusedKnown, Known
      <3> QED
        BY <1>3, <3>1, <3>2, <3>3 DEF RefusedKnown, KnownAt
    <2>2. CASE ~dup
      <3> DEFINE q == CommitEncryptedUnicast(r, k)
                 h == received[n] \cup {k}
      <3>1. rx'[n] = q /\ received'[n] = h
        BY <1>1, <2>2 DEF Inv, TypeOK
      <3>2. /\ KnownAt(received[n], r) \subseteq KnownAt(h, q) /\ k \in KnownAt(h, q)
            /\ RefusedKnown(h, q)
        BY <1>2, <1>3, <2>2, CommitKnows
      <3> HIDE DEF q, h
      <3>3. G = KnownAt(h, q)
        BY <3>1 DEF Known, KnownAt
      <3>4. RefusedKnown(received[n], rx[n])'
        BY <3>1, <3>2 DEF RefusedKnown, KnownAt
      <3> QED
        BY <3>2, <3>3, <3>4 DEF Known
    <2> QED
      BY <2>1, <2>2
  <1>5. ASSUME NEW p \in Nodes, p # n
        PROVE  Known(p)' = Known(p) /\ RefusedKnown(received[p], rx[p])'
    <2>1. rx'[p] = rx[p] /\ received'[p] = received[p]
      BY <1>1, <1>5 DEF Inv, TypeOK
    <2> QED
      BY <2>1 DEF AckInv, Known, KnownAt, RefusedKnown
  <1> HIDE DEF dup, G, A
  <1>6. TruthfulNode(Node(n), G) /\ Node(n).node = n /\ Node(n).acked = acked[n]
    BY <1>4, NodeTruthful
  <1>7. Faithful(Node(n), s, G) /\ TruthfulNode(s, G)
    BY <1>6, FaithfulMarks DEF Faithful
  <1> HIDE DEF s
  <1>8. TakesAcks(s, t, G, A)
    <2>1. TakesAcks(s, DispatchToExchange(s, m, dup, reaction), G, A)
      BY <1>2, <1>4, <1>7, DispatchToExchangeTakes DEF A
    <2>2. TakesAcks(s, s, G, A)
      BY <1>7, FaithfulRefl, TakesAcksTrans
    <2> QED
      BY <2>1, <2>2
  <1> HIDE DEF t
  <1>9. TakesAcks(Node(n), t, G, A)
    BY <1>7, <1>8, TakesAcksTrans
  <1>10. \A p \in Nodes : p # n => \A c \in A : c # 0 /\ c \in Known(p)
    <2>1. m.from \in Nodes
      BY <1>2 DEF Messages
    <2>2. \A p \in Nodes : p # n => p = m.from
      BY <1>1, <2>1, TwoEnds
    <2>3. m.ack \in Known(m.from)
      BY DEF AckInv
    <2> QED
      BY <2>2, <2>3 DEF A
  <1>11. /\ TruthfulNode(t, G) /\ t.node = n
         /\ \A c \in t.acked :
              c \in acked[n] \/ \A p \in Nodes : p # n => c # 0 /\ c \in Known(p)
    BY <1>6, <1>9, <1>10 DEF TakesAcks
  <1>12. /\ \A p \in Nodes : Known(p) \subseteq Known(p)'
         /\ \A p \in Nodes : RefusedKnown(received[p], rx[p])'
    BY <1>4, <1>5 DEF G
  <1> QED
    BY <1>1, <1>11, <1>12, DoneTruthful DEF G

\* Initially nothing is acknowledged.
LEMMA InitAcks == Init => AckInv
  <1> SUFFICES ASSUME Init
               PROVE  AckInv
    OBVIOUS
  <1>1. Inv
    BY InitInv
  <1>2. \A p \in Nodes : 0 \in Known(p)
    BY WindowAssumption DEF Known, KnownAt, Counters
  <1>3. \A p \in Nodes, x \in Exchanges : ec[p][x] = NoContext
    BY DEF Init
  <1>4. \A p \in Nodes, x \in Exchanges : Truthful(ec[p][x], p, Known(p))
    BY <1>2, <1>3, NoContextTruthful
  <1>5. net = {} /\ \A n \in Nodes : acked[n] = {}
    BY DEF Init
  <1>6. ASSUME NEW p \in Nodes
        PROVE  RefusedKnown(received[p], rx[p])
    <2>1. SUFFICES ASSUME NEW c \in Counters, ~VerifyEncryptedUnicast(rx[p], c)
                   PROVE  c \in KnownAt(received[p], rx[p])
      BY DEF RefusedKnown
    <2>2. rx[p] \in PeerCounters /\ rx[p].synced /\ rx[p].mMaxCounter = 0
      BY <1>1 DEF Init, Inv, TypeOK, SetCounter, OnceInv
    <2>3. ~(c > 0) /\ c \in Nat
      BY <2>1, <2>2, UnicastVerify DEF Counters
    <2> QED
      BY <2>3 DEF KnownAt
  <1> QED
    BY <1>4, <1>5, <1>6 DEF AckInv

\* Every step keeps it.
LEMMA NextAcks == Inv /\ AckInv /\ [Next]_vars => AckInv'
  <1> SUFFICES ASSUME Inv, AckInv, [Next]_vars
               PROVE  AckInv'
    OBVIOUS
  <1>1. ASSUME NEW n \in Nodes, StartExchange(n)
        PROVE  AckInv'
    <2> DEFINE x == [initiator |-> n, id |-> nextId[n]]
               yes == TRUE
               new == NewContext(yes)
               s == WithContext(Node(n), x, new)
    <2>1. /\ n \in Initiators /\ nextId[n] <= MaxExchanges /\ Done(n, s)
          /\ UNCHANGED <<rx, received>>
      BY <1>1 DEF StartExchange, WithContext
    <2>2. nextId[n] \in 1 .. MaxExchanges
      BY <2>1, ExchangeAssumption DEF Inv, TypeOK
    <2>3. x \in Exchanges
      BY <2>1, <2>2 DEF Exchanges
    <2>4. TruthfulNode(Node(n), Known(n)) /\ Node(n).node = n
      BY NodeTruthful
    <2>5. new \in Contexts /\ Truthful(new, n, Known(n))
      <3>1. yes \in BOOLEAN /\ new.pendingPeerAck = 0 /\ new.entry = {}
        BY DEF NewContext
      <3> HIDE DEF yes
      <3> QED
        BY <2>4, <3>1, NewContextFacts DEF Truthful, TruthfulNode
    <2> HIDE DEF x, new
    <2>6. Faithful(Node(n), s, Known(n))
      BY <2>3, <2>4, <2>5, FaithfulContext
    <2> HIDE DEF s
    <2> QED
      BY <2>1, <2>6, FaithfulHandler
  <1>2. ASSUME NEW n \in Nodes, NEW ignoring,
               Done(n, MarkForEviction(Node(n), ignoring)), UNCHANGED <<rx, received>>
        PROVE  AckInv'
    <2>1. Faithful(Node(n), MarkForEviction(Node(n), ignoring), Known(n))
      BY NodeTruthful, MarkForEvictionFaithful
    <2> QED
      BY <1>2, <2>1, FaithfulHandler
  <1>3. ASSUME NEW n \in Nodes, InterfaceChange(n)
        PROVE  AckInv'
    BY <1>3 DEF InterfaceChange, AckInv, Known, KnownAt, RefusedKnown, Truthful
  <1>4. ASSUME NEW n \in Nodes, NEW x \in Exchanges,
               \/ \E flags \in AppFlags : AppSend(n, x, flags)
               \/ AppRelease(n, x)
               \/ AppClose(n, x)
               \/ AckTimeout(n, x)
               \/ RetransTimeout(n, x)
               \/ ResponseTimeout(n, x)
        PROVE  AckInv'
    <2> DEFINE s == Node(n)
               no == FALSE
    <2>1. /\ UNCHANGED <<rx, received>>
          /\ \/ \E flags \in AppFlags : Done(n, SendMessage(s, x, flags))
             \/ Done(n, Abort(s, x))
             \/ Done(n, Close(s, x))
             \/ Done(n, SendStandaloneAckMessage(s, x))
             \/ Done(n, Retransmit(s, x))
             \/ Done(n, NotifyResponseTimeout(s, x, TRUE))
      BY <1>4
      DEF AppSend, AppRelease, AppClose, AckTimeout, RetransTimeout, ResponseTimeout
    <2>2. TruthfulNode(s, Known(n)) /\ no \in BOOLEAN
      BY NodeTruthful
    <2> HIDE DEF s, no
    <2>3. /\ \A flags \in AppFlags : Faithful(s, SendMessage(s, x, flags), Known(n))
          /\ Faithful(s, Abort(s, x), Known(n))
          /\ Faithful(s, Close(s, x), Known(n))
          /\ Faithful(s, SendStandaloneAckMessage(s, x), Known(n))
          /\ Faithful(s, Retransmit(s, x), Known(n))
          /\ Faithful(s, NotifyResponseTimeout(s, x, TRUE), Known(n))
      <3>1. \A flags \in AppFlags : flags \in SendFlags
        BY ScenarioAssumption
      <3> QED
        BY <2>2, <3>1, SendMessageFaithful, ClosingFaithful, AcksFaithful,
           RetransmitFaithful, TimeoutFaithful
    <2> QED
      BY <2>1, <2>3, FaithfulHandler DEF s
  <1>5. CASE Next
    <2>1. PICK n \in Nodes :
            \/ StartExchange(n)
            \/ EvictSession(n)
            \/ InterfaceChange(n)
            \/ \E m \in net : \E reaction \in AppReactions(n, m) : Receive(n, m, reaction)
            \/ \E x \in Exchanges :
                 \/ \E flags \in AppFlags : AppSend(n, x, flags)
                 \/ AppRelease(n, x)
                 \/ AppClose(n, x)
                 \/ AckTimeout(n, x)
                 \/ RetransTimeout(n, x)
                 \/ ResponseTimeout(n, x)
                 \/ AbortAllOtherCommunicationOnFabric(n, x)
      BY <1>5 DEF Next
    <2>2. CASE EvictSession(n)
      <3>1. Done(n, MarkForEviction(Node(n), {})) /\ UNCHANGED <<rx, received>>
        BY <2>2 DEF EvictSession
      <3> QED
        BY <1>2, <3>1
    <2>3. ASSUME NEW x \in Exchanges, AbortAllOtherCommunicationOnFabric(n, x)
          PROVE  AckInv'
      <3>1. Done(n, MarkForEviction(Node(n), {x})) /\ UNCHANGED <<rx, received>>
        BY <2>3 DEF AbortAllOtherCommunicationOnFabric
      <3> QED
        BY <1>2, <3>1
    <2> QED
      BY <1>1, <1>3, <1>4, <2>1, <2>2, <2>3, ReceiveAcks
  <1>6. CASE UNCHANGED vars
    BY <1>6 DEF vars, AckInv, Known, KnownAt, RefusedKnown, Truthful
  <1> QED
    BY <1>5, <1>6

\* An acknowledgment that HandleRcvdAck takes in is for a message the peer has
\* received, or for one that PeerMessageCounter can no longer tell from a duplicate
\* because a counter more than the window above it came first.
THEOREM AckMeansReceivedHolds == Spec => []AckMeansReceived
  <1>1. Inv /\ AckInv => AckMeansReceived
    BY DEF AckInv, Known, KnownAt, AckMeansReceived
  <1> QED
    BY <1>1, InitInv, NextInv, InitAcks, NextAcks, PTL DEF Spec

-------------------------------------------------------------------------------
\* A context on which a message is announced, between two handlers.
LEMMA AnnouncedFacts ==
    ASSUME Inv, NEW n \in Nodes, NEW x \in Exchanges, ec[n][x].live, ec[n][x].willSend
    PROVE  /\ Node(n) \in NodeStates /\ Node(n).ec = ec[n]
           /\ Announced(ec[n][x]) /\ Settled(ec[n][x]) /\ ec[n][x].entry = {}
  <1>1. Node(n) \in NodeStates /\ Node(n).ec = ec[n]
    BY NodeFacts DEF Inv
  <1> QED
    BY <1>1, NoContextFacts DEF Inv, PoolInv, Settled, Sound, Announced

\* The end of a handler does not free it.
LEMMA DoneKeeps ==
    ASSUME Inv, NEW n \in Nodes, NEW x \in Exchanges, NEW s, Done(n, s),
           Announced(s.ec[x])
    PROVE  ec'[n][x].live
  <1>1. ec'[n][x] = ReleaseContexts(s.ec)[x]
    BY DEF Inv, TypeOK, Done
  <1>2. ReleaseContexts(s.ec)[x] = s.ec[x]
    BY DEF ReleaseContexts, Announced
  <1> QED
    BY <1>1, <1>2 DEF Announced

\* A handler of another node leaves it alone.
LEMMA DoneElsewhere ==
    ASSUME Inv, NEW n \in Nodes, NEW k \in Nodes, k # n, NEW s, Done(k, s)
    PROVE  ec'[n] = ec[n]
  BY DEF Inv, TypeOK, Done

\* A message that the application does not answer at once leaves it alone.
LEMMA ReceiveKeeps ==
    ASSUME Inv, NEW n \in Nodes, NEW x \in Exchanges, ec[n][x].live, ec[n][x].willSend,
           NEW m \in net, NEW reaction \in AppReactions(n, m), Receive(n, m, reaction),
           m.x # x \/ reaction.kind # "SendMessage"
    PROVE  ec'[n][x].live
  <1> DEFINE dup == ~VerifyEncryptedUnicast(rx[n], m.ctr)
             s == MarkActiveRx(Node(n))
             t == IF dup /\ ~m.needsAck THEN s ELSE DispatchToExchange(s, m, dup, reaction)
  <1>1. Done(n, t)
    BY DEF Receive
  <1>2. m \in Messages /\ reaction \in Reactions /\ dup \in BOOLEAN
    BY DEF Inv, TypeOK, AppReactions
  <1>3. Node(n) \in NodeStates /\ Ready(Node(n)) /\ Anchored(Node(n)) /\ Node(n).ec = ec[n]
    BY NodeFacts DEF Inv
  <1>4. s \in NodeStates /\ Ready(s) /\ Anchored(s) /\ s.ec = ec[n]
    <2>1. Quiet(Node(n), s, m.x) /\ s.ec = Node(n).ec
      BY <1>3, MarkFacts
    <2> HIDE DEF s
    <2> QED
      BY <1>3, <2>1 DEF Ready, Anchored, Quiet, Local, Evicted
  <1>5. Announced(s.ec[x])
    BY <1>4, AnnouncedFacts
  <1> HIDE DEF s, dup
  <1>6. LET d == DispatchToExchange(s, m, dup, reaction)
        IN /\ \A y \in Exchanges : y # m.x => d.ec[y] = s.ec[y]
           /\ StaysAnnounced(s.ec[m.x], d.ec[m.x], reaction)
    BY <1>2, <1>4, DispatchToExchangeFacts
  <1>7. Announced(t.ec[x])
    <2>1. CASE dup /\ ~m.needsAck
      BY <1>5, <2>1
    <2>2. CASE ~(dup /\ ~m.needsAck)
      <3>1. t = DispatchToExchange(s, m, dup, reaction)
        BY <2>2
      <3> HIDE DEF t
      <3>2. CASE m.x # x
        BY <1>5, <1>6, <3>1, <3>2
      <3>3. CASE m.x = x /\ reaction.kind # "SendMessage"
        BY <1>5, <1>6, <3>1, <3>3 DEF StaysAnnounced
      <3> QED
        BY <3>2, <3>3
    <2> QED
      BY <2>1, <2>2
  <1> HIDE DEF t
  <1> QED
    BY <1>1, <1>7, DoneKeeps

\* A handler of another exchange leaves it alone.
LEMMA OtherExchangeKeeps ==
    ASSUME Inv, NEW n \in Nodes, NEW x \in Exchanges, ec[n][x].live, ec[n][x].willSend,
           NEW y \in Exchanges, y # x,
           \/ \E flags \in AppFlags : AppSend(n, y, flags)
           \/ AppRelease(n, y)
           \/ AppClose(n, y)
           \/ AckTimeout(n, y)
           \/ RetransTimeout(n, y)
           \/ ResponseTimeout(n, y)
    PROVE  ec'[n][x].live
  <1> DEFINE s == Node(n)
             c == ec[n][y]
  <1>1. c # NoContext
    BY NoContextFacts
    DEF AppSend, AppRelease, AppClose, AckTimeout, RetransTimeout, ResponseTimeout
  <1>2. s \in NodeStates /\ Settled(s.ec[y]) /\ Sound(s.ec[y]) /\ s.ec = ec[n]
    BY <1>1, UsedIsSettled, NodeFacts DEF Inv
  <1>3. Announced(s.ec[x])
    BY <1>2, AnnouncedFacts
  <1>4. \/ \E flags \in AppFlags : Done(n, SendMessage(s, y, flags))
        \/ s.ec[y].refs = 1 /\ Done(n, Abort(s, y))
        \/ ~s.ec[y].closed /\ Done(n, Close(s, y))
        \/ Done(n, SendStandaloneAckMessage(s, y))
        \/ Done(n, Retransmit(s, y))
        \/ Done(n, NotifyResponseTimeout(s, y, TRUE))
    BY <1>2
    DEF AppSend, AppRelease, AppClose, AckTimeout, RetransTimeout, ResponseTimeout
  <1> HIDE DEF s, c
  <1>5. /\ \A flags \in AppFlags : Local(s, SendMessage(s, y, flags), y)
        /\ s.ec[y].refs = 1 => Local(s, Abort(s, y), y)
        /\ ~s.ec[y].closed => Local(s, Close(s, y), y)
        /\ Local(s, SendStandaloneAckMessage(s, y), y)
        /\ Local(s, Retransmit(s, y), y)
        /\ Local(s, NotifyResponseTimeout(s, y, TRUE), y)
    <2>1. \A flags \in AppFlags : flags \in SendFlags
      BY ScenarioAssumption
    <2>2. \A flags \in AppFlags : Local(s, SendMessage(s, y, flags), y)
      BY <1>2, <2>1, SendMessageFacts
    <2>3. s.ec[y].refs = 1 => Local(s, Abort(s, y), y)
      BY <1>2, AbortFacts
    <2>4. ~s.ec[y].closed => Local(s, Close(s, y), y)
      BY <1>2, CloseFacts DEF Sound
    <2>5. Local(s, SendStandaloneAckMessage(s, y), y)
      BY <1>2, SendStandaloneAckMessageQuiet DEF Quiet
    <2> QED
      BY <1>2, <2>2, <2>3, <2>4, <2>5, RetransmitFacts, NotifyResponseTimeoutFacts
  <1>6. PICK t : Local(s, t, y) /\ Done(n, t)
    BY <1>4, <1>5
  <1>7. Announced(t.ec[x])
    BY <1>3, <1>6 DEF Local
  <1> QED
    BY <1>6, <1>7, DoneKeeps

\* Its own timers leave it alone: nothing is there to be sent again, an ack changes
\* nothing, and the response timer knows of the announced message.
LEMMA TimersKeep ==
    ASSUME Inv, NEW n \in Nodes, NEW x \in Exchanges, ec[n][x].live, ec[n][x].willSend,
           AckTimeout(n, x) \/ RetransTimeout(n, x) \/ ResponseTimeout(n, x)
    PROVE  ec'[n][x].live
  <1> DEFINE s == Node(n)
  <1>1. /\ s \in NodeStates /\ Announced(s.ec[x]) /\ Sound(s.ec[x])
        /\ s.ec = ec[n] /\ ec[n][x].entry = {}
    BY AnnouncedFacts DEF Settled
  <1>2. \/ Done(n, SendStandaloneAckMessage(s, x))
        \/ Done(n, NotifyResponseTimeout(s, x, TRUE))
    BY <1>1 DEF AckTimeout, RetransTimeout, ResponseTimeout
  <1> HIDE DEF s
  <1>3. Announced(SendStandaloneAckMessage(s, x).ec[x])
    BY <1>1, SendStandaloneAckMessageQuiet DEF Quiet, SameLife, Announced
  <1>4. Announced(NotifyResponseTimeout(s, x, TRUE).ec[x])
    BY <1>1, NotifyResponseTimeoutFacts
  <1> QED
    BY <1>2, <1>3, <1>4, DoneKeeps

\* A new exchange takes a slot of its own or a free one.
LEMMA StartExchangeKeeps ==
    ASSUME Inv, NEW n \in Nodes, NEW x \in Exchanges, ec[n][x].live, ec[n][x].willSend,
           StartExchange(n)
    PROVE  ec'[n][x].live
  <1> DEFINE y == [initiator |-> n, id |-> nextId[n]]
             yes == TRUE
             new == NewContext(yes)
             s == WithContext(Node(n), y, new)
  <1>1. /\ Done(n, s)
    BY DEF StartExchange, WithContext
  <1>2. /\ Node(n) \in NodeStates /\ Node(n).ec = ec[n] /\ Announced(ec[n][x])
    BY AnnouncedFacts
  <1>3. Announced(new)
    BY DEF NewContext, Announced
  <1> HIDE DEF y, yes, new
  <1>4. Announced(s.ec[x])
    <2>1. s.ec[x] = new \/ s.ec[x] = ec[n][x]
      BY <1>2 DEF WithContext, NodeStates
    <2> HIDE DEF s
    <2> QED
      BY <1>2, <1>3, <2>1
  <1> HIDE DEF s
  <1> QED
    BY <1>1, <1>4, DoneKeeps

\* What frees a context with an announced message, in any step.
LEMMA AnnouncedStays ==
    ASSUME Inv, Next, NEW n \in Nodes, NEW x \in Exchanges, ec[n][x].live,
           ec[n][x].willSend, ~ec'[n][x].live
    PROVE  \/ \E flags \in AppFlags : AppSend(n, x, flags)
           \/ AppRelease(n, x)
           \/ AppClose(n, x)
           \/ \E m \in net : \E reaction \in AppReactions(n, m) :
                 /\ m.x = x /\ reaction.kind = "SendMessage"
                 /\ Receive(n, m, reaction)
  <1>1. PICK k \in Nodes :
          \/ StartExchange(k)
          \/ EvictSession(k)
          \/ InterfaceChange(k)
          \/ \E m \in net : \E reaction \in AppReactions(k, m) : Receive(k, m, reaction)
          \/ \E y \in Exchanges :
               \/ \E flags \in AppFlags : AppSend(k, y, flags)
               \/ AppRelease(k, y)
               \/ AppClose(k, y)
               \/ AckTimeout(k, y)
               \/ RetransTimeout(k, y)
               \/ ResponseTimeout(k, y)
               \/ AbortAllOtherCommunicationOnFabric(k, y)
    BY DEF Next
  <1>2. k = n
    <2>1. (\E s : Done(k, s)) \/ ec' = ec
      BY <1>1 DEF StartExchange, EvictSession, InterfaceChange, Receive, AppSend, AppRelease,
                  AppClose, AckTimeout, RetransTimeout, ResponseTimeout,
                  AbortAllOtherCommunicationOnFabric
    <2> QED
      BY <2>1, DoneElsewhere
  <1>3. ASSUME NEW ignoring, Done(n, MarkForEviction(Node(n), ignoring))
        PROVE  FALSE
    <2>1. Node(n) \in NodeStates /\ Ready(Node(n)) /\ Node(n).ec = ec[n]
      BY NodeFacts DEF Inv
    <2>2. Announced(Node(n).ec[x])
      BY <2>1, AnnouncedFacts
    <2>3. Announced(MarkForEviction(Node(n), ignoring).ec[x])
      BY <2>1, <2>2, MarkForEvictionFacts
    <2> QED
      BY <1>3, <2>3, DoneKeeps
  <1>4. ~EvictSession(n)
    BY <1>3 DEF EvictSession
  <1>5. \A y \in Exchanges : ~AbortAllOtherCommunicationOnFabric(n, y)
    BY <1>3 DEF AbortAllOtherCommunicationOnFabric
  <1>6. ~InterfaceChange(n)
    BY DEF InterfaceChange
  <1>7. ~StartExchange(n)
    BY StartExchangeKeeps
  <1>8. ~AckTimeout(n, x) /\ ~RetransTimeout(n, x) /\ ~ResponseTimeout(n, x)
    BY TimersKeep
  <1>9. \A y \in Exchanges : y # x =>
          /\ ~\E flags \in AppFlags : AppSend(n, y, flags)
          /\ ~AppRelease(n, y) /\ ~AppClose(n, y)
          /\ ~AckTimeout(n, y) /\ ~RetransTimeout(n, y) /\ ~ResponseTimeout(n, y)
    BY OtherExchangeKeeps
  <1>10. ASSUME NEW m \in net, NEW reaction \in AppReactions(n, m), Receive(n, m, reaction)
         PROVE  m.x = x /\ reaction.kind = "SendMessage"
    BY <1>10, ReceiveKeeps
  <1> QED
    BY <1>1, <1>2, <1>4, <1>5, <1>6, <1>7, <1>8, <1>9, <1>10

\* Neither ExchangeContext::OnSessionReleased nor HandleResponseTimeout, ExecuteActions
\* or HandleMessage frees a context on which WillSendMessage was called.
THEOREM PendingSendKeepsContextHolds == Spec => PendingSendKeepsContext
  <1> DEFINE Keeps == \A n \in Nodes, x \in Exchanges :
               ec[n][x].live /\ ec[n][x].willSend /\ ~ec'[n][x].live =>
                   \/ \E flags \in AppFlags : AppSend(n, x, flags)
                   \/ AppRelease(n, x)
                   \/ AppClose(n, x)
                   \/ \E m \in net : \E reaction \in AppReactions(n, m) :
                         /\ m.x = x /\ reaction.kind = "SendMessage"
                         /\ Receive(n, m, reaction)
  <1>1. Inv /\ [Next]_vars => [Keeps]_vars
    BY AnnouncedStays
  <1>2. [][Keeps]_vars => PendingSendKeepsContext
    BY DEF PendingSendKeepsContext
  <1> HIDE DEF Keeps
  <1> QED
    BY <1>1, <1>2, SpecInv, PTL DEF Spec
-------------------------------------------------------------------------------
(* Whose turn it is.  The right to send an application message on an         *)
(* exchange is with one end at a time: with the application that announced a *)
(* message, or on its way with a message that has not arrived yet.           *)

\* One message on its way or one announcement, not both, and not two.
OneTurn(x) ==
    /\ \A m, k \in net : m.x = x /\ k.x = x /\ Unheard(m) /\ Unheard(k) => m = k
    /\ \A m \in net : m.x = x /\ Unheard(m) => \A n \in Nodes : ~ec[n][x].willSend
    /\ \A n, p \in Nodes : ec[n][x].willSend /\ ec[p][x].willSend => n = p

\* What a node may send again is a message of its own that it wants acknowledged.
WaitsForOwn(x) ==
    \A n \in Nodes : \A e \in ec[n][x].entry :
        /\ e \in net /\ e.from = n /\ e.x = x /\ e.kind = "App" /\ e.needsAck
        /\ e.ctr # 0

\* While a node waits for an ack, that message is the one on its way, or the answer on
\* its way carries the ack, or whoever announced the answer has the ack to send.
AnswerOwed(x) ==
    \A n \in Nodes : \A e \in ec[n][x].entry :
        /\ \A m \in net : m.x = x /\ Unheard(m) =>
              IF m.from = n THEN m = e ELSE m.ack = e.ctr
        /\ \A p \in Nodes : p # n /\ ec[p][x].willSend =>
              Answers(ec[p][x], tx[p], {e.ctr})

\* The exchange has been initiated.
Opened(x) == x.id < nextId[x.initiator]

\* Nobody has spoken on an exchange that is still to be initiated.
Unused(x) ==
    ~Opened(x) =>
        /\ \A m \in net : m.x # x \/ m.kind # "App"
        /\ \A n \in Nodes : ~ec[n][x].willSend

TurnOn(x) == OneTurn(x) /\ WaitsForOwn(x) /\ AnswerOwed(x) /\ Unused(x)

TurnInv ==
    /\ \A x \in Exchanges : TurnOn(x)
    /\ \A m \in net : m.kind = "StandaloneAck" => ~m.needsAck
    /\ AnswerCarriesAck

(* The steps of Conversation, on the values its variables stand for.         *)
Speakers(x) == {n \in Nodes : ec[n][x].willSend}
Underway(x) == {m \in net : m.x = x /\ Unheard(m)}

FadesOn(x) ==
    /\ Opened(x)' <=> Opened(x)
    /\ Speakers(x)' \subseteq Speakers(x)
    /\ Underway(x)' \subseteq Underway(x)

HasTurnOn(n, x) ==
    \/ ~Opened(x) /\ x.initiator = n
    \/ n \in Speakers(x)
    \/ \E m \in Underway(x) : m.from # n

UsesTurn(n, x) ==
    \/ Speakers(x)' \subseteq {n} /\ Underway(x)' = {}
    \/ /\ Speakers(x)' = {}
       /\ \E m \in net' : m.from = n /\ m.x = x /\ Underway(x)' \subseteq {m}

InTurn ==
    \/ \A y \in Exchanges : FadesOn(y)
    \/ \E n \in Nodes, x \in Exchanges :
          /\ HasTurnOn(n, x) /\ Opened(x)' /\ UsesTurn(n, x)
          /\ \A y \in Exchanges \ {x} : FadesOn(y)

\* What the end of a handler leaves of the state the handler ended in.
LEMMA DoneLeaves ==
    ASSUME Inv, NEW n \in Nodes, NEW s, Done(n, s)
    PROVE  /\ \A y \in Exchanges : ec'[n][y] \in {NoContext, s.ec[y]}
           /\ \A p \in Nodes : p # n => ec'[p] = ec[p] /\ tx'[p] = tx[p]
                                        /\ dropped'[p] = dropped[p]
           /\ tx'[n] = s.tx /\ dropped'[n] = s.dropped
           /\ net' = net \cup s.sent
  <1>1. ec'[n] = ReleaseContexts(s.ec)
    BY DEF Done, Inv, TypeOK
  <1>2. \A y \in Exchanges : ReleaseContexts(s.ec)[y] \in {NoContext, s.ec[y]}
    BY DEF ReleaseContexts
  <1> QED
    BY <1>1, <1>2 DEF Done, Inv, TypeOK

\* The state a handler starts in.
LEMMA NodeStarts ==
    ASSUME NEW n
    PROVE  /\ Node(n).node = n /\ Node(n).ec = ec[n] /\ Node(n).tx = tx[n]
           /\ Node(n).sent = {} /\ Node(n).dropped = dropped[n]
           /\ Node(n).session = session[n]
  BY DEF Node

\* An exchange on which nobody speaks.
LEMMA SilentOn ==
    ASSUME Inv, TurnInv, NEW n \in Nodes, NEW s, Done(n, s), NEW y \in Exchanges,
           Calm(Node(n), s), Withdraws(ec[n][y], s.ec[y]),
           \A m \in s.sent : m.x # y \/ m \in net \/ m.kind = "StandaloneAck",
           \A m \in net : Unheard(m)' => Unheard(m),
           Opened(y)' <=> Opened(y)
    PROVE  TurnOn(y)' /\ FadesOn(y)
  <1>1. /\ ec'[n][y] \in {NoContext, s.ec[y]}
        /\ \A p \in Nodes : p # n => ec'[p] = ec[p] /\ tx'[p] = tx[p]
        /\ tx'[n] = s.tx /\ net' = net \cup s.sent
    BY DoneLeaves
  <1>2. TurnOn(y) /\ (tx[n] = MaxCounter => s.tx = MaxCounter)
    BY NodeStarts DEF TurnInv, Calm
  <1>3. \A m \in net' : m.x = y /\ m.kind = "App" => m \in net
    BY <1>1
  <1>4. \A m \in net' : m.x = y /\ Unheard(m)' => m \in net /\ Unheard(m)
    BY <1>3 DEF Unheard
  <1>5. \A p \in Nodes :
          /\ ec'[p][y].entry \subseteq ec[p][y].entry
          /\ ec'[p][y].willSend => ec[p][y].willSend
    BY <1>1, NoContextFacts DEF Withdraws
  <1>6. ASSUME NEW p \in Nodes, NEW E, ec'[p][y].willSend, Answers(ec[p][y], tx[p], E)
        PROVE  Answers(ec'[p][y], tx'[p], E)
    <2>1. CASE p # n
      BY <1>1, <1>6, <2>1
    <2>2. CASE p = n
      <3>1. ec'[p][y] = s.ec[y]
        BY <1>1, <1>6, <2>2, NoContextFacts
      <3> QED
        BY <1>1, <1>2, <1>6, <2>2, <3>1 DEF Answers, Withdraws
    <2> QED
      BY <2>1, <2>2
  <1>7. OneTurn(y)'
    BY <1>2, <1>4, <1>5 DEF TurnOn, OneTurn
  <1>8. WaitsForOwn(y)'
    BY <1>1, <1>2, <1>5 DEF TurnOn, WaitsForOwn
  <1>9. AnswerOwed(y)'
    <2> SUFFICES ASSUME NEW p \in Nodes, NEW e \in ec'[p][y].entry
                 PROVE  /\ \A m \in net' : m.x = y /\ Unheard(m)' =>
                              IF m.from = p THEN m = e ELSE m.ack = e.ctr
                        /\ \A q \in Nodes : q # p /\ ec'[q][y].willSend =>
                              Answers(ec'[q][y], tx'[q], {e.ctr})
      BY DEF AnswerOwed
    <2>1. e \in ec[p][y].entry
      BY <1>5
    <2>2. \A m \in net' : m.x = y /\ Unheard(m)' => IF m.from = p THEN m = e ELSE m.ack = e.ctr
      BY <1>2, <1>4, <2>1 DEF TurnOn, AnswerOwed
    <2>3. ASSUME NEW q \in Nodes, q # p, ec'[q][y].willSend
          PROVE  Answers(ec'[q][y], tx'[q], {e.ctr})
      <3>1. Answers(ec[q][y], tx[q], {e.ctr})
        BY <1>2, <1>5, <2>1, <2>3 DEF TurnOn, AnswerOwed
      <3> QED
        BY <1>6, <2>3, <3>1
    <2> QED
      BY <2>2, <2>3
  <1>10. Unused(y)'
    BY <1>2, <1>3, <1>5 DEF TurnOn, Unused
  <1>11. FadesOn(y)
    BY <1>4, <1>5 DEF FadesOn, Speakers, Underway
  <1> QED
    BY <1>7, <1>8, <1>9, <1>10, <1>11 DEF TurnOn

\* The counters of which the other end of x awaits the ack.
Awaited(n, x) ==
    {c \in Counters : \E p \in Nodes : p # n /\ \E e \in ec[p][x].entry : e.ctr = c}

\* The exchange on which node n has the turn.
LEMMA TurnTaken ==
    ASSUME Inv, TurnInv, NEW n \in Nodes, NEW s, Done(n, s), NEW x \in Exchanges,
           TakesTurn(Node(n), s, x, net, Awaited(n, x)),
           \A m \in net : m.x = x => ~Unheard(m)',
           \A p \in Nodes : p # n => ~ec[p][x].willSend,
           Opened(x)'
    PROVE  TurnOn(x)' /\ UsesTurn(n, x)
  <1> DEFINE E == Awaited(n, x)
  <1>1. /\ ec'[n][x] \in {NoContext, s.ec[x]}
        /\ \A p \in Nodes : p # n => ec'[p] = ec[p] /\ tx'[p] = tx[p]
        /\ tx'[n] = s.tx /\ net' = net \cup s.sent
    BY DoneLeaves
  <1>2. TurnOn(x) /\ Node(n).node = n /\ Node(n).sent = {}
    BY NodeStarts DEF TurnInv
  <1>3. ASSUME NEW p \in Nodes, p # n, NEW e \in ec[p][x].entry
        PROVE  e.ctr \in E
    <2>1. e \in Messages
      BY <1>2, <1>3 DEF TurnOn, WaitsForOwn, Inv, TypeOK
    <2> QED
      BY <1>3, <2>1 DEF Messages, Awaited
  <1> HIDE DEF E
  <1>4. Unused(x)'
    BY DEF Unused
  <1>5. CASE /\ Beside(Node(n), s, x, net) /\ s.ec[x].entry = {}
             /\ s.ec[x].willSend => Answers(s.ec[x], s.tx, E)
    <2>1. \A m \in net' : m.x = x => ~Unheard(m)'
      BY <1>1, <1>2, <1>5 DEF Beside, OutOfTurn, Unheard
    <2>2. /\ ec'[n][x].entry = {}
          /\ ec'[n][x].willSend => Answers(ec'[n][x], tx'[n], E)
      BY <1>1, <1>5, NoContextFacts
    <2>3. OneTurn(x)'
      BY <1>1, <2>1 DEF OneTurn
    <2>4. WaitsForOwn(x)'
      BY <1>1, <1>2, <2>2 DEF TurnOn, WaitsForOwn
    <2>5. AnswerOwed(x)'
      BY <1>1, <1>3, <2>1, <2>2 DEF AnswerOwed, Answers
    <2>6. UsesTurn(n, x)
      BY <1>1, <2>1 DEF UsesTurn, Speakers, Underway
    <2> QED
      BY <1>4, <2>3, <2>4, <2>5, <2>6 DEF TurnOn
  <1>6. CASE Speaks(Node(n), s, x, net, E) /\ ~s.ec[x].willSend
    <2>1. PICK w \in s.sent :
            /\ w.kind = "App" /\ w.from = n /\ w.x = x /\ w.ctr # 0
            /\ \A a \in E : w.ack = a
            /\ \A k \in s.sent : k = w \/ OutOfTurn(k, {}, net)
            /\ \A e \in s.ec[x].entry : e = w /\ e.needsAck
      BY <1>2, <1>6 DEF Speaks
    <2>2. \A m \in net' : m.x = x /\ Unheard(m)' => m = w
      BY <1>1, <2>1 DEF OutOfTurn, Unheard
    <2>3. \A p \in Nodes : ~ec'[p][x].willSend
      BY <1>1, <1>6, NoContextFacts
    <2>4. \A e \in ec'[n][x].entry : e = w /\ e.needsAck
      BY <1>1, <2>1, NoContextFacts
    <2>5. OneTurn(x)'
      BY <2>2, <2>3 DEF OneTurn
    <2>6. WaitsForOwn(x)'
      <3>1. ASSUME NEW p \in Nodes, NEW e \in ec'[p][x].entry
            PROVE  /\ e \in net' /\ e.from = p /\ e.x = x /\ e.kind = "App" /\ e.needsAck
                   /\ e.ctr # 0
        <4>1. CASE p = n
          BY <1>1, <2>1, <2>4, <3>1, <4>1
        <4>2. CASE p # n
          BY <1>1, <1>2, <3>1, <4>2 DEF TurnOn, WaitsForOwn
        <4> QED
          BY <4>1, <4>2
      <3> QED
        BY <3>1 DEF WaitsForOwn
    <2>7. AnswerOwed(x)'
      <3>1. ASSUME NEW p \in Nodes, NEW e \in ec'[p][x].entry, NEW m \in net',
                   m.x = x, Unheard(m)'
            PROVE  IF m.from = p THEN m = e ELSE m.ack = e.ctr
        <4>1. m = w
          BY <2>2, <3>1
        <4>2. CASE p = n
          BY <2>1, <2>4, <3>1, <4>1, <4>2
        <4>3. CASE p # n
          <5>1. e.ctr \in E
            BY <1>1, <1>3, <3>1, <4>3
          <5> QED
            BY <2>1, <4>1, <4>3, <5>1
        <4> QED
          BY <4>2, <4>3
      <3> QED
        BY <2>3, <3>1 DEF AnswerOwed
    <2>8. UsesTurn(n, x)
      <3>1. w \in net' /\ Underway(x)' \subseteq {w} /\ Speakers(x)' = {}
        BY <1>1, <2>2, <2>3 DEF Speakers, Underway
      <3> QED
        BY <2>1, <3>1 DEF UsesTurn
    <2> QED
      BY <1>4, <2>5, <2>6, <2>7, <2>8 DEF TurnOn
  <1> QED
    BY <1>5, <1>6 DEF TakesTurn, E

\* A handler that speaks on no exchange.
LEMMA SilentStep ==
    ASSUME Inv, TurnInv, NEW n \in Nodes, NEW s, Done(n, s), Silent(Node(n), s, net),
           \A m \in net : Unheard(m)' => Unheard(m), UNCHANGED nextId
    PROVE  TurnInv' /\ InTurn
  <1>1. /\ Calm(Node(n), s) /\ \A y \in Exchanges : Withdraws(ec[n][y], s.ec[y])
        /\ \A m \in s.sent : m \in net \/ (m.kind = "StandaloneAck" /\ ~m.needsAck)
    BY NodeStarts DEF Silent, OutOfTurn
  <1>2. \A y \in Exchanges : TurnOn(y)' /\ FadesOn(y)
    <2>1. \A y \in Exchanges : Opened(y)' <=> Opened(y)
      BY DEF Opened
    <2> QED
      BY <1>1, <2>1, SilentOn
  <1>3. /\ net' = net \cup s.sent /\ dropped'[n] = s.dropped
        /\ \A p \in Nodes : p # n => dropped'[p] = dropped[p]
    BY DoneLeaves
  <1>4. s.dropped = dropped[n]
    BY <1>1, NodeStarts DEF Calm
  <1>5. AnswerCarriesAck'
    BY <1>3, <1>4 DEF TurnInv, AnswerCarriesAck
  <1>6. \A m \in net' : m.kind = "StandaloneAck" => ~m.needsAck
    BY <1>1, <1>3 DEF TurnInv
  <1> QED
    BY <1>2, <1>5, <1>6 DEF TurnInv, InTurn

\* A handler that takes the turn on one exchange.
LEMMA TurnStep ==
    ASSUME Inv, TurnInv, NEW n \in Nodes, NEW s, Done(n, s), NEW x \in Exchanges,
           TakesTurn(Node(n), s, x, net, Awaited(n, x)),
           \A m \in net : m.x = x => ~Unheard(m)',
           \A m \in net : Unheard(m)' => Unheard(m),
           \A p \in Nodes : p # n => ~ec[p][x].willSend,
           HasTurnOn(n, x), Opened(x)',
           \A y \in Exchanges : y # x => (Opened(y)' <=> Opened(y))
    PROVE  TurnInv' /\ InTurn
  <1>1. TurnOn(x)' /\ UsesTurn(n, x)
    BY TurnTaken
  <1>2. /\ Calm(Node(n), s)
        /\ \A y \in Exchanges : y # x => Withdraws(ec[n][y], s.ec[y])
        /\ \A m \in s.sent : \/ m \in net
                             \/ m.kind = "StandaloneAck" /\ ~m.needsAck
                             \/ m.kind = "App" /\ m.x = x
    BY NodeStarts DEF TakesTurn, Beside, Speaks, OutOfTurn
  <1>3. ASSUME NEW y \in Exchanges, y # x
        PROVE  TurnOn(y)' /\ FadesOn(y)
    BY <1>2, <1>3, SilentOn
  <1>4. /\ net' = net \cup s.sent /\ dropped'[n] = s.dropped
        /\ \A p \in Nodes : p # n => dropped'[p] = dropped[p]
    BY DoneLeaves
  <1>5. s.dropped = dropped[n]
    BY <1>2, NodeStarts DEF Calm
  <1>6. AnswerCarriesAck'
    BY <1>4, <1>5 DEF TurnInv, AnswerCarriesAck
  <1>7. \A m \in net' : m.kind = "StandaloneAck" => ~m.needsAck
    BY <1>2, <1>4 DEF TurnInv
  <1>8. InTurn
    BY <1>1, <1>3 DEF InTurn
  <1> QED
    BY <1>1, <1>3, <1>6, <1>7, <1>8 DEF TurnInv

\* What has been heard stays heard while the windows stand still.
LEMMA StillHeard ==
    ASSUME UNCHANGED rx
    PROVE  \A m : Unheard(m)' <=> Unheard(m)
  BY DEF Unheard

\* The initiator of a new exchange has the first turn on it.
LEMMA StartExchangeTurn ==
    ASSUME Inv, TurnInv, NEW n \in Nodes, StartExchange(n)
    PROVE  TurnInv' /\ InTurn
  <1> DEFINE yes == TRUE
             new == NewContext(yes)
  <1>1. /\ n \in Initiators /\ nextId[n] <= MaxExchanges
        /\ nextId' = [nextId EXCEPT ![n] = @ + 1] /\ UNCHANGED rx
    BY DEF StartExchange
  <1>2. /\ nextId[n] \in 1 .. MaxExchanges /\ nextId'[n] = nextId[n] + 1
        /\ \A p \in Nodes : p # n => nextId'[p] = nextId[p]
    BY <1>1, ExchangeAssumption DEF Inv, TypeOK
  <1>3. PICK x \in Exchanges :
          x = [initiator |-> n, id |-> nextId[n]] /\ x.initiator = n /\ x.id = nextId[n]
    <2>1. [initiator |-> n, id |-> nextId[n]] \in Exchanges
      BY <1>1, <1>2 DEF Exchanges
    <2> QED
      BY <2>1
  <1> DEFINE s == WithContext(Node(n), x, new)
  <1>3a. Done(n, s)
    BY <1>3 DEF StartExchange, WithContext
  <1>4. Opened(x)' /\ ~Opened(x) /\ HasTurnOn(n, x)
    <2>1. Opened(x)' /\ ~Opened(x)
      BY <1>2, <1>3 DEF Opened
    <2> QED
      BY <1>3, <2>1 DEF HasTurnOn
  <1>5. \A y \in Exchanges : y # x => (Opened(y)' <=> Opened(y))
    <2> SUFFICES ASSUME NEW y \in Exchanges, y # x, y.initiator = n
                 PROVE  Opened(y)' <=> Opened(y)
      BY <1>2, ExchangeAssumption DEF Exchanges, Opened
    <2>1. y.id \in Int /\ y = [initiator |-> y.initiator, id |-> y.id]
      BY DEF Exchanges
    <2>2. y.id # nextId[n]
      BY <1>3, <2>1
    <2> QED
      BY <1>2, <2>1, <2>2 DEF Opened
  <1>6. new \in Contexts /\ new.entry = {}
    <2>1. yes \in BOOLEAN /\ new.entry = {}
      BY DEF NewContext
    <2> HIDE DEF yes
    <2> QED
      BY <2>1, NewContextFacts
  <1> HIDE DEF new
  <1>7. TurnOn(x)
    BY <1>3 DEF TurnInv
  <1>8. /\ \A m \in net : m.x # x \/ m.kind # "App"
        /\ \A p \in Nodes : ~ec[p][x].willSend
    BY <1>4, <1>7 DEF TurnOn, Unused
  <1>9. Awaited(n, x) = {}
    BY <1>7, <1>8 DEF Awaited, TurnOn, WaitsForOwn
  <1>10. TakesTurn(Node(n), s, x, net, Awaited(n, x))
    <2>1. Node(n) \in NodeStates
      BY NodeFacts DEF Inv
    <2>2. Beside(Node(n), s, x, net) /\ s.ec[x] = new
      BY <1>3, <1>6, <2>1, BesideContext, UpdateContext
    <2> QED
      BY <1>6, <1>9, <2>2 DEF TakesTurn, Answers
  <1> HIDE DEF s
  <1>11. /\ \A m \in net : m.x = x => ~Unheard(m)'
         /\ \A m \in net : Unheard(m)' => Unheard(m)
    BY <1>1, <1>8, StillHeard DEF Unheard
  <1> QED
    BY <1>3a, <1>4, <1>5, <1>8, <1>10, <1>11, TurnStep

\* Whoever announced a message has the turn.
LEMMA AppSendTurn ==
    ASSUME Inv, TurnInv, NEW n \in Nodes, NEW x \in Exchanges, NEW flags \in AppFlags,
           AppSend(n, x, flags)
    PROVE  TurnInv' /\ InTurn
  <1> DEFINE s == SendMessage(Node(n), x, flags)
             E == Awaited(n, x)
  <1>1. ec[n][x].willSend /\ Done(n, s) /\ UNCHANGED <<nextId, rx>>
    BY DEF AppSend
  <1>2. flags \in SendFlags
    BY ScenarioAssumption
  <1>3. Node(n) \in NodeStates /\ Node(n).ec = ec[n] /\ Node(n).tx = tx[n]
    BY NodeFacts, NodeStarts DEF Inv
  <1>4. ec[n][x].entry = {}
    BY <1>1, NoContextFacts DEF Inv, PoolInv, Settled, Sound
  <1>5. TurnOn(x)
    BY DEF TurnInv
  <1>6. Answers(ec[n][x], tx[n], E)
    BY <1>1, <1>5 DEF Awaited, TurnOn, AnswerOwed, Answers
  <1>7. TakesTurn(Node(n), s, x, net, E)
    BY <1>2, <1>3, <1>4, <1>6, SendMessageTurn
  <1> HIDE DEF s
  <1>8. /\ \A m \in net : m.x = x => ~Unheard(m)
        /\ \A p \in Nodes : p # n => ~ec[p][x].willSend
    BY <1>1, <1>5 DEF TurnOn, OneTurn
  <1>9. /\ Opened(x)' /\ HasTurnOn(n, x)
        /\ \A y \in Exchanges : Opened(y)' <=> Opened(y)
    BY <1>1, <1>5 DEF TurnOn, Unused, Opened, HasTurnOn, Speakers
  <1>10. /\ \A m \in net : m.x = x => ~Unheard(m)'
         /\ \A m \in net : Unheard(m)' => Unheard(m)
    BY <1>1, <1>8, StillHeard
  <1> QED
    BY <1>1, <1>7, <1>8, <1>9, <1>10, TurnStep

\* What else the application and the timers do on an exchange is silent.
LEMMA ExchangeStepTurn ==
    ASSUME Inv, TurnInv, NEW n \in Nodes, NEW x \in Exchanges,
           \/ AppRelease(n, x)
           \/ AppClose(n, x)
           \/ AckTimeout(n, x)
           \/ RetransTimeout(n, x)
           \/ ResponseTimeout(n, x)
    PROVE  TurnInv' /\ InTurn
  <1> DEFINE s == Node(n)
             no == FALSE
  <1>1. /\ UNCHANGED <<nextId, rx>>
        /\ \/ Done(n, Abort(s, x))
           \/ Done(n, Close(s, x))
           \/ Done(n, SendStandaloneAckMessage(s, x))
           \/ Done(n, Retransmit(s, x))
           \/ Done(n, NotifyResponseTimeout(s, x, TRUE))
    BY DEF AppRelease, AppClose, AckTimeout, RetransTimeout, ResponseTimeout
  <1>2. s \in NodeStates /\ s.ec = ec[n] /\ no \in BOOLEAN
    BY NodeFacts DEF Inv
  <1>3. s.ec[x].entry \subseteq net
    BY <1>2 DEF TurnInv, TurnOn, WaitsForOwn
  <1> HIDE DEF s, no
  <1>4. /\ Silent(s, Abort(s, x), net) /\ Silent(s, Close(s, x), net)
        /\ Silent(s, SendStandaloneAckMessage(s, x), net)
        /\ Silent(s, Retransmit(s, x), net)
        /\ Silent(s, NotifyResponseTimeout(s, x, TRUE), net)
    BY <1>2, <1>3, ClosingSilent, AcksSilent, RetransmitSilent, TimeoutSilent
  <1>5. \A m \in net : Unheard(m)' => Unheard(m)
    BY <1>1, StillHeard
  <1> QED
    BY <1>1, <1>4, <1>5, SilentStep DEF s

\* So is an eviction of the session.
LEMMA EvictionTurn ==
    ASSUME Inv, TurnInv, NEW n \in Nodes, NEW ignoring,
           Done(n, MarkForEviction(Node(n), ignoring)), UNCHANGED <<nextId, rx>>
    PROVE  TurnInv' /\ InTurn
  <1>1. Silent(Node(n), MarkForEviction(Node(n), ignoring), net)
    BY NodeFacts, MarkForEvictionSilent DEF Inv
  <1>2. \A m \in net : Unheard(m)' => Unheard(m)
    BY StillHeard
  <1> QED
    BY <1>1, <1>2, SilentStep

\* A message arrives.  What was heard stays heard; a new application message is heard
\* now, and passes the turn.
LEMMA ReceiveTurn ==
    ASSUME Inv, TurnInv, NEW n \in Nodes, NEW m \in net,
           NEW reaction \in AppReactions(n, m), Receive(n, m, reaction)
    PROVE  TurnInv' /\ InTurn
  <1> DEFINE dup == ~VerifyEncryptedUnicast(rx[n], m.ctr)
             k == m.ctr
             x == m.x
             r == rx[n]
             q == IF dup THEN r ELSE CommitEncryptedUnicast(r, k)
             E == Awaited(n, x)
             s == MarkActiveRx(Node(n))
             u == DispatchToExchange(s, m, dup, reaction)
             t == IF dup /\ ~m.needsAck THEN s ELSE u
  <1>1. /\ rx' = [rx EXCEPT ![n] = q] /\ Done(n, t) /\ m.from # n /\ UNCHANGED nextId
    BY DEF Receive
  <1>2. /\ m \in Messages /\ reaction \in Reactions /\ k \in Counters /\ dup \in BOOLEAN
        /\ x \in Exchanges /\ m.from \in Nodes /\ m.kind \in {"App", "StandaloneAck"}
    BY DEF Inv, TypeOK, Messages, AppReactions
  <1>3. r \in PeerCounters /\ r.synced
    BY DEF Inv, TypeOK, OnceInv
  <1>4. /\ ~VerifyEncryptedUnicast(q, k)
        /\ \A d \in Counters : ~VerifyEncryptedUnicast(r, d) => ~VerifyEncryptedUnicast(q, d)
    <2>1. CASE dup
      <3>1. q = r /\ ~VerifyEncryptedUnicast(r, k)
        BY <2>1
      <3> HIDE DEF q
      <3> QED
        BY <3>1
    <2>2. CASE ~dup
      <3>1. q = CommitEncryptedUnicast(r, k) /\ VerifyEncryptedUnicast(r, k)
        BY <2>2
      <3> HIDE DEF q, r, k
      <3> QED
        BY <1>2, <1>3, <3>1, UnicastCommit
    <2> QED
      BY <2>1, <2>2
  <1>5. rx'[n] = q /\ \A p \in Nodes : p # n => rx'[p] = rx[p]
    BY <1>1 DEF Inv, TypeOK
  <1> HIDE DEF q
  <1>6. \A w \in net : Unheard(w)' => Unheard(w)
    <2>1. \A w \in net : w.ctr \in Counters
      BY DEF Inv, TypeOK, Messages
    <2> QED
      BY <1>4, <1>5, <2>1 DEF Unheard
  <1>7. ~Unheard(m)'
    BY <1>1, <1>2, <1>4, <1>5, TwoEnds DEF Unheard
  <1>8. /\ Node(n) \in NodeStates /\ Ready(Node(n)) /\ Node(n).ec = ec[n]
    BY NodeFacts DEF Inv
  <1>9. Silent(Node(n), s, net) /\ s \in NodeStates /\ s.ec = ec[n]
    BY <1>2, <1>8, SilentMarks, SilentHas, MarkFacts
  <1> HIDE DEF s
  <1>10. Ready(s)
    BY <1>8, <1>9 DEF Ready
  <1>11. TurnOn(x)
    BY <1>2 DEF TurnInv
  <1>12. CASE dup \/ m.kind = "StandaloneAck"
    <2>1. m.kind = "StandaloneAck" => ~m.needsAck
      BY DEF TurnInv
    <2> HIDE DEF dup
    <2>2. Silent(s, u, net)
      BY <1>2, <1>9, <1>10, <1>12, <2>1, DispatchToExchangeTurn
    <2>3. Silent(s, t, net)
      BY <1>9, <2>2, SilentRefl
    <2> HIDE DEF t
    <2>4. Silent(Node(n), t, net)
      BY <1>9, <2>3, SilentTrans
    <2> QED
      BY <1>1, <1>6, <2>4, SilentStep
  <1>13. CASE ~dup /\ m.kind = "App"
    <2>1. t = u
      BY <1>13
    <2>2. Unheard(m)
      BY <1>1, <1>13 DEF Unheard
    <2>3. /\ \A w \in net : w.x = x /\ Unheard(w) => w = m
          /\ \A p \in Nodes : ~ec[p][x].willSend
      BY <1>11, <2>2 DEF TurnOn, OneTurn
    <2>3a. \A p \in Nodes : \A e \in ec[p][x].entry :
            /\ m.from = p => m = e
            /\ m.from # p => m.ack = e.ctr
            /\ e.ctr # 0 /\ e.needsAck
      <3> HIDE DEF E, dup, k, r, t, u
      <3> SUFFICES ASSUME NEW p \in Nodes, NEW e \in ec[p][x].entry
                   PROVE  /\ m.from = p => m = e
                          /\ m.from # p => m.ack = e.ctr
                          /\ e.ctr # 0 /\ e.needsAck
        OBVIOUS
      <3>1. \A w \in net : w.x = x /\ Unheard(w) => IF w.from = p THEN w = e ELSE w.ack = e.ctr
        BY <1>11 DEF TurnOn, AnswerOwed
      <3>2. e.ctr # 0 /\ e.needsAck
        BY <1>11 DEF TurnOn, WaitsForOwn
      <3>3. IF m.from = p THEN m = e ELSE m.ack = e.ctr
        BY <2>2, <3>1
      <3> QED
        BY <3>2, <3>3
    <2>4. \A e \in ec[n][x].entry : e.ctr = m.ack /\ m.ack # 0
      <3> HIDE DEF E, dup, k, r, t, u, x
      <3> QED
        BY <1>1, <2>3a
    <2>5. E \subseteq {k} /\ (E # {} => m.needsAck)
      <3>1. ASSUME NEW p \in Nodes, p # n, NEW e \in ec[p][x].entry
            PROVE  e = m /\ m.needsAck
        <4>1. m.from = p
          BY <1>1, <1>2, <3>1, TwoEnds
        <4> HIDE DEF E, dup, k, r, t, u, x
        <4> QED
          BY <2>3a, <3>1, <4>1
      <3> QED
        BY <3>1 DEF Awaited
    <2> HIDE DEF E, dup
    <2>6. TakesTurn(s, u, x, net, E)
      BY <1>2, <1>9, <1>10, <1>13, <2>3, <2>4, <2>5, DispatchToExchangeTurn
    <2>7. TakesTurn(Node(n), u, x, net, E)
      BY <1>2, <1>9, <2>6, BesideTrans, TakesTurnTrans
    <2> HIDE DEF u, t
    <2>8. \A w \in net : w.x = x => ~Unheard(w)'
      BY <1>6, <1>7, <2>3
    <2>9. Opened(x)' /\ \A y \in Exchanges : Opened(y)' <=> Opened(y)
      BY <1>1, <1>11, <1>13 DEF TurnOn, Unused, Opened
    <2>10. HasTurnOn(n, x)
      BY <1>1, <2>2 DEF HasTurnOn, Underway
    <2> QED
      BY <1>1, <1>2, <1>6, <2>1, <2>3, <2>7, <2>8, <2>9, <2>10, TurnStep DEF E
  <1> QED
    BY <1>2, <1>12, <1>13

\* Initially nobody has spoken.
LEMMA InitTurn == Init => TurnInv
  <1> SUFFICES ASSUME Init
               PROVE  TurnInv
    OBVIOUS
  <1>1. /\ \A n \in Nodes, x \in Exchanges : ec[n][x] = NoContext
        /\ net = {} /\ \A n \in Nodes : dropped[n] = {}
    BY DEF Init
  <1> QED
    BY <1>1, NoContextFacts
    DEF TurnInv, TurnOn, OneTurn, WaitsForOwn, AnswerOwed, Unused, AnswerCarriesAck

\* Every step keeps the turns in order.
LEMMA NextTurn == Inv /\ TurnInv /\ [Next]_vars => TurnInv' /\ InTurn
  <1> SUFFICES ASSUME Inv, TurnInv, [Next]_vars
               PROVE  TurnInv' /\ InTurn
    OBVIOUS
  <1>1. ASSUME UNCHANGED <<ec, net, rx, tx, nextId, dropped>>
        PROVE  TurnInv' /\ InTurn
    <2>1. \A m \in net : Unheard(m)' => Unheard(m)
      BY <1>1, StillHeard
    <2>2. ASSUME NEW x \in Exchanges
          PROVE  TurnOn(x)'
      <3>1. TurnOn(x)
        BY DEF TurnInv
      <3>2. OneTurn(x)'
        BY <1>1, <2>1, <3>1 DEF TurnOn, OneTurn
      <3>3. WaitsForOwn(x)'
        BY <1>1, <3>1 DEF TurnOn, WaitsForOwn
      <3>4. AnswerOwed(x)'
        BY <1>1, <2>1, <3>1 DEF TurnOn, AnswerOwed
      <3>5. Unused(x)'
        BY <1>1, <3>1 DEF TurnOn, Unused, Opened
      <3> QED
        BY <3>2, <3>3, <3>4, <3>5 DEF TurnOn
    <2>3. \A y \in Exchanges : FadesOn(y)
      BY <1>1, <2>1 DEF FadesOn, Opened, Speakers, Underway
    <2> QED
      BY <1>1, <2>2, <2>3 DEF TurnInv, AnswerCarriesAck, InTurn
  <1>2. CASE Next
    <2>1. PICK n \in Nodes :
            \/ StartExchange(n)
            \/ EvictSession(n)
            \/ InterfaceChange(n)
            \/ \E m \in net : \E reaction \in AppReactions(n, m) : Receive(n, m, reaction)
            \/ \E x \in Exchanges :
                 \/ \E flags \in AppFlags : AppSend(n, x, flags)
                 \/ AppRelease(n, x)
                 \/ AppClose(n, x)
                 \/ AckTimeout(n, x)
                 \/ RetransTimeout(n, x)
                 \/ ResponseTimeout(n, x)
                 \/ AbortAllOtherCommunicationOnFabric(n, x)
      BY <1>2 DEF Next
    <2>2. CASE EvictSession(n)
      <3>1. Done(n, MarkForEviction(Node(n), {})) /\ UNCHANGED <<nextId, rx>>
        BY <2>2 DEF EvictSession
      <3> QED
        BY <3>1, EvictionTurn
    <2>3. CASE InterfaceChange(n)
      BY <1>1, <2>3 DEF InterfaceChange
    <2>4. ASSUME NEW x \in Exchanges, AbortAllOtherCommunicationOnFabric(n, x)
          PROVE  TurnInv' /\ InTurn
      <3>1. Done(n, MarkForEviction(Node(n), {x})) /\ UNCHANGED <<nextId, rx>>
        BY <2>4 DEF AbortAllOtherCommunicationOnFabric
      <3> QED
        BY <3>1, EvictionTurn
    <2> QED
      BY <2>1, <2>2, <2>3, <2>4, StartExchangeTurn, ReceiveTurn, AppSendTurn, ExchangeStepTurn
  <1>3. CASE UNCHANGED vars
    BY <1>1, <1>3 DEF vars
  <1> QED
    BY <1>2, <1>3

\* The turns are in order in every reachable state.
LEMMA SpecTurn == Spec => []TurnInv
  BY SpecInv, InitTurn, NextTurn, PTL DEF Spec

\* The right to send on an exchange is with one end at a time: never are two messages on
\* their way that the other end has not heard, nor one while an application has announced
\* another (ExchangeContext::SendMessage, WillSendMessage), whatever is lost or repeated.
THEOREM OneEndSpeaks == Spec => [](\A x \in Exchanges : OneTurn(x))
  <1>1. TurnInv => \A x \in Exchanges : OneTurn(x)
    BY DEF TurnInv, TurnOn
  <1> QED
    BY <1>1, SpecTurn, PTL

\* HandleMessage never refuses a message for lack of the ack it waits for: a peer that
\* runs this code piggybacks the ack on its answer, whatever standalone acks it sent,
\* lost or repeated before, and however often its first tries to answer failed.
THEOREM AnswerCarriesAckHolds == Spec => []AnswerCarriesAck
  <1>1. TurnInv => AnswerCarriesAck
    BY DEF TurnInv
  <1> QED
    BY <1>1, SpecTurn, PTL

\* A step that leaves the turns in order is a step of Conversation.
LEMMA TalkStep ==
    ASSUME Inv, Inv', InTurn
    PROVE  Talk!Next
  <1>1. Talk!TypeOK'
    <2>1. {x \in Exchanges : x.id < nextId'[x.initiator]} \in SUBSET Exchanges
      OBVIOUS
    <2>2. [x \in Exchanges |-> {n \in Nodes : ec'[n][x].willSend}]
            \in [Exchanges -> SUBSET Nodes]
      OBVIOUS
    <2>3. net' \subseteq Messages
      BY DEF Inv, TypeOK
    <2>4. [x \in Exchanges |-> {m \in net' : m.x = x /\ Unheard(m)'}]
            \in [Exchanges -> SUBSET Messages]
      BY <2>3
    <2> QED
      BY <2>1, <2>2, <2>4 DEF Talk!TypeOK
  <1>2. ASSUME NEW y \in Exchanges, FadesOn(y)
        PROVE  Talk!Fades(y)
    BY <1>2 DEF Talk!Fades, FadesOn, Opened, Speakers, Underway
  <1>3. CASE \A y \in Exchanges : FadesOn(y)
    BY <1>1, <1>2, <1>3 DEF Talk!Next
  <1>4. ASSUME NEW n \in Nodes, NEW x \in Exchanges, HasTurnOn(n, x), Opened(x)',
               UsesTurn(n, x), \A y \in Exchanges \ {x} : FadesOn(y)
        PROVE  Talk!Speaks(n, x)
    <2>1. Talk!HasTurn(n, x)
      BY <1>4 DEF Talk!HasTurn, HasTurnOn, Opened, Speakers, Underway
    <2>2. Talk!Announces(n, x) \/ Talk!Says(n, x) \/ Talk!Ends(x)
      <3>1. CASE Speakers(x)' \subseteq {n} /\ Underway(x)' = {}
        <4>1. Speakers(x)' = {} \/ Speakers(x)' = {n}
          BY <3>1
        <4> QED
          BY <3>1, <4>1 DEF Talk!Announces, Talk!Ends, Speakers, Underway
      <3>2. ASSUME Speakers(x)' = {}, NEW m \in net', m.from = n, m.x = x,
                   Underway(x)' \subseteq {m}
            PROVE  Talk!Says(n, x) \/ Talk!Ends(x)
        <4>1. m \in Messages
          BY DEF Inv, TypeOK
        <4>2. Underway(x)' = {} \/ Underway(x)' = {m}
          BY <3>2
        <4> QED
          BY <3>2, <4>1, <4>2 DEF Talk!Says, Talk!Ends, Speakers, Underway
      <3> QED
        BY <1>4, <3>1, <3>2 DEF UsesTurn
    <2>3. x \in {y \in Exchanges : y.id < nextId'[y.initiator]}
      BY <1>4 DEF Opened
    <2>4. \A y \in Exchanges \ {x} : Talk!Fades(y)
      BY <1>2, <1>4
    <2> QED
      BY <2>1, <2>2, <2>3, <2>4 DEF Talk!Speaks
  <1> QED
    BY <1>1, <1>3, <1>4 DEF InTurn, Talk!Next

\* Initially no conversation has begun.
LEMMA TalkStarts == Init => Talk!Init
  <1> SUFFICES ASSUME Init
               PROVE  Talk!Init
    OBVIOUS
  <1>1. /\ \A n \in Nodes, x \in Exchanges : ~ec[n][x].willSend
        /\ net = {} /\ \A x \in Exchanges : nextId[x.initiator] = 1 /\ ~(x.id < 1)
    BY NoContextFacts, ExchangeAssumption DEF Init, Exchanges
  <1> QED
    BY <1>1 DEF Talk!Init

\* The exchanges of ExchangeContext over ReliableMessageMgr implement Conversation: every
\* step lets the end whose turn it is speak, answer later or end the exchange, or is one
\* on which nobody speaks; however messages and acks are lost, repeated and reordered.
THEOREM ConversationHolds == Spec => ConversationSpec
  <1>1. Inv /\ TurnInv /\ [Next]_vars => Inv' /\ InTurn
    BY NextInv, NextTurn
  <1>2. Inv /\ Inv' /\ InTurn => Talk!Next
    BY TalkStep
  <1> QED
    BY <1>1, <1>2, SpecInv, SpecTurn, TalkStarts, PTL DEF Spec, ConversationSpec, Talk!Spec
===============================================================================
