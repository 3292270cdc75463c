----------------------------- MODULE Conversation -----------------------------
(***************************************************************************)
(* What exchanges promise to the applications at their two ends            *)
(* (src/src/messaging/ExchangeContext.h, ExchangeDelegate.h): on each of   *)
(* them the ends take turns.  Whoever opened the exchange speaks first;    *)
(* whoever hears a message may answer it, now or later, or let the         *)
(* exchange end; nobody speaks twice in a row, answers a message twice, or *)
(* speaks on an exchange that has ended.                                   *)
(*                                                                         *)
(* A conversation may end at any time.  Losses, copies, acknowledgments    *)
(* and retransmissions are not steps of this specification.                *)
(***************************************************************************)

CONSTANTS
    Nodes,
    Exchanges,     \* records with their initiator
    Messages       \* records with their sender and their exchange

VARIABLES
    opened,        \* the exchanges that have begun
    speaker,       \* per exchange, who has announced a message
    underway       \* per exchange, the message that has not been heard yet

conversationVars == <<opened, speaker, underway>>

TypeOK ==
    /\ opened \in SUBSET Exchanges
    /\ speaker \in [Exchanges -> SUBSET Nodes]
    /\ underway \in [Exchanges -> SUBSET Messages]

Init ==
    /\ opened = {}
    /\ speaker = [x \in Exchanges |-> {}]
    /\ underway = [x \in Exchanges |-> {}]

\* It is the turn of node n: it opens the exchange, or announced a message before, or
\* hears one now.
HasTurn(n, x) ==
    \/ x \notin opened /\ x.initiator = n
    \/ n \in speaker[x]
    \/ \E m \in underway[x] : m.from # n

\* What it does with its turn.
Announces(n, x) == speaker'[x] = {n} /\ underway'[x] = {}
Says(n, x) ==
    /\ speaker'[x] = {}
    /\ \E m \in Messages : m.from = n /\ m.x = x /\ underway'[x] = {m}
Ends(x) == speaker'[x] = {} /\ underway'[x] = {}

\* An exchange on which nobody speaks: what was to come may still be given up.
Fades(x) ==
    /\ x \in opened' <=> x \in opened
    /\ speaker'[x] \subseteq speaker[x]
    /\ underway'[x] \subseteq underway[x]

Speaks(n, x) ==
    /\ HasTurn(n, x)
    /\ x \in opened'
    /\ Announces(n, x) \/ Says(n, x) \/ Ends(x)
    /\ \A y \in Exchanges \ {x} : Fades(y)

Next ==
    /\ TypeOK'
    /\ \/ \A y \in Exchanges : Fades(y)
       \/ \E n \in Nodes, x \in Exchanges : Speaks(n, x)

Spec == Init /\ [][Next]_conversationVars
===============================================================================
