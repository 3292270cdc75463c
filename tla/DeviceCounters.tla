---------------------------- MODULE DeviceCounters ----------------------------
(***************************************************************************)
(* The counters of a device that must never use a number twice, side by    *)
(* side: the persisted counter under EventManagement or under ICDManager,  *)
(* the group message counters SessionManager sends with, and the window of *)
(* counters it has received from a peer.  They share no state but the      *)
(* flash, so a behaviour exercises one of them.                            *)
(***************************************************************************)
EXTENDS EventNumbers, CheckInNumbers, GroupOutgoingCounters, ReplayWindow

VARIABLE client     \* whose counter the behaviour is about

Clients == {"EventManagement", "ICDManager", "GroupSender", "Receiver"}

allVars == <<vars, sent, groupVars, windowVars, client>>

CountersInit ==
    /\ client \in Clients
    /\ Init
    /\ CheckInInit
    /\ GroupInit
    /\ WindowInit
    /\ client # "Receiver" => mode = "unicast"

CountersNext ==
    /\ UNCHANGED client
    /\ \/ /\ client = "EventManagement"
          /\ Next
          /\ UNCHANGED <<sent, groupVars, windowVars>>
       \/ /\ client = "ICDManager"
          /\ CheckInNext
          /\ UNCHANGED <<mLastEventNumber, logged, groupVars, windowVars>>
       \/ /\ client = "GroupSender"
          /\ GroupNext
          /\ UNCHANGED <<vars, sent, windowVars>>
       \/ /\ client = "Receiver"
          /\ WindowNext
          /\ UNCHANGED <<vars, sent, groupVars>>

CountersSpec == CountersInit /\ [][CountersNext]_allVars

\* The inductive invariant of the client at work: the numbers it gave out stay
\* below what it will give out next and below what a reboot would resume from
\* (EventManagement::VendEventNumber, ICDManager::SendCheckInMsgs,
\* GroupOutgoingCounters::IncrementCounter); the bits of
\* the receive window are the members just below the maximum of the set of all
\* counters accepted (PeerMessageCounter).
ClientInvariant ==
    /\ client = "EventManagement" => IndInv
    /\ client = "ICDManager" => CheckInIndInv
    /\ client = "GroupSender" => GroupIndInv
    /\ client = "Receiver" => WindowIndInv
===============================================================================
