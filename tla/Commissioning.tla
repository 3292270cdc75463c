---------------------------- MODULE Commissioning ----------------------------
(***************************************************************************)
(* The fail-safe (src/src/app/FailSafeContext.cpp) and the commands that   *)
(* change the fabric table under it: the Operational Credentials and the   *)
(* General Commissioning clusters, and the restart of the server           *)
(* (src/src/app/server/Server.cpp).                                        *)
(*                                                                         *)
(* Everything runs on one event loop.  A command is handled to its end     *)
(* before the next one, so the only thing that comes between the writes of *)
(* a commit or a deletion is a restart.  The expiry of the fail-safe posts *)
(* its clean-up to the loop: commands already on their way are handled     *)
(* before it.                                                              *)
(***************************************************************************)
EXTENDS FabricTable, Sequences

CONSTANT MaxCrashes     \* how many restarts, besides those that cut a recovery

ASSUME CrashAssumption == MaxCrashes \in Nat

VARIABLES
    failSafe,       \* FailSafeContext
    queue,          \* work posted to the event loop
    handler,        \* whose operation on the table is running
    crashes,        \* restarts so far, besides those that cut a recovery
    overlapped      \* history: a fabric was removed while credentials were pending

vars == <<memory, storage, control, failSafe, queue, handler, crashes, overlapped>>
tableVars == <<memory, storage, control>>

Disarmed == [armed |-> FALSE, busy |-> FALSE, fabric |-> 0,
             addNoc |-> FALSE, updateNoc |-> FALSE, root |-> FALSE]

FailSafes == [armed : BOOLEAN, busy : BOOLEAN, fabric : Indices \cup {0},
              addNoc : BOOLEAN, updateNoc : BOOLEAN, root : BOOLEAN]

Handlers == {"idle", "remove", "addNoc", "complete", "cleanup", "cleanupDelete", "boot"}

Items == [type : {"cleanup"}, fabric : Indices \cup {0}, addNoc : BOOLEAN]
           \cup [type : {"disarm", "clearMarker"}]

Init ==
    /\ TableInit
    /\ failSafe = Disarmed
    /\ queue = <<>>
    /\ handler = "idle"
    /\ crashes = 0
    /\ overlapped = FALSE

\* A command is handled when nothing is running and no posted work has begun.
Ready ==
    /\ handler = "idle"
    /\ queue # <<>> => Head(queue).type = "cleanup"

\* The fabrics commands come from; 0 is a PASE session that has no fabric yet.
Accessing == Live \cup {0}

IsFailSafeArmed(a) == failSafe.armed /\ failSafe.fabric = a
NocCommandHasBeenInvoked == failSafe.addNoc \/ failSafe.updateNoc

\* ScheduleFailSafeCleanup
ScheduleFailSafeCleanup(f, addNoc) ==
    /\ failSafe' = [failSafe EXCEPT !.busy = TRUE, !.armed = FALSE]
    /\ queue' = queue \o << [type |-> "cleanup", fabric |-> f, addNoc |-> addNoc],
                            [type |-> "disarm"] >>

-----------------------------------------------------------------------------
(* The fail-safe.                                                          *)

ArmFailSafe(a) ==
    /\ Ready
    /\ ~failSafe.busy
    /\ ~failSafe.armed \/ failSafe.fabric = a
    /\ failSafe' = [failSafe EXCEPT !.armed = TRUE, !.fabric = a]
    /\ UNCHANGED <<tableVars, queue, handler, crashes, overlapped>>

\* The timer, the limit on the cumulated time, or ArmFailSafe with length 0.
FailSafeTimerExpired ==
    /\ Ready
    /\ failSafe.armed
    /\ ScheduleFailSafeCleanup(failSafe.fabric, failSafe.addNoc)
    /\ UNCHANGED <<tableVars, handler, crashes, overlapped>>

-----------------------------------------------------------------------------
(* The commands of the Operational Credentials cluster.                    *)

KeysInUse ==
    {opKey.key} \cup UNION {{stored[f].key, stored[f].icac} : f \in Indices}
      \cup {stored[f].noc.key : f \in {g \in Indices : stored[g].noc # None}}
      \cup {states[f].noc.key : f \in Live}

\* A new key differs from every other.
CSRRequest(a, forUpdate) ==
    /\ Ready
    /\ IsFailSafeArmed(a)
    /\ ~NocCommandHasBeenInvoked
    /\ forUpdate => a # 0
    /\ \E k \in Keys \ KeysInUse : AllocatePendingOperationalKey(IF forUpdate THEN a ELSE 0, k)
    /\ UNCHANGED <<failSafe, queue, handler, crashes, overlapped>>

AddTrustedRootCertificate(a, r) ==
    /\ Ready
    /\ IsFailSafeArmed(a)
    /\ ~failSafe.root
    /\ ~NocCommandHasBeenInvoked
    /\ AddNewPendingTrustedRootCert(r)
    /\ failSafe' = [failSafe EXCEPT !.root = TrustedRootAccepted]
    /\ UNCHANGED <<queue, handler, crashes, overlapped>>

CanAddNOC(a) ==
    /\ Ready
    /\ IsFailSafeArmed(a)
    /\ ~NocCommandHasBeenInvoked
    /\ "kIsOperationalKeyPending" \in flags
    /\ "kIsPendingKeyForUpdateNoc" \notin flags
    /\ failSafe.root

AddNOC(a, noc) ==
    /\ CanAddNOC(a)
    /\ AddNewPendingFabric(noc)
    /\ failSafe' = [failSafe EXCEPT !.addNoc = TRUE, !.fabric = pendingIndex']
    /\ UNCHANGED <<control, queue, handler, crashes, overlapped>>

\* The fabric was added, but the group key or the access control entry could
\* not be: the handler reverts what it added.
AddNOCUndone(a, noc) ==
    /\ CanAddNOC(a)
    /\ CanAddFabric(noc)
    /\ nextIndex' = EnsuredNext(nextIndex, Live)
    /\ pendingIndex' = nextIndex'
    /\ opKey' = Activated
    /\ states' = [states EXCEPT ![nextIndex'] = [noc |-> noc, label |-> EmptyLabel]]
    /\ flags' = flags \cup {"kIsAddPending", "kIsPendingFabricDataPresent"}
    /\ pc' = "delMetadata"
    /\ victim' = nextIndex'
    /\ resume' = "exceptRootRest"
    /\ handler' = "addNoc"
    /\ UNCHANGED <<pendingFabric, opCerts, storage, committing, failed, failSafe, queue, crashes, overlapped>>

UpdateNOC(a, noc) ==
    /\ Ready
    /\ a # 0
    /\ IsFailSafeArmed(a)
    /\ ~NocCommandHasBeenInvoked
    /\ {"kIsOperationalKeyPending", "kIsPendingKeyForUpdateNoc"} \subseteq flags
    /\ \/ UpdatePendingFabric(a, noc) /\ failSafe' = [failSafe EXCEPT !.updateNoc = TRUE]
       \/ (RefusePendingUpdate(a, noc) \/ AbandonPendingUpdate(a, noc)) /\ UNCHANGED failSafe
    /\ UNCHANGED <<queue, handler, crashes, overlapped>>

UpdateFabricLabel(a, l) ==
    /\ Ready
    /\ a # 0
    /\ \A g \in Live \ {a} : FindFabricWithIndex(g).label # l
    /\ SetFabricLabel(a, l)
    /\ UNCHANGED <<failSafe, queue, handler, crashes, overlapped>>

\* Any administrator may remove any fabric, whoever holds the fail-safe; the
\* handler does not ask whether the index is in use.
RemoveFabric(f) ==
    /\ Ready
    /\ Delete(f, "returned")
    /\ handler' = "remove"
    /\ overlapped' = (overlapped \/ flags # {})
    /\ UNCHANGED <<committing, failed, failSafe, queue, crashes>>

-----------------------------------------------------------------------------
(* CommissioningComplete over a CASE session.                              *)

CommissioningComplete(a) ==
    /\ Ready
    /\ a # 0
    /\ IsFailSafeArmed(a)
    /\ IF NocCommandHasBeenInvoked
       THEN /\ CommitPendingFabricData
            /\ handler' = "complete"
            /\ UNCHANGED failSafe
       ELSE /\ failSafe' = Disarmed
            /\ UNCHANGED <<tableVars, handler>>
    /\ UNCHANGED <<queue, crashes, overlapped>>

-----------------------------------------------------------------------------
(* The posted work.                                                        *)

\* FailSafeCleanup: revert what is pending, then delete the fabric of AddNOC.
FailSafeCleanup ==
    /\ handler = "idle"
    /\ queue # <<>>
    /\ Head(queue).type = "cleanup"
    /\ RevertPendingFabricData
    /\ handler' = "cleanup"
    /\ UNCHANGED <<failed, failSafe, queue, crashes, overlapped>>

HandleDisarmFailSafe ==
    /\ handler = "idle"
    /\ queue # <<>>
    /\ Head(queue).type = "disarm"
    /\ failSafe' = Disarmed
    /\ queue' = Tail(queue)
    /\ UNCHANGED <<tableVars, handler, crashes, overlapped>>

\* The work Server::Init schedules behind the clean-up of an interrupted commit.
ClearMarkerAfterCleanup ==
    /\ handler = "idle"
    /\ queue # <<>>
    /\ Head(queue).type = "clearMarker"
    /\ marker' = 0
    /\ queue' = Tail(queue)
    /\ UNCHANGED <<memory, stored, indexInfo, control, failSafe, handler, crashes, overlapped>>

-----------------------------------------------------------------------------
(* The table has finished what a handler asked for.                        *)

Return(h) == handler = h /\ pc = "returned"

Finished ==
    /\ handler' = "idle"
    /\ pc' = "idle"
    /\ victim' = 0
    /\ resume' = "returned"
    /\ failed' = FALSE
    /\ UNCHANGED <<memory, storage, committing, crashes, overlapped>>

CommandReturns ==
    /\ Return("remove") \/ Return("addNoc")
    /\ Finished
    /\ UNCHANGED <<failSafe, queue>>

\* The fail-safe left armed after a successful commit too.
CompleteLeavesArmed ==
    /\ Return("complete")
    /\ Finished
    /\ UNCHANGED <<failSafe, queue>>

\* A failed commit leaves the fail-safe armed.
CommissioningCompleteReturns ==
    /\ Return("complete")
    /\ Finished
    /\ failSafe' = IF failed THEN failSafe ELSE Disarmed
    /\ UNCHANGED queue

CleanupReverted ==
    /\ Return("cleanup")
    /\ IF Head(queue).addNoc
       THEN /\ Delete(Head(queue).fabric, "returned")
            /\ handler' = "cleanupDelete"
            /\ UNCHANGED <<committing, failed, crashes, overlapped, queue>>
       ELSE Finished /\ queue' = Tail(queue)
    /\ UNCHANGED failSafe

CleanupReturns ==
    /\ Return("cleanupDelete")
    /\ Finished
    /\ queue' = Tail(queue)
    /\ UNCHANGED failSafe

\* The clean-up posted without the removal of the marker behind it.
ServerInitKeepsMarker ==
    /\ Return("boot")
    /\ Finished
    /\ IF victim = 0
       THEN UNCHANGED <<failSafe, queue>>
       ELSE /\ failSafe' = [failSafe EXCEPT !.busy = TRUE]
            /\ queue' = << [type |-> "cleanup", fabric |-> victim, addNoc |-> TRUE],
                           [type |-> "disarm"] >>

\* The end of Server::Init: if a commit was interrupted, the clean-up of an
\* addition is posted, and after it the removal of the marker.
ServerInitReturns ==
    /\ Return("boot")
    /\ Finished
    /\ IF victim = 0
       THEN UNCHANGED <<failSafe, queue>>
       ELSE /\ failSafe' = [failSafe EXCEPT !.busy = TRUE]
            /\ queue' = << [type |-> "cleanup", fabric |-> victim, addNoc |-> TRUE],
                           [type |-> "disarm"], [type |-> "clearMarker"] >>

-----------------------------------------------------------------------------
(* A restart at any point, except in a commit whose marker could not be    *)
(* stored: the code logs that it cannot recover from that.                 *)

\* A restart found the marker of a commit, and it is still there.
Recovering == marker # 0 /\ committing = 0

Crash ==
    /\ Recovering \/ crashes < MaxCrashes
    /\ committing # 0 => marker = committing
    /\ crashes' = IF Recovering THEN crashes ELSE crashes + 1
    /\ TableRestart
    /\ handler' = "boot"
    /\ failSafe' = Disarmed
    /\ queue' = <<>>
    /\ UNCHANGED overlapped

TableRuns ==
    /\ TableStep
    /\ UNCHANGED <<failSafe, queue, handler, crashes, overlapped>>

Command ==
    \/ \E a \in Accessing :
          \/ ArmFailSafe(a)
          \/ \E forUpdate \in BOOLEAN : CSRRequest(a, forUpdate)
          \/ \E r \in Roots : AddTrustedRootCertificate(a, r)
          \/ \E noc \in Nocs : AddNOC(a, noc) \/ AddNOCUndone(a, noc) \/ UpdateNOC(a, noc)
          \/ \E l \in Labels : UpdateFabricLabel(a, l)
          \/ CommissioningComplete(a)
    \/ \E f \in Indices : RemoveFabric(f)

PostedWork == FailSafeCleanup \/ HandleDisarmFailSafe \/ ClearMarkerAfterCleanup

HandlerReturns ==
    \/ CommandReturns \/ CommissioningCompleteReturns
    \/ CleanupReverted \/ CleanupReturns \/ ServerInitReturns

Next == Command \/ FailSafeTimerExpired \/ PostedWork \/ TableRuns \/ HandlerReturns \/ Crash

Spec == Init /\ [][Next]_vars

\* The event loop goes on, an armed timer fires, and restarts come to an end.
FairSpec ==
    /\ Spec
    /\ <>[][~Crash]_vars
    /\ SF_vars(PostedWork)
    /\ WF_vars(TableRuns)
    /\ WF_vars(HandlerReturns)
    /\ SF_vars(FailSafeTimerExpired)

-----------------------------------------------------------------------------
(* Properties.                                                             *)

\* Every variable keeps its type; nextIndex stays a valid fabric index or 0.
TypeOK ==
    /\ states \in [Indices -> Entries \cup {None}]
    /\ pendingFabric \in Entries \cup {None}
    /\ flags \subseteq StateFlags
    /\ pendingIndex \in Indices \cup {0}
    /\ nextIndex \in Indices \cup {0}
    /\ opCerts \in PendingCerts
    /\ opKey \in PendingKeys
    /\ stored \in [Indices -> StoredFabrics]
    /\ indexInfo \in IndexInfos
    /\ marker \in Indices \cup {0}
    /\ pc \in Steps
    /\ victim \in Indices \cup {0}
    /\ resume \in {"returned", "commitFailed", "revertRest", "exceptRootRest"}
    /\ committing \in Indices \cup {0}
    /\ failed \in BOOLEAN
    /\ failSafe \in FailSafes
    /\ queue \in Seq(Items)
    /\ handler \in Handlers
    /\ crashes \in 0..MaxCrashes
    /\ overlapped \in BOOLEAN

\* The index whose fabric a restart would drop.
InDoubt == IF committing # 0 THEN committing ELSE marker

CredentialOf(f) == [key |-> stored[f].key, noc |-> stored[f].noc,
                    icac |-> stored[f].icac, rcac |-> stored[f].rcac]

Installed ==
    [f \in Indices |-> IF f # InDoubt /\ Loadable(f) THEN CredentialOf(f) ELSE None]

\* A NOC, the ICAC if the NOC needs it, its root, and an operational key.
CompleteCredentials ==
    {[key |-> k, noc |-> n, icac |-> IF n.ica THEN n.key ELSE None, rcac |-> n.root] :
        k \in Keys, n \in Nocs}

\* An index without a fabric differs from one that has a credential.
ASSUME CredentialAssumption == None \notin CompleteCredentials

Directory == INSTANCE FabricDirectory
    WITH Credentials <- CompleteCredentials, Nothing <- None, installed <- Installed, inDoubt <- InDoubt

\* The writes of CommitPendingFabricData and Delete, write failures and restarts
\* between any two of them implement FabricDirectory: a commit leaves a complete
\* credential or nothing at its own index, and no other index changes but by
\* being removed.
DirectorySpec == Directory!Spec

\* No command is running, nothing is posted and no fail-safe is armed.
Quiet == handler = "idle" /\ queue = <<>> /\ ~failSafe.armed

\* At rest, a restart brings no fabric back that is not in the table, and no
\* older NOC of one that is: what Delete and the reverts removed stays removed.
StorageIsInUse ==
    Quiet => \A f \in Indices :
        Installed[f] # None => states[f] # None /\ states[f].noc = Installed[f].noc

\* At rest, a restart finds every fabric of the table again, with its NOC and
\* the key of that NOC (FabricTable.h on CommitPendingFabricData: "after a
\* restart, it would be found to be the same in persistent storage").
FabricsSurviveRestart ==
    Quiet => \A f \in Live :
        /\ Installed[f] # None
        /\ Installed[f].noc = states[f].noc
        /\ Installed[f].key = states[f].noc.key

\* That holds as long as no RemoveFabric was handled while another fail-safe's
\* credentials were pending, for every restart, write failure and expiry.
UndisturbedFabricsSurviveRestart == ~overlapped => FabricsSurviveRestart

\* When the fail-safe has been disarmed or cleaned up, no addition and no update
\* is pending in the table and no activated key in the key store.  The one NOC
\* the certificate store may still hold is that of an UpdateNOC which failed
\* because another index was pending (UpdatePendingFabricCommon): that index
\* still is, and no root is there, so that the next fail-safe cannot commit it.
NothingToCommitWhenDisarmed ==
    Quiet => /\ flags \cap {"kIsAddPending", "kIsUpdatePending"} = {}
             /\ opCerts.noc # None => opCerts.rcac = None /\ pendingIndex \notin {0, opCerts.index}
             /\ ~opKey.active

\* FailSafeCleanup deletes the fabric of AddNOC by its index, some time after
\* the expiry: that index never holds a committed fabric.
CleanupSparesCommitted ==
    \A i \in DOMAIN queue :
        queue[i].type = "cleanup" /\ queue[i].addNoc => Installed[queue[i].fabric] = None

\* At rest, the index the next AddNOC will use is not that of a fabric a restart
\* would find.
NextIndexIsFree ==
    Quiet /\ nextIndex # 0 => Installed[nextIndex] = None

\* A commit that has written its marker, interrupted by a restart or not, is
\* settled, and the marker is gone.
DoubtIsSettled == InDoubt # 0 ~> InDoubt = 0

NocPending == flags \cap {"kIsAddPending", "kIsUpdatePending"} # {}

\* A NOC that was added or updated does not stay pending for ever: it is
\* committed, reverted by the expiry of the fail-safe, or lost in a restart.
PendingIsResolved == NocPending ~> ~NocPending
=============================================================================
