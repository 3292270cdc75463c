----------------------------- MODULE FabricTable -----------------------------
(***************************************************************************)
(* The fabric table of a device (src/src/credentials/FabricTable.cpp) with *)
(* the certificate store and the key store it drives                       *)
(* (src/src/credentials/PersistentStorageOpCertStore.cpp,                  *)
(* src/src/crypto/PersistentStorageOperationalKeystore.cpp).               *)
(*                                                                         *)
(* New credentials are kept pending in memory.  CommitPendingFabricData    *)
(* and Delete are sequences of writes to the key-value store; each write   *)
(* is a step, so that a restart can come between any two of them.  `pc' is *)
(* the next write, and "returned" says that the operation is over and      *)
(* `failed' is its result.                                                 *)
(***************************************************************************)
EXTENDS Integers, FiniteSets

CONSTANTS
    MaxIndex,       \* kMaxValidFabricIndex (254)
    MaxFabrics,     \* CHIP_CONFIG_MAX_FABRICS, the slots of mStates
    Keys,           \* operational key pairs
    IcaKeys,        \* the keys that an intermediate CA certifies
    Roots,          \* root certificates, one fabric each
    Labels,         \* fabric labels
    EmptyLabel,
    None,
    MayFail         \* the writes of the key-value store that may fail

Indices == 1..MaxIndex

\* A NOC: the key it certifies, the root it chains to, and whether it needs
\* the ICAC that comes with it.
Nocs == {n \in [key : Keys, root : Roots, ica : BOOLEAN] : n.ica = (n.key \in IcaKeys)}

\* A fabric as mStates and mPendingFabric hold it.
Entries == [noc : Nocs, label : Labels]

\* What storage keeps for an index, and what the two stores keep pending.
StoredFabrics == [meta : Labels \cup {None}, key : Keys \cup {None}, noc : Nocs \cup {None},
                  icac : Keys \cup {None}, rcac : Roots \cup {None}]
PendingCerts  == [index : Indices \cup {0}, rcac : Roots \cup {None}, noc : Nocs \cup {None}]
PendingKeys   == [index : Indices \cup {0}, key : Keys \cup {None}, active : BOOLEAN]
IndexInfos    == [next : Indices \cup {0}, list : SUBSET Indices]

StateFlags == {"kIsPendingFabricDataPresent", "kIsTrustedRootPending", "kIsAddPending",
               "kIsUpdatePending", "kIsOperationalKeyPending", "kIsPendingKeyForUpdateNoc"}

CommitSteps == {"marker", "metadata", "key", "noc", "icac", "rcac", "index", "finish",
                "commitFailed", "clearMarker"}
DeleteSteps == {"delMetadata", "delKey", "delNoc", "delIcac", "delRcac", "delIndex"}
Steps == CommitSteps \cup DeleteSteps \cup {"idle", "revertRest", "exceptRootRest", "returned"}

ASSUME FabricAssumption ==
    /\ MaxIndex \in Nat \ {0}
    /\ MaxFabrics \in Nat \ {0}
    /\ MaxFabrics <= MaxIndex
    /\ IcaKeys \subseteq Keys
    /\ EmptyLabel \in Labels
    /\ None \notin Keys \cup Roots \cup Labels \cup Nocs \cup Entries
    /\ MayFail \subseteq Steps

VARIABLES
    states,         \* mStates: the fabrics in use, pending additions included
    pendingFabric,  \* mPendingFabric: the shadow entry of a pending update
    flags,          \* mStateFlags
    pendingIndex,   \* mFabricIndexWithPendingState, 0 if undefined
    nextIndex,      \* mNextAvailableFabricIndex, 0 if it has no value
    opCerts,        \* the pending certificates of the certificate store
    opKey,          \* the pending key of the key store
    stored,         \* per index: metadata (its label), key, NOC, ICAC, RCAC
    indexInfo,      \* the stored FabricIndexInfo
    marker,         \* the stored commit marker, 0 if there is none
    pc,             \* the next write of the running operation
    victim,         \* the index Delete works on
    resume,         \* where Delete returns to
    committing,     \* fabricIndexBeingCommitted, 0 outside a commit
    failed          \* stickyError, and the result of the operation

memory  == <<states, pendingFabric, flags, pendingIndex, nextIndex, opCerts, opKey>>
storage == <<stored, indexInfo, marker>>
control == <<pc, victim, resume, committing, failed>>

NoCerts == [index |-> 0, rcac |-> None, noc |-> None]
NoKey   == [index |-> 0, key |-> None, active |-> FALSE]
Blank   == [meta |-> None, key |-> None, noc |-> None, icac |-> None, rcac |-> None]

TableInit ==
    /\ states = [f \in Indices |-> None]
    /\ pendingFabric = None
    /\ flags = {}
    /\ pendingIndex = 0
    /\ nextIndex = 1
    /\ opCerts = NoCerts
    /\ opKey = NoKey
    /\ stored = [f \in Indices |-> Blank]
    /\ indexInfo = [next |-> 1, list |-> {}]
    /\ marker = 0
    /\ pc = "idle"
    /\ victim = 0
    /\ resume = "returned"
    /\ committing = 0
    /\ failed = FALSE

-----------------------------------------------------------------------------
(* Look-ups.                                                               *)

Live == {f \in Indices : states[f] # None}

HasPendingFabricUpdate ==
    pendingFabric # None /\ {"kIsPendingFabricDataPresent", "kIsUpdatePending"} \subseteq flags

FindFabricWithIndex(f) ==
    IF HasPendingFabricUpdate /\ pendingIndex = f THEN pendingFabric ELSE states[f]

HasCertificateForFabric(f, element) ==
    \/ opCerts.index = f /\ opCerts[element] # None
    \/ stored[f][element] # None

RootOf(f) == IF opCerts.index = f /\ opCerts.rcac # None THEN opCerts.rcac ELSE stored[f].rcac

HasOpKeypairForFabric(f) ==
    \/ opKey.active /\ opKey.index = f /\ opKey.key # None
    \/ stored[f].key # None

\* FindExistingFabricByNocChaining: the fabric that the NOC and the root of f identify.
ExistingFabrics(f, noc) == {g \in Live : states[g].noc.root = noc.root /\ noc.root = RootOf(f)}

\* The search without the wrap at kMaxValidFabricIndex.
NextFreeWithoutWrap(n, live) == n + 1

\* UpdateNextAvailableFabricIndex: the first index after n that no fabric uses.
NextFree(n, live) ==
    LET after(i) == ((n - 1 + i) % MaxIndex) + 1
        free     == {i \in 1..(MaxIndex - 1) : after(i) \notin live}
    IN  IF free = {} THEN 0 ELSE after(CHOOSE i \in free : \A j \in free : i <= j)

\* EnsureNextAvailableFabricIndexUpdated
EnsuredNext(n, live) ==
    IF n = 0 /\ Cardinality(live) < MaxIndex
    THEN IF 1 \in live THEN NextFree(1, live) ELSE 1
    ELSE n

\* SetPendingDataFabricIndex
CanSetPendingIndex(f) == pendingIndex \in {0, f}

\* What LoadFromStorage needs; the key is not looked at.
Loadable(f) ==
    /\ f \in indexInfo.list
    /\ stored[f].meta # None
    /\ stored[f].noc # None
    /\ stored[f].rcac # None

-----------------------------------------------------------------------------
(* Pending state.  Each operation may be refused by the checks of the      *)
(* table or of a store, and some leave a trace when they are.              *)

\* AllocatePendingOperationalKey: `f' is 0 for a new fabric.  The flag that
\* says what the key is for is set before the last checks.
AllocatePendingOperationalKey(f, k) ==
    LET index   == IF f = 0 THEN EnsuredNext(nextIndex, Live) ELSE f
        known   == index # 0
        legal   == known /\ CanSetPendingIndex(index)
        created == legal /\ opKey.index \in {0, index}
    IN  /\ "kIsPendingFabricDataPresent" \notin flags
        /\ f # 0 => "kIsTrustedRootPending" \notin flags
        /\ nextIndex' = EnsuredNext(nextIndex, Live)
        /\ flags' = (IF f # 0 THEN flags \cup {"kIsPendingKeyForUpdateNoc"}
                     ELSE IF known THEN flags \ {"kIsPendingKeyForUpdateNoc"} ELSE flags)
                    \cup (IF created THEN {"kIsOperationalKeyPending"} ELSE {})
        /\ pendingIndex' = IF legal THEN index ELSE pendingIndex
        /\ opKey' = IF created THEN [index |-> index, key |-> k, active |-> FALSE] ELSE opKey
        /\ UNCHANGED <<states, pendingFabric, opCerts, storage, control>>

\* AddNewPendingTrustedRootCert: the certificate store refuses a root for an
\* index that still has one in storage, after the index was made pending.
TrustedRootAccepted ==
    LET index == EnsuredNext(nextIndex, Live)
    IN  index # 0 /\ CanSetPendingIndex(index) /\ opCerts = NoCerts /\ stored[index].rcac = None

AddNewPendingTrustedRootCert(r) ==
    LET index == EnsuredNext(nextIndex, Live)
        legal == index # 0 /\ CanSetPendingIndex(index)
        taken == TrustedRootAccepted
    IN  /\ flags \cap {"kIsTrustedRootPending", "kIsUpdatePending", "kIsAddPending"} = {}
        /\ nextIndex' = index
        /\ pendingIndex' = IF legal THEN index ELSE pendingIndex
        /\ opCerts' = IF taken THEN [index |-> index, rcac |-> r, noc |-> None] ELSE opCerts
        /\ flags' = IF taken THEN flags \cup {"kIsTrustedRootPending", "kIsPendingFabricDataPresent"}
                    ELSE flags
        /\ UNCHANGED <<states, pendingFabric, opKey, storage, control>>

\* The key check of AddOrUpdateInner; a pending key is activated by it.
KeyAccepted(f, noc) ==
    IF opKey.key # None THEN opKey.index = f /\ opKey.key = noc.key ELSE stored[f].key # None
Activated == IF opKey.key # None THEN [opKey EXCEPT !.active = TRUE] ELSE opKey

\* AddNewPendingFabricCommon, and AddNewOpCertsForFabric under it.  The pending
\* index is that of the pending root, so CanSetPendingIndex never fails here.
CanAddFabric(noc) ==
    LET f == EnsuredNext(nextIndex, Live)
    IN  /\ "kIsTrustedRootPending" \in flags
        /\ "kIsUpdatePending" \notin flags
        /\ f # 0
        /\ HasOpKeypairForFabric(f) \/ opKey.key # None
        /\ ExistingFabrics(f, noc) = {}
        /\ opCerts.rcac # None
        /\ opCerts.noc = None
        /\ opCerts.index = f
        /\ stored[f].noc = None
        /\ stored[f].icac = None
        /\ CanSetPendingIndex(f)
        /\ Cardinality(Live) < MaxFabrics
        /\ noc.root = opCerts.rcac
        /\ KeyAccepted(f, noc)

AddNewPendingFabric(noc) ==
    LET f == EnsuredNext(nextIndex, Live)
    IN  /\ CanAddFabric(noc)
        /\ nextIndex' = f
        /\ pendingIndex' = f
        /\ opCerts' = [opCerts EXCEPT !.noc = noc]
        /\ opKey' = Activated
        /\ states' = [states EXCEPT ![f] = [noc |-> noc, label |-> EmptyLabel]]
        /\ flags' = flags \cup {"kIsAddPending", "kIsPendingFabricDataPresent"}
        /\ UNCHANGED <<pendingFabric, storage>>

\* UpdatePendingFabricCommon, and UpdateOpCertsForFabric under it.
CanUpdateFabric(f, noc) ==
    /\ HasOpKeypairForFabric(f) \/ opKey.key # None
    /\ flags \cap {"kIsTrustedRootPending", "kIsAddPending"} = {}
    /\ f \in Live
    /\ ExistingFabrics(f, noc) = {f}
    /\ opCerts = NoCerts
    /\ stored[f].rcac # None
    /\ stored[f].noc # None

UpdatePendingFabric(f, noc) ==
    /\ CanUpdateFabric(f, noc)
    /\ CanSetPendingIndex(f)
    /\ KeyAccepted(f, noc)
    /\ pendingIndex' = f
    /\ opCerts' = [index |-> f, rcac |-> None, noc |-> noc]
    /\ opKey' = Activated
    /\ pendingFabric' = [noc |-> noc, label |-> FindFabricWithIndex(f).label]
    /\ flags' = flags \cup {"kIsUpdatePending", "kIsPendingFabricDataPresent"}
    /\ UNCHANGED <<states, nextIndex, storage, control>>

\* The chain does not validate, or is for another key: RevertPendingOpCertsExceptRoot
\* also forgets the pending index, but not the pending key.
RefusePendingUpdate(f, noc) ==
    /\ CanUpdateFabric(f, noc)
    /\ CanSetPendingIndex(f)
    /\ ~KeyAccepted(f, noc)
    /\ pendingIndex' = 0
    /\ UNCHANGED <<states, pendingFabric, flags, nextIndex, opCerts, opKey, storage, control>>

\* Another index is pending: SetPendingDataFabricIndex fails after the NOC was
\* given to the certificate store, and nothing takes it back.
AbandonPendingUpdate(f, noc) ==
    /\ CanUpdateFabric(f, noc)
    /\ ~CanSetPendingIndex(f)
    /\ opCerts' = [index |-> f, rcac |-> None, noc |-> noc]
    /\ UNCHANGED <<states, pendingFabric, flags, pendingIndex, nextIndex, opKey, storage, control>>

\* SetFabricLabel: stored at once only if no addition and no update is pending.
SetFabricLabel(f, l) ==
    /\ FindFabricWithIndex(f) # None
    /\ IF HasPendingFabricUpdate /\ pendingIndex = f
       THEN pendingFabric' = [pendingFabric EXCEPT !.label = l] /\ UNCHANGED states
       ELSE states' = [states EXCEPT ![f].label = l] /\ UNCHANGED pendingFabric
    /\ \/ /\ flags \cap {"kIsAddPending", "kIsUpdatePending"} = {}
          /\ stored' = [stored EXCEPT ![f].meta = l]
       \/ /\ flags \cap {"kIsAddPending", "kIsUpdatePending"} # {} \/ "metadata" \in MayFail
          /\ UNCHANGED stored
    /\ UNCHANGED <<flags, pendingIndex, nextIndex, opCerts, opKey, indexInfo, marker, control>>

-----------------------------------------------------------------------------
(* Delete.                                                                 *)

\* The step named s is next, and leads to the step named t.
Step(s, t) == pc = s /\ pc' = t

\* A write succeeds, or fails if it is one of those that may.
Outcome(s) == IF s \in MayFail THEN BOOLEAN ELSE {TRUE}

\* The pending key survives the revert.
RevertedButKey ==
    /\ pendingFabric' = None
    /\ opCerts' = NoCerts
    /\ opKey' = opKey
    /\ flags' = {}
    /\ pendingIndex' = 0

\* RevertPendingFabricData when no addition is pending.
Reverted ==
    /\ pendingFabric' = None
    /\ opCerts' = NoCerts
    /\ opKey' = NoKey
    /\ flags' = {}
    /\ pendingIndex' = 0

Delete(f, back) ==
    /\ pc' = "delMetadata"
    /\ victim' = f
    /\ resume' = back
    /\ IF HasPendingFabricUpdate /\ pendingIndex = f
       THEN Reverted
       ELSE UNCHANGED <<pendingFabric, opCerts, opKey, flags, pendingIndex>>
    /\ UNCHANGED <<states, nextIndex, storage>>

DeleteMetadataFromStorage ==
    /\ Step("delMetadata", "delKey")
    /\ stored' = [stored EXCEPT ![victim].meta = None]
    /\ UNCHANGED <<memory, indexInfo, marker, victim, resume, committing, failed>>

RemoveOpKeypairForFabric ==
    /\ Step("delKey", "delNoc")
    /\ opKey' = IF opKey.key # None /\ opKey.index = victim THEN NoKey ELSE opKey
    /\ stored' = [stored EXCEPT ![victim].key = None]
    /\ UNCHANGED <<states, pendingFabric, flags, pendingIndex, nextIndex, opCerts, indexInfo, marker,
                   victim, resume, committing, failed>>

\* RemoveOpCertsForFabric drops every pending certificate, whichever fabric it
\* is for, and then the stored ones of this fabric.
RemoveOpCertsForFabric ==
    /\ opCerts' = NoCerts
    /\ Step("delNoc", "delIcac")
    /\ stored' = [stored EXCEPT ![victim].noc = None]
    /\ UNCHANGED <<states, pendingFabric, flags, pendingIndex, nextIndex, opKey, indexInfo, marker,
                   victim, resume, committing, failed>>

DeleteIcac ==
    /\ Step("delIcac", "delRcac")
    /\ stored' = [stored EXCEPT ![victim].icac = None]
    /\ UNCHANGED <<memory, indexInfo, marker, victim, resume, committing, failed>>

DeleteRcac ==
    /\ Step("delRcac", "delIndex")
    /\ stored' = [stored EXCEPT ![victim].rcac = None]
    /\ UNCHANGED <<memory, indexInfo, marker, victim, resume, committing, failed>>

\* The end of Delete: the entry is reset and the list of indices is stored; a
\* failure to store it is ignored.
DeleteFromTable ==
    /\ pc = "delIndex"
    /\ pc' = resume
    /\ IF victim \in Live
       THEN /\ states' = [states EXCEPT ![victim] = None]
            /\ nextIndex' = IF nextIndex = 0 THEN victim ELSE nextIndex
            /\ \E ok \in Outcome("delIndex") :
                  indexInfo' = IF ok THEN [next |-> nextIndex', list |-> Live \ {victim}] ELSE indexInfo
       ELSE UNCHANGED <<states, nextIndex, indexInfo>>
    /\ UNCHANGED <<pendingFabric, flags, pendingIndex, opCerts, opKey, stored, marker,
                   victim, resume, committing, failed>>

-----------------------------------------------------------------------------
(* Reverting.                                                              *)

\* RevertPendingOpCertsExceptRoot deletes a pending addition; what follows
\* that is a step of its own, `rest'.
RevertPendingOpCertsExceptRoot(rest) ==
    /\ pendingFabric' = None
    /\ opCerts' = IF opCerts.rcac = None THEN NoCerts ELSE [opCerts EXCEPT !.noc = None]
    /\ IF "kIsAddPending" \in flags
       THEN pc' = "delMetadata" /\ victim' = pendingIndex /\ resume' = rest
       ELSE pc' = rest /\ UNCHANGED <<victim, resume>>
    /\ UNCHANGED <<states, flags, pendingIndex, nextIndex, opKey, storage, committing>>

ExceptRootRest ==
    /\ Step("exceptRootRest", "returned")
    /\ flags' = flags \ {"kIsAddPending", "kIsUpdatePending"}
    /\ pendingIndex' = IF "kIsTrustedRootPending" \in flags THEN pendingIndex ELSE 0
    /\ UNCHANGED <<states, pendingFabric, nextIndex, opCerts, opKey, storage,
                   victim, resume, committing, failed>>

RevertPendingFabricData == RevertPendingOpCertsExceptRoot("revertRest")

\* RevertPendingFabricData that forgets mStateFlags.
RevertRestKeepsFlags ==
    /\ Step("revertRest", "returned")
    /\ pendingFabric' = None
    /\ opCerts' = NoCerts
    /\ opKey' = NoKey
    /\ UNCHANGED <<states, flags, pendingIndex, nextIndex, storage, victim, resume, committing, failed>>

RevertRest ==
    /\ Step("revertRest", "returned")
    /\ Reverted
    /\ UNCHANGED <<states, nextIndex, storage, victim, resume, committing, failed>>

-----------------------------------------------------------------------------
(* CommitPendingFabricData.                                                *)

\* The pre-flight checks.
OnlyNewRoot ==
    /\ {"kIsPendingFabricDataPresent", "kIsTrustedRootPending"} \subseteq flags
    /\ flags \cap {"kIsAddPending", "kIsUpdatePending"} = {}

InvalidState ==
    LET adding   == "kIsAddPending" \in flags
        updating == "kIsUpdatePending" \in flags
    IN  /\ "kIsPendingFabricDataPresent" \in flags
        /\ \/ pendingIndex = 0
           \/ adding = updating
           \/ adding /\ "kIsTrustedRootPending" \notin flags
           \/ updating /\ pendingFabric = None
           \/ adding /\ ~HasCertificateForFabric(pendingIndex, "rcac")
           \/ FindFabricWithIndex(pendingIndex) = None
           \/ ~HasOpKeypairForFabric(pendingIndex)

CommitPendingFabricData ==
    /\ IF "kIsPendingFabricDataPresent" \notin flags \/ OnlyNewRoot \/ InvalidState
       THEN /\ Reverted
            /\ pc' = "returned"
            /\ failed' = (OnlyNewRoot \/ InvalidState)
       ELSE /\ pc' = "marker"
            /\ failed' = FALSE
            /\ UNCHANGED <<pendingFabric, opCerts, opKey, flags, pendingIndex>>
    /\ UNCHANGED <<states, nextIndex, storage, victim, resume, committing>>

\* StoreCommitMarker, after which the shadow entry of an update becomes the
\* entry in use.
StoreCommitMarker ==
    /\ Step("marker", "metadata")
    /\ \E ok \in Outcome("marker") :
          /\ marker' = IF ok THEN pendingIndex ELSE marker
          /\ failed' = ~ok
    /\ committing' = pendingIndex
    /\ flags' = flags \ {"kIsPendingFabricDataPresent"}
    /\ IF "kIsUpdatePending" \in flags
       THEN states' = [states EXCEPT ![pendingIndex] = pendingFabric] /\ pendingFabric' = None
       ELSE UNCHANGED <<states, pendingFabric>>
    /\ UNCHANGED <<pendingIndex, nextIndex, opCerts, opKey, stored, indexInfo, victim, resume>>

StoreFabricMetadata ==
    /\ Step("metadata", "key")
    /\ \E ok \in Outcome("metadata") :
          /\ stored' = IF ok THEN [stored EXCEPT ![committing].meta = states[committing].label] ELSE stored
          /\ failed' = (failed \/ ~ok)
    /\ UNCHANGED <<memory, indexInfo, marker, victim, resume, committing>>

\* CommitOpKeypairForFabric, if a key is pending at all.  Without a pending
\* chain CommitOpCertsForFabric fails before it writes.
CommitOpKeypairForFabric ==
    LET pending == HasOpKeypairForFabric(committing) /\ opKey.key # None
        legal   == opKey.index = committing /\ opKey.active
        chain   == opCerts.index = committing /\ opCerts.noc # None
    IN  /\ Step("key", IF chain THEN "noc" ELSE "index")
        /\ opKey' = IF pending THEN NoKey ELSE opKey
        /\ \E ok \in Outcome("key") :
              /\ stored' = IF pending /\ legal /\ ok THEN [stored EXCEPT ![committing].key = opKey.key] ELSE stored
              /\ failed' = (failed \/ (pending /\ ~(legal /\ ok)) \/ ~chain)
        /\ opCerts' = IF chain THEN opCerts ELSE NoCerts
        /\ UNCHANGED <<states, pendingFabric, flags, pendingIndex, nextIndex, indexInfo, marker,
                       victim, resume, committing>>

\* The chain of an update left as it was.
CommitNocOfNewFabric ==
    /\ Step("noc", "icac")
    /\ stored' = IF stored[committing].noc = None
                 THEN [stored EXCEPT ![committing].noc = opCerts.noc] ELSE stored
    /\ UNCHANGED <<memory, indexInfo, marker, victim, resume, committing, failed>>

\* CommitOpCertsForFabric: NOC, then ICAC (deleted if there is none), then the
\* new root.  A failed write does not stop the ones after it; on an addition
\* all three are deleted again.
CommitNoc ==
    /\ Step("noc", "icac")
    /\ \E ok \in Outcome("noc") :
          /\ stored' = IF ok THEN [stored EXCEPT ![committing].noc = opCerts.noc] ELSE stored
          /\ failed' = (failed \/ ~ok)
    /\ UNCHANGED <<memory, indexInfo, marker, victim, resume, committing>>

CommitIcac ==
    /\ Step("icac", "rcac")
    /\ \E ok \in Outcome("icac") :
          /\ stored' = IF ok
                       THEN [stored EXCEPT ![committing].icac =
                               IF opCerts.noc.ica THEN opCerts.noc.key ELSE None]
                       ELSE stored
          /\ failed' = (failed \/ ~ok)
    /\ UNCHANGED <<memory, indexInfo, marker, victim, resume, committing>>

CommitRcac ==
    LET adding  == opCerts.rcac # None
        now     == stored[committing]
        written == now.noc = opCerts.noc /\ (now.icac # None) = opCerts.noc.ica
    IN
    /\ Step("rcac", "index")
    /\ \E ok \in Outcome("rcac") :
          /\ stored' = [stored EXCEPT ![committing] =
                           IF ~adding THEN now
                           ELSE IF written /\ ok THEN [now EXCEPT !.rcac = opCerts.rcac]
                           ELSE [now EXCEPT !.noc = None, !.icac = None, !.rcac = None]]
          /\ failed' = (failed \/ (adding /\ ~ok))
    /\ opCerts' = NoCerts
    /\ UNCHANGED <<states, pendingFabric, flags, pendingIndex, nextIndex, opKey, indexInfo, marker,
                   victim, resume, committing>>

\* The list of indices stored without moving the next index on.
CommitIndexNotMoved ==
    /\ Step("index", "finish")
    /\ indexInfo' = [next |-> nextIndex, list |-> Live]
    /\ UNCHANGED <<memory, stored, marker, victim, resume, committing, failed>>

\* The next index moved on without storing the list of indices.
CommitIndexNotStored ==
    /\ Step("index", "finish")
    /\ nextIndex' = IF "kIsAddPending" \in flags THEN NextFree(nextIndex, Live) ELSE nextIndex
    /\ UNCHANGED <<states, pendingFabric, flags, pendingIndex, opCerts, opKey, storage,
                   victim, resume, committing, failed>>

\* An addition moves the next index on and stores the list of indices.
CommitFabricIndexInfo ==
    /\ Step("index", "finish")
    /\ IF "kIsAddPending" \in flags
       THEN /\ nextIndex' = NextFree(nextIndex, Live)
            /\ \E ok \in Outcome("index") :
                  /\ indexInfo' = IF ok THEN [next |-> nextIndex', list |-> Live] ELSE indexInfo
                  /\ failed' = (failed \/ ~ok)
       ELSE UNCHANGED <<nextIndex, indexInfo, failed>>
    /\ UNCHANGED <<states, pendingFabric, flags, pendingIndex, opCerts, opKey, stored, marker,
                   victim, resume, committing>>

\* The marker cleared after an error, with what could be written left there.
CommitFinishKeepsPartial ==
    /\ Step("finish", "clearMarker")
    /\ flags' = {}
    /\ pendingIndex' = 0
    /\ pendingFabric' = None
    /\ UNCHANGED <<states, nextIndex, opCerts, opKey, storage, victim, resume, committing, failed>>

\* After an error everything of the fabric is deleted, on an update too.
CommitFinish ==
    /\ pc = "finish"
    /\ flags' = {}
    /\ pendingIndex' = 0
    /\ pendingFabric' = None
    /\ IF failed
       THEN pc' = "delMetadata" /\ victim' = committing /\ resume' = "commitFailed"
       ELSE pc' = "clearMarker" /\ UNCHANGED <<victim, resume>>
    /\ UNCHANGED <<states, nextIndex, opCerts, opKey, storage, committing, failed>>

CommitFailed ==
    /\ Step("commitFailed", "clearMarker")
    /\ Reverted
    /\ UNCHANGED <<states, nextIndex, storage, victim, resume, committing, failed>>

ClearCommitMarker ==
    /\ Step("clearMarker", "returned")
    /\ marker' = 0
    /\ committing' = 0
    /\ UNCHANGED <<memory, stored, indexInfo, victim, resume, failed>>

TableStep ==
    \/ DeleteMetadataFromStorage \/ RemoveOpKeypairForFabric \/ RemoveOpCertsForFabric
    \/ DeleteIcac \/ DeleteRcac \/ DeleteFromTable
    \/ ExceptRootRest \/ RevertRest
    \/ StoreCommitMarker \/ StoreFabricMetadata \/ CommitOpKeypairForFabric
    \/ CommitNoc \/ CommitIcac \/ CommitRcac \/ CommitFabricIndexInfo
    \/ CommitFinish \/ CommitFailed \/ ClearCommitMarker

-----------------------------------------------------------------------------
(* FabricTable::Init after a restart: memory is rebuilt from storage, and  *)
(* the fabric of an interrupted commit is deleted.                         *)

TableRestart ==
    LET loaded == {f \in Indices : Loadable(f)}
    IN  /\ states' = [f \in Indices |->
                        IF f \in loaded THEN [noc |-> stored[f].noc, label |-> stored[f].meta] ELSE None]
        /\ nextIndex' = EnsuredNext(indexInfo.next, loaded)
        /\ Reverted
        /\ pc' = IF marker = 0 THEN "returned" ELSE "delMetadata"
        /\ victim' = marker
        /\ resume' = "returned"
        /\ committing' = 0
        /\ failed' = FALSE
        /\ UNCHANGED storage
=============================================================================
