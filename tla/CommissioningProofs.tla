------------------------ MODULE CommissioningProofs ------------------------
(***************************************************************************)
(* What the fabric table and the commissioning commands guarantee, from    *)
(* the inductive invariant of CommissioningInvariant: the invariants the   *)
(* runs check, that the writes of a commit implement FabricDirectory, and  *)
(* that a restart finds what no RemoveFabric came between.                 *)
(***************************************************************************)
EXTENDS CommissioningInvariant

-----------------------------------------------------------------------------
(* The refinement of FabricDirectory.                                      *)

\* What is installed at an index.
LEMMA InstalledAt ==
    ASSUME NEW f \in Indices
    PROVE  /\ Kept(f) => Installed[f] = CredentialOf(f)
           /\ ~Kept(f) => Installed[f] = None
           /\ Kept(f)' => Installed'[f] = CredentialOf(f)'
           /\ ~Kept(f)' => Installed'[f] = None
  BY DEF Installed, Kept

\* What a restart would keep is a complete credential.
LEMMA KeptIsComplete ==
    ASSUME NEW f \in Indices
    PROVE  /\ TypeOK /\ StorageOK /\ Kept(f) => CredentialOf(f) \in CompleteCredentials
           /\ (TypeOK /\ StorageOK /\ Kept(f))' => CredentialOf(f)' \in CompleteCredentials
<1>1. ASSUME TypeOK, StorageOK, Kept(f) PROVE CredentialOf(f) \in CompleteCredentials
  <2>1. /\ stored[f].key \in Keys /\ stored[f].noc \in Nocs
        /\ stored[f].icac = IcacOf(stored[f].noc) /\ stored[f].rcac = stored[f].noc.root
    BY <1>1 DEF TypeOK, StoredFabrics, StorageOK, Kept, Loadable, Complete
  <2> QED
    BY <2>1 DEF CredentialOf, CompleteCredentials, IcacOf
<1>2. ASSUME TypeOK', StorageOK', Kept(f)' PROVE CredentialOf(f)' \in CompleteCredentials
  <2>1. /\ stored'[f].key \in Keys /\ stored'[f].noc \in Nocs
        /\ stored'[f].icac = IcacOf(stored'[f].noc) /\ stored'[f].rcac = stored'[f].noc.root
    BY <1>2 DEF TypeOK, StoredFabrics, StorageOK, Kept, Loadable, Complete
  <2> QED
    BY <2>1 DEF CredentialOf, CompleteCredentials, IcacOf
<1> QED
  BY <1>1, <1>2

\* Nothing changes for FabricDirectory if no index is taken up or dropped and
\* the credentials stay.
LEMMA InstalledUnchanged ==
    ASSUME InDoubt' = InDoubt,
           \A f \in Indices : Kept(f)' <=> Kept(f),
           \A f \in Indices : Kept(f) => CredentialOf(f)' = CredentialOf(f)
    PROVE  UNCHANGED <<Installed, InDoubt>>
<1>1. \A f \in Indices : Installed'[f] = Installed[f]
  BY InstalledAt
<1>2. Installed = [f \in Indices |-> Installed[f]] /\ Installed' = [f \in Indices |-> Installed'[f]]
  BY DEF Installed
<1> QED
  BY <1>1, <1>2

\* One index changes for FabricDirectory.
LEMMA InstalledChanged ==
    ASSUME NEW g \in Indices,
           \A f \in Indices \ {g} : Kept(f)' <=> Kept(f),
           \A f \in Indices \ {g} : Kept(f) => CredentialOf(f)' = CredentialOf(f)
    PROVE  Installed' = [Installed EXCEPT ![g] = Installed'[g]]
<1>1. \A f \in Indices \ {g} : Installed'[f] = Installed[f]
  BY InstalledAt
<1>2. Installed = [f \in Indices |-> Installed[f]] /\ Installed' = [f \in Indices |-> Installed'[f]]
  BY DEF Installed
<1> QED
  BY <1>1, <1>2

\* A step of FabricDirectory, or none.
DirectoryMoves ==
    \/ UNCHANGED <<Installed, InDoubt>>
    \/ \E f \in Indices :
          \/ InDoubt = 0 /\ InDoubt' = f /\ Installed' = [Installed EXCEPT ![f] = None]
          \/ \E c \in CompleteCredentials \cup {None} :
                InDoubt = f /\ InDoubt' = 0 /\ Installed' = [Installed EXCEPT ![f] = c]
          \/ Installed' = [Installed EXCEPT ![f] = None] /\ UNCHANGED InDoubt

\* Every step is a step of FabricDirectory or leaves it alone.
LEMMA DirectoryStep ==
    ASSUME TypeOK, ControlOK, MarkerOK, QueueOK, CertsOK, StorageOK, CommitOK, KeptShrinks,
           TypeOK', StorageOK', Next
    PROVE  DirectoryMoves
<1> USE FabricAssumption DEF memory, storage, control, tableVars
<1>a. UNCHANGED <<storage, committing>> => DirectoryMoves
  <2> SUFFICES ASSUME UNCHANGED <<storage, committing>>
               PROVE  UNCHANGED <<Installed, InDoubt>>
    BY DEF DirectoryMoves
  <2>1. InDoubt' = InDoubt
    BY DEF InDoubt
  <2>2. /\ \A f \in Indices : Kept(f)' <=> Kept(f)
        /\ \A f \in Indices : Kept(f) => CredentialOf(f)' = CredentialOf(f)
    BY <2>1 DEF Kept, Loadable, CredentialOf
  <2> QED
    BY <2>1, <2>2, InstalledUnchanged, Zenon
<1>b. \A f \in Indices : Installed'[f] \in CompleteCredentials \cup {None}
  <2> SUFFICES ASSUME NEW f \in Indices, Kept(f)'
               PROVE  CredentialOf(f)' \in CompleteCredentials
    BY InstalledAt
  <2> QED
    BY KeptIsComplete
<1>1. ASSUME NEW a \in Accessing, ArmFailSafe(a) PROVE DirectoryMoves
  BY <1>1, <1>a DEF ArmFailSafe
<1>2. ASSUME NEW a \in Accessing, NEW u \in BOOLEAN, CSRRequest(a, u) PROVE DirectoryMoves
  BY <1>2, <1>a DEF CSRRequest, AllocatePendingOperationalKey
<1>3. ASSUME NEW a \in Accessing, NEW r \in Roots, AddTrustedRootCertificate(a, r) PROVE DirectoryMoves
  BY <1>3, <1>a DEF AddTrustedRootCertificate, AddNewPendingTrustedRootCert
<1>4. ASSUME NEW a \in Accessing, NEW noc \in Nocs, AddNOC(a, noc) PROVE DirectoryMoves
  BY <1>4, <1>a DEF AddNOC, AddNewPendingFabric
<1>5. ASSUME NEW a \in Accessing, NEW noc \in Nocs, AddNOCUndone(a, noc) PROVE DirectoryMoves
  BY <1>5, <1>a DEF AddNOCUndone
<1>6. ASSUME NEW a \in Accessing, NEW noc \in Nocs, UpdateNOC(a, noc) PROVE DirectoryMoves
  BY <1>6, <1>a DEF UpdateNOC, UpdatePendingFabric, RefusePendingUpdate, AbandonPendingUpdate
<1>7. ASSUME NEW a \in Accessing, NEW l \in Labels, UpdateFabricLabel(a, l) PROVE DirectoryMoves
  <2>1. InDoubt' = InDoubt /\ UNCHANGED indexInfo
    BY <1>7, LabelKeepsNocs DEF InDoubt, control
  <2>2. \A f \in Indices : Kept(f) => Kept(f)'
    BY <1>7, <2>1, LabelKeepsNocs DEF Kept, Loadable
  <2>3. \A f \in Indices : Kept(f)' => Kept(f)
    BY <1>7, LabelKeepsNocs DEF KeptShrinks, ClearCommitMarker, Step, ControlOK
  <2>4. \A f \in Indices : CredentialOf(f)' = CredentialOf(f)
    BY <1>7, LabelKeepsNocs DEF CredentialOf
  <2> QED
    BY <2>1, <2>2, <2>3, <2>4, InstalledUnchanged, Zenon DEF DirectoryMoves
<1>8. ASSUME NEW a \in Accessing, CommissioningComplete(a) PROVE DirectoryMoves
  BY <1>8, <1>a DEF CommissioningComplete, CommitPendingFabricData
<1>9. ASSUME NEW f \in Indices, RemoveFabric(f) PROVE DirectoryMoves
  BY <1>9, <1>a DEF RemoveFabric, Delete
<1>10. CASE FailSafeTimerExpired
  BY <1>10, <1>a DEF FailSafeTimerExpired
<1>11. CASE FailSafeCleanup
  BY <1>11, <1>a DEF FailSafeCleanup, RevertPendingFabricData, RevertPendingOpCertsExceptRoot
<1>12. CASE HandleDisarmFailSafe
  BY <1>12, <1>a DEF HandleDisarmFailSafe
<1>13. CASE ClearMarkerAfterCleanup
  <2>1. marker \in Indices /\ committing = 0 /\ handler = "idle"
    BY <1>13, ClearIsHead DEF ClearMarkerAfterCleanup, TypeOK
  <2>2. InDoubt = marker /\ InDoubt' = 0 /\ UNCHANGED <<stored, indexInfo>>
    BY <1>13, <2>1 DEF ClearMarkerAfterCleanup, InDoubt
  <2>3. /\ \A f \in Indices \ {marker} : Kept(f)' <=> Kept(f)
        /\ \A f \in Indices \ {marker} : CredentialOf(f)' = CredentialOf(f)
    BY <2>2 DEF Kept, Loadable, CredentialOf, Indices
  <2>4. Installed'[marker] \in CompleteCredentials \cup {None}
    BY <1>b, <2>1
  <2>5. Installed' = [Installed EXCEPT ![marker] = Installed'[marker]]
    BY <2>1, <2>3, InstalledChanged
  <2> QED
    BY <2>1, <2>2, <2>4, <2>5, Zenon DEF DirectoryMoves
<1>14. CASE CommandReturns
  BY <1>14, <1>a DEF CommandReturns, Finished
<1>15. CASE CommissioningCompleteReturns
  BY <1>15, <1>a DEF CommissioningCompleteReturns, Finished
<1>16. CASE CleanupReverted
  BY <1>16, <1>a DEF CleanupReverted, Finished, Delete
<1>17. CASE CleanupReturns
  BY <1>17, <1>a DEF CleanupReturns, Finished
<1>18. CASE ServerInitReturns
  BY <1>18, <1>a DEF ServerInitReturns, Finished
<1>19. CASE Crash
  <2>1. InDoubt' = InDoubt /\ UNCHANGED <<stored, indexInfo>>
    BY <1>19 DEF Crash, TableRestart, InDoubt
  <2>2. /\ \A f \in Indices : Kept(f)' <=> Kept(f)
        /\ \A f \in Indices : Kept(f) => CredentialOf(f)' = CredentialOf(f)
    BY <2>1 DEF Kept, Loadable, CredentialOf
  <2> QED
    BY <2>1, <2>2, InstalledUnchanged, Zenon DEF DirectoryMoves
<1>20. CASE DeleteMetadataFromStorage /\ UNCHANGED <<failSafe, queue, handler, crashes, overlapped>>
  <2>1. victim \in Indices
    BY <1>20 DEF DeleteMetadataFromStorage, Step, ControlOK, Deleting, DeleteSteps
  <2>2. /\ InDoubt' = InDoubt
        /\ ~Kept(victim)' /\ victim' = victim
        /\ \A f \in Indices \ {victim} : Kept(f)' <=> Kept(f)
        /\ \A f \in Indices \ {victim} : CredentialOf(f)' = CredentialOf(f)
    BY <1>20, <2>1 DEF DeleteMetadataFromStorage, InDoubt, Kept, Loadable, CredentialOf,
         TypeOK, StoredFabrics
  <2>3. Installed'[victim] = None
    BY <2>1, <2>2, InstalledAt
  <2>4. Installed' = [Installed EXCEPT ![victim] = None]
    BY <2>1, <2>2, <2>3, InstalledChanged
  <2> QED
    BY <2>1, <2>2, <2>4, Zenon DEF DirectoryMoves
<1>21. CASE RemoveOpKeypairForFabric /\ UNCHANGED <<failSafe, queue, handler, crashes, overlapped>>
  <2>1. victim \in Indices /\ stored[victim].meta = None
    BY <1>21 DEF RemoveOpKeypairForFabric, Step, ControlOK, StorageOK, Deleting, DeleteSteps
  <2>2. /\ InDoubt' = InDoubt
        /\ \A f \in Indices : Kept(f)' <=> Kept(f)
        /\ \A f \in Indices : Kept(f) => CredentialOf(f)' = CredentialOf(f)
    BY <1>21, <2>1 DEF RemoveOpKeypairForFabric, InDoubt, Kept, Loadable, CredentialOf,
         TypeOK, StoredFabrics
  <2> QED
    BY <2>2, InstalledUnchanged, Zenon DEF DirectoryMoves
<1>22. CASE RemoveOpCertsForFabric /\ UNCHANGED <<failSafe, queue, handler, crashes, overlapped>>
  <2>1. victim \in Indices /\ stored[victim].meta = None
    BY <1>22 DEF RemoveOpCertsForFabric, Step, ControlOK, StorageOK, Deleting, DeleteSteps
  <2>2. /\ InDoubt' = InDoubt
        /\ \A f \in Indices : Kept(f)' <=> Kept(f)
        /\ \A f \in Indices : Kept(f) => CredentialOf(f)' = CredentialOf(f)
    BY <1>22, <2>1 DEF RemoveOpCertsForFabric, InDoubt, Kept, Loadable, CredentialOf,
         TypeOK, StoredFabrics
  <2> QED
    BY <2>2, InstalledUnchanged, Zenon DEF DirectoryMoves
<1>23. CASE DeleteIcac /\ UNCHANGED <<failSafe, queue, handler, crashes, overlapped>>
  <2>1. victim \in Indices /\ stored[victim].meta = None
    BY <1>23 DEF DeleteIcac, Step, ControlOK, StorageOK, Deleting, DeleteSteps
  <2>2. /\ InDoubt' = InDoubt
        /\ \A f \in Indices : Kept(f)' <=> Kept(f)
        /\ \A f \in Indices : Kept(f) => CredentialOf(f)' = CredentialOf(f)
    BY <1>23, <2>1 DEF DeleteIcac, InDoubt, Kept, Loadable, CredentialOf, TypeOK, StoredFabrics
  <2> QED
    BY <2>2, InstalledUnchanged, Zenon DEF DirectoryMoves
<1>24. CASE DeleteRcac /\ UNCHANGED <<failSafe, queue, handler, crashes, overlapped>>
  <2>1. victim \in Indices /\ stored[victim].meta = None
    BY <1>24 DEF DeleteRcac, Step, ControlOK, StorageOK, Deleting, DeleteSteps
  <2>2. /\ InDoubt' = InDoubt
        /\ \A f \in Indices : Kept(f)' <=> Kept(f)
        /\ \A f \in Indices : Kept(f) => CredentialOf(f)' = CredentialOf(f)
    BY <1>24, <2>1 DEF DeleteRcac, InDoubt, Kept, Loadable, CredentialOf, TypeOK, StoredFabrics
  <2> QED
    BY <2>2, InstalledUnchanged, Zenon DEF DirectoryMoves
<1>25. CASE DeleteFromTable /\ UNCHANGED <<failSafe, queue, handler, crashes, overlapped>>
  <2>1. InDoubt' = InDoubt /\ UNCHANGED stored /\ stored[victim].meta = None
    BY <1>25 DEF DeleteFromTable, InDoubt, StorageOK, DeleteSteps
  <2>2. indexInfo'.list = indexInfo.list \/ indexInfo'.list = Live \ {victim}
    BY <1>25 DEF DeleteFromTable
  <2>3. \A f \in Indices : Kept(f)' => Kept(f)
    BY <1>25 DEF KeptShrinks, ClearCommitMarker, DeleteFromTable, Step
  <2>4. \A f \in Indices : Kept(f) => Kept(f)'
    BY <2>1, <2>2 DEF StorageOK, Kept, Loadable, InUse, Live
  <2>5. \A f \in Indices : CredentialOf(f)' = CredentialOf(f)
    BY <2>1 DEF CredentialOf
  <2> QED
    BY <2>1, <2>3, <2>4, <2>5, InstalledUnchanged, Zenon DEF DirectoryMoves
<1>26. CASE ExceptRootRest /\ UNCHANGED <<failSafe, queue, handler, crashes, overlapped>>
  BY <1>26, <1>a DEF ExceptRootRest
<1>27. CASE RevertRest /\ UNCHANGED <<failSafe, queue, handler, crashes, overlapped>>
  BY <1>27, <1>a DEF RevertRest
<1>28. CASE StoreCommitMarker /\ UNCHANGED <<failSafe, queue, handler, crashes, overlapped>>
  <2>0. handler = "complete" /\ pc = "marker" /\ committing = 0
    BY <1>28 DEF StoreCommitMarker, Step, TypeOK, ControlOK, Handlers, Writing, CommitSteps,
         DeleteSteps
  <2>1. pendingIndex \in Indices /\ pendingIndex' = pendingIndex
    BY <1>28, <2>0 DEF StoreCommitMarker, CommitOK, CommitStarts
  <2>2. InDoubt = 0 /\ InDoubt' = pendingIndex /\ UNCHANGED <<stored, indexInfo>>
    BY <1>28, <2>0, <2>1 DEF StoreCommitMarker, InDoubt, MarkerOK, Indices
  <2>3. /\ ~Kept(pendingIndex)'
        /\ \A f \in Indices \ {pendingIndex} : Kept(f)' <=> Kept(f)
        /\ \A f \in Indices \ {pendingIndex} : CredentialOf(f)' = CredentialOf(f)
    BY <2>1, <2>2 DEF Kept, Loadable, CredentialOf, Indices
  <2>4. Installed'[pendingIndex] = None
    BY <2>1, <2>3, InstalledAt
  <2>5. Installed' = [Installed EXCEPT ![pendingIndex] = None]
    BY <2>1, <2>3, <2>4, InstalledChanged
  <2> QED
    BY <2>1, <2>2, <2>5, Zenon DEF DirectoryMoves
<1>29. CASE StoreFabricMetadata /\ UNCHANGED <<failSafe, queue, handler, crashes, overlapped>>
  <2>1. committing \in Indices
    BY <1>29, CommitIndex DEF StoreFabricMetadata, Step, Writing, CommitSteps, DeleteSteps
  <2>2. InDoubt = committing /\ InDoubt' = committing /\ UNCHANGED indexInfo
    BY <1>29, <2>1 DEF StoreFabricMetadata, InDoubt, Indices
  <2>3. \A f \in Indices \ {committing} : stored'[f] = stored[f]
    BY <1>29 DEF StoreFabricMetadata, TypeOK
  <2>4. /\ \A f \in Indices : Kept(f)' <=> Kept(f)
        /\ \A f \in Indices : Kept(f) => CredentialOf(f)' = CredentialOf(f)
    BY <2>2, <2>3 DEF Kept, Loadable, CredentialOf
  <2> QED
    BY <2>2, <2>4, InstalledUnchanged, Zenon DEF DirectoryMoves
<1>30. CASE CommitOpKeypairForFabric /\ UNCHANGED <<failSafe, queue, handler, crashes, overlapped>>
  <2>1. committing \in Indices
    BY <1>30, CommitIndex DEF CommitOpKeypairForFabric, Step, Writing, CommitSteps, DeleteSteps
  <2>2. InDoubt = committing /\ InDoubt' = committing /\ UNCHANGED indexInfo
    BY <1>30, <2>1 DEF CommitOpKeypairForFabric, InDoubt, Indices
  <2>3. \A f \in Indices \ {committing} : stored'[f] = stored[f]
    BY <1>30 DEF CommitOpKeypairForFabric, TypeOK
  <2>4. /\ \A f \in Indices : Kept(f)' <=> Kept(f)
        /\ \A f \in Indices : Kept(f) => CredentialOf(f)' = CredentialOf(f)
    BY <2>2, <2>3 DEF Kept, Loadable, CredentialOf
  <2> QED
    BY <2>2, <2>4, InstalledUnchanged, Zenon DEF DirectoryMoves
<1>31. CASE CommitNoc /\ UNCHANGED <<failSafe, queue, handler, crashes, overlapped>>
  <2>1. committing \in Indices
    BY <1>31, CommitIndex DEF CommitNoc, Step, Writing, CommitSteps, DeleteSteps
  <2>2. InDoubt = committing /\ InDoubt' = committing /\ UNCHANGED indexInfo
    BY <1>31, <2>1 DEF CommitNoc, InDoubt, Indices
  <2>3. \A f \in Indices \ {committing} : stored'[f] = stored[f]
    BY <1>31 DEF CommitNoc, TypeOK
  <2>4. /\ \A f \in Indices : Kept(f)' <=> Kept(f)
        /\ \A f \in Indices : Kept(f) => CredentialOf(f)' = CredentialOf(f)
    BY <2>2, <2>3 DEF Kept, Loadable, CredentialOf
  <2> QED
    BY <2>2, <2>4, InstalledUnchanged, Zenon DEF DirectoryMoves
<1>32. CASE CommitIcac /\ UNCHANGED <<failSafe, queue, handler, crashes, overlapped>>
  <2>1. committing \in Indices
    BY <1>32, CommitIndex DEF CommitIcac, Step, Writing, CommitSteps, DeleteSteps
  <2>2. InDoubt = committing /\ InDoubt' = committing /\ UNCHANGED indexInfo
    BY <1>32, <2>1 DEF CommitIcac, InDoubt, Indices
  <2>3. \A f \in Indices \ {committing} : stored'[f] = stored[f]
    BY <1>32 DEF CommitIcac, TypeOK
  <2>4. /\ \A f \in Indices : Kept(f)' <=> Kept(f)
        /\ \A f \in Indices : Kept(f) => CredentialOf(f)' = CredentialOf(f)
    BY <2>2, <2>3 DEF Kept, Loadable, CredentialOf
  <2> QED
    BY <2>2, <2>4, InstalledUnchanged, Zenon DEF DirectoryMoves
<1>33. CASE CommitRcac /\ UNCHANGED <<failSafe, queue, handler, crashes, overlapped>>
  <2>1. committing \in Indices
    BY <1>33, CommitIndex DEF CommitRcac, Step, Writing, CommitSteps, DeleteSteps
  <2>2. InDoubt = committing /\ InDoubt' = committing /\ UNCHANGED indexInfo
    BY <1>33, <2>1 DEF CommitRcac, InDoubt, Indices
  <2>3. \A f \in Indices \ {committing} : stored'[f] = stored[f]
    BY <1>33 DEF CommitRcac, TypeOK
  <2>4. /\ \A f \in Indices : Kept(f)' <=> Kept(f)
        /\ \A f \in Indices : Kept(f) => CredentialOf(f)' = CredentialOf(f)
    BY <2>2, <2>3 DEF Kept, Loadable, CredentialOf
  <2> QED
    BY <2>2, <2>4, InstalledUnchanged, Zenon DEF DirectoryMoves
<1>34. CASE CommitFabricIndexInfo /\ UNCHANGED <<failSafe, queue, handler, crashes, overlapped>>
  <2>1. InDoubt' = InDoubt /\ UNCHANGED stored
    BY <1>34 DEF CommitFabricIndexInfo, InDoubt
  <2>2. indexInfo'.list = indexInfo.list \/ indexInfo'.list = Live
    BY <1>34 DEF CommitFabricIndexInfo
  <2>3. \A f \in Indices : Kept(f)' => Kept(f)
    BY <1>34 DEF KeptShrinks, ClearCommitMarker, CommitFabricIndexInfo, Step
  <2>4. \A f \in Indices : Kept(f) => Kept(f)'
    BY <2>1, <2>2 DEF StorageOK, Kept, Loadable, InUse, Live
  <2>5. \A f \in Indices : CredentialOf(f)' = CredentialOf(f)
    BY <2>1 DEF CredentialOf
  <2> QED
    BY <2>1, <2>3, <2>4, <2>5, InstalledUnchanged, Zenon DEF DirectoryMoves
<1>35. CASE CommitFinish /\ UNCHANGED <<failSafe, queue, handler, crashes, overlapped>>
  BY <1>35, <1>a DEF CommitFinish
<1>36. CASE CommitFailed /\ UNCHANGED <<failSafe, queue, handler, crashes, overlapped>>
  BY <1>36, <1>a DEF CommitFailed
<1>37. CASE ClearCommitMarker /\ UNCHANGED <<failSafe, queue, handler, crashes, overlapped>>
  <2>1. committing \in Indices
    BY <1>37, CommitIndex DEF ClearCommitMarker, Step, Writing, CommitSteps, DeleteSteps
  <2>2. InDoubt = committing /\ InDoubt' = 0 /\ UNCHANGED <<stored, indexInfo>>
    BY <1>37, <2>1 DEF ClearCommitMarker, InDoubt, Indices
  <2>3. /\ \A f \in Indices \ {committing} : Kept(f)' <=> Kept(f)
        /\ \A f \in Indices \ {committing} : CredentialOf(f)' = CredentialOf(f)
    BY <2>2 DEF Kept, Loadable, CredentialOf, Indices
  <2>4. Installed'[committing] \in CompleteCredentials \cup {None}
    BY <1>b, <2>1
  <2>5. Installed' = [Installed EXCEPT ![committing] = Installed'[committing]]
    BY <2>1, <2>3, InstalledChanged
  <2> QED
    BY <2>1, <2>2, <2>4, <2>5, Zenon DEF DirectoryMoves
<1> QED
  BY <1>1, <1>2, <1>3, <1>4, <1>5, <1>6, <1>7, <1>8, <1>9, <1>10, <1>11, <1>12, <1>13, <1>14,
       <1>15, <1>16, <1>17, <1>18, <1>19, <1>20, <1>21, <1>22, <1>23, <1>24, <1>25, <1>26,
       <1>27, <1>28, <1>29, <1>30, <1>31, <1>32, <1>33, <1>34, <1>35, <1>36, <1>37 DEF Next,
       Command, PostedWork, HandlerReturns, TableRuns, TableStep

-----------------------------------------------------------------------------
(* What holds as long as no fabric is removed while credentials are pending: *)
(* what is pending stays together until it is committed or undone, and so    *)
(* every fabric of the table is in storage, with the key of its NOC.         *)

\* An operation that is over, and one that cannot go back, leave no flag set.
FlagsCleared ==
    /\ handler \in {"remove", "cleanupDelete", "boot"} => flags = {}
    /\ handler \in {"cleanup", "complete"} /\ pc = "returned" => flags = {}
    /\ handler = "complete" /\ pc \in DeleteSteps \cup {"commitFailed", "clearMarker"} => flags = {}

\* A pending addition has what the checks of CommitPendingFabricData ask for.
AdditionPending ==
    pc = "idle" /\ "kIsAddPending" \in flags =>
      /\ {"kIsPendingFabricDataPresent", "kIsTrustedRootPending"} \subseteq flags
      /\ opCerts.noc # None /\ opCerts.rcac # None

\* An addition that is undone is deleted before it is forgotten.  After a failed AddNOC
\* the flags still name a root, but the certificate store has none.
AdditionUndone ==
    /\ handler \in {"addNoc", "cleanup"} /\ Deleting => victim = pendingIndex
    /\ pc \in {"exceptRootRest", "revertRest"} /\ "kIsAddPending" \in flags => pendingIndex \notin Live
    /\ handler = "addNoc" =>
         /\ "kIsTrustedRootPending" \in flags
         /\ pc \in {"exceptRootRest", "returned"} => opCerts = NoCerts

\* The key the flags name is there, or no chain can be added for it; the pending chain,
\* unless it is stray, is for the pending key, and that key is active.
KeyPending ==
    /\ pc = "idle" /\ "kIsOperationalKeyPending" \in flags =>
         opKey.key # None \/ ("kIsTrustedRootPending" \in flags /\ opCerts = NoCerts)
    /\ pc \in {"idle", "marker", "metadata", "key"} /\ opCerts.noc # None /\ ~StrayNoc =>
         opKey.active /\ opKey.key = opCerts.noc.key /\ opKey.index = opCerts.index

\* A commit without an error has stored the key of the chain it stores.
KeyWritten ==
    ~failed =>
      /\ pc \in {"noc", "icac", "rcac"} => stored[committing].key = opCerts.noc.key
      /\ pc \in {"index", "finish", "clearMarker"} => stored[committing].key = stored[committing].noc.key

\* A fabric of the table has its certificates in storage, unless it is in doubt, being
\* deleted, or still to be committed.
TableStored ==
    \A f \in Live :
      \/ stored[f].noc # None /\ stored[f].rcac # None
      \/ f = InDoubt
      \/ Deleting /\ victim = f
      \/ "kIsAddPending" \in flags /\ pendingIndex = f

\* What a restart would keep has the key of its NOC.
KeysMatch == \A f \in Indices : Kept(f) => stored[f].key = stored[f].noc.key

Undisturbed ==
    /\ FlagsCleared /\ AdditionPending /\ AdditionUndone
    /\ KeyPending /\ KeyWritten /\ TableStored /\ KeysMatch

\* Every operation that ends, but for the undoing of AddNOC, leaves no flag set.
LEMMA FlagsStep ==
    ASSUME TypeOK, ControlOK, FlagsCleared, ~overlapped, ~overlapped', Next
    PROVE  FlagsCleared'
<1> USE FabricAssumption DEF memory, storage, control, tableVars, DeleteSteps, CommitSteps, Deleting
<1>1. ASSUME NEW a \in Accessing, ArmFailSafe(a) PROVE FlagsCleared'
  BY <1>1 DEF ArmFailSafe, Ready, FlagsCleared
<1>2. ASSUME NEW a \in Accessing, NEW u \in BOOLEAN, CSRRequest(a, u) PROVE FlagsCleared'
  BY <1>2 DEF CSRRequest, AllocatePendingOperationalKey, Ready, FlagsCleared
<1>3. ASSUME NEW a \in Accessing, NEW r \in Roots, AddTrustedRootCertificate(a, r) PROVE FlagsCleared'
  BY <1>3 DEF AddTrustedRootCertificate, AddNewPendingTrustedRootCert, Ready, FlagsCleared
<1>4. ASSUME NEW a \in Accessing, NEW noc \in Nocs, AddNOC(a, noc) PROVE FlagsCleared'
  BY <1>4 DEF AddNOC, CanAddNOC, AddNewPendingFabric, Ready, FlagsCleared
<1>5. ASSUME NEW a \in Accessing, NEW noc \in Nocs, AddNOCUndone(a, noc) PROVE FlagsCleared'
  BY <1>5 DEF AddNOCUndone, CanAddNOC, Ready, FlagsCleared
<1>6. ASSUME NEW a \in Accessing, NEW noc \in Nocs, UpdateNOC(a, noc) PROVE FlagsCleared'
  BY <1>6 DEF UpdateNOC, UpdatePendingFabric, RefusePendingUpdate, AbandonPendingUpdate,
       CanUpdateFabric, Ready, FlagsCleared
<1>7. ASSUME NEW a \in Accessing, NEW l \in Labels, UpdateFabricLabel(a, l) PROVE FlagsCleared'
  BY <1>7, LabelKeepsNocs DEF FlagsCleared
<1>8. ASSUME NEW a \in Accessing, CommissioningComplete(a) PROVE FlagsCleared'
  BY <1>8 DEF CommissioningComplete, CommitPendingFabricData, Reverted, Ready,
       FlagsCleared
<1>9. ASSUME NEW f \in Indices, RemoveFabric(f) PROVE FlagsCleared'
  BY <1>9 DEF RemoveFabric, Delete, HasPendingFabricUpdate, Ready, FlagsCleared
<1>10. CASE FailSafeTimerExpired
  BY <1>10 DEF FailSafeTimerExpired, Ready, FlagsCleared
<1>11. CASE FailSafeCleanup
  BY <1>11 DEF FailSafeCleanup, RevertPendingFabricData, RevertPendingOpCertsExceptRoot,
       FlagsCleared
<1>12. CASE HandleDisarmFailSafe
  BY <1>12 DEF HandleDisarmFailSafe, FlagsCleared
<1>13. CASE ClearMarkerAfterCleanup
  BY <1>13 DEF ClearMarkerAfterCleanup, FlagsCleared
<1>14. CASE CommandReturns
  BY <1>14 DEF CommandReturns, Return, Finished, FlagsCleared
<1>15. CASE CommissioningCompleteReturns
  BY <1>15 DEF CommissioningCompleteReturns, Return, Finished, FlagsCleared
<1>16. CASE CleanupReverted
  BY <1>16 DEF CleanupReverted, Return, Finished, Delete, HasPendingFabricUpdate,
       FlagsCleared
<1>17. CASE CleanupReturns
  BY <1>17 DEF CleanupReturns, Return, Finished, FlagsCleared
<1>18. CASE ServerInitReturns
  BY <1>18 DEF ServerInitReturns, Return, Finished, FlagsCleared
<1>19. CASE Crash
  BY <1>19 DEF Crash, TableRestart, Reverted, FlagsCleared
<1>20. CASE DeleteMetadataFromStorage /\ UNCHANGED <<failSafe, queue, handler, crashes, overlapped>>
  BY <1>20 DEF DeleteMetadataFromStorage, Step, FlagsCleared
<1>21. CASE RemoveOpKeypairForFabric /\ UNCHANGED <<failSafe, queue, handler, crashes, overlapped>>
  BY <1>21 DEF RemoveOpKeypairForFabric, Step, FlagsCleared
<1>22. CASE RemoveOpCertsForFabric /\ UNCHANGED <<failSafe, queue, handler, crashes, overlapped>>
  BY <1>22 DEF RemoveOpCertsForFabric, Step, FlagsCleared
<1>23. CASE DeleteIcac /\ UNCHANGED <<failSafe, queue, handler, crashes, overlapped>>
  BY <1>23 DEF DeleteIcac, Step, FlagsCleared
<1>24. CASE DeleteRcac /\ UNCHANGED <<failSafe, queue, handler, crashes, overlapped>>
  BY <1>24 DEF DeleteRcac, Step, FlagsCleared
<1>25. CASE DeleteFromTable /\ UNCHANGED <<failSafe, queue, handler, crashes, overlapped>>
  BY <1>25 DEF DeleteFromTable, ControlOK, FlagsCleared
<1>26. CASE ExceptRootRest /\ UNCHANGED <<failSafe, queue, handler, crashes, overlapped>>
  BY <1>26 DEF ExceptRootRest, Step, ControlOK, FlagsCleared
<1>27. CASE RevertRest /\ UNCHANGED <<failSafe, queue, handler, crashes, overlapped>>
  BY <1>27 DEF RevertRest, Step, Reverted, FlagsCleared
<1>28. CASE StoreCommitMarker /\ UNCHANGED <<failSafe, queue, handler, crashes, overlapped>>
  BY <1>28 DEF StoreCommitMarker, Step, FlagsCleared
<1>29. CASE StoreFabricMetadata /\ UNCHANGED <<failSafe, queue, handler, crashes, overlapped>>
  BY <1>29 DEF StoreFabricMetadata, Step, FlagsCleared
<1>30. CASE CommitOpKeypairForFabric /\ UNCHANGED <<failSafe, queue, handler, crashes, overlapped>>
  BY <1>30 DEF CommitOpKeypairForFabric, Step, FlagsCleared
<1>31. CASE CommitNoc /\ UNCHANGED <<failSafe, queue, handler, crashes, overlapped>>
  BY <1>31 DEF CommitNoc, Step, FlagsCleared
<1>32. CASE CommitIcac /\ UNCHANGED <<failSafe, queue, handler, crashes, overlapped>>
  BY <1>32 DEF CommitIcac, Step, FlagsCleared
<1>33. CASE CommitRcac /\ UNCHANGED <<failSafe, queue, handler, crashes, overlapped>>
  BY <1>33 DEF CommitRcac, Step, FlagsCleared
<1>34. CASE CommitFabricIndexInfo /\ UNCHANGED <<failSafe, queue, handler, crashes, overlapped>>
  BY <1>34 DEF CommitFabricIndexInfo, Step, FlagsCleared
<1>35. CASE CommitFinish /\ UNCHANGED <<failSafe, queue, handler, crashes, overlapped>>
  BY <1>35 DEF CommitFinish, FlagsCleared
<1>36. CASE CommitFailed /\ UNCHANGED <<failSafe, queue, handler, crashes, overlapped>>
  BY <1>36 DEF CommitFailed, Step, Reverted, FlagsCleared
<1>37. CASE ClearCommitMarker /\ UNCHANGED <<failSafe, queue, handler, crashes, overlapped>>
  BY <1>37 DEF ClearCommitMarker, Step, ControlOK, FlagsCleared
<1> QED
  BY <1>1, <1>2, <1>3, <1>4, <1>5, <1>6, <1>7, <1>8, <1>9, <1>10, <1>11, <1>12, <1>13,
       <1>14, <1>15, <1>16, <1>17, <1>18, <1>19, <1>20, <1>21, <1>22, <1>23, <1>24, <1>25,
       <1>26, <1>27, <1>28, <1>29, <1>30, <1>31, <1>32, <1>33, <1>34, <1>35, <1>36, <1>37
       DEF Next, Command, PostedWork, HandlerReturns, TableRuns, TableStep

\* Nothing takes the root, the NOC or the flags from a pending addition but its commit
\* and its undoing.
LEMMA AdditionStep ==
    ASSUME TypeOK, ControlOK, QueueOK, PendingOK, AdditionPending, FlagsCleared, ~overlapped, ~overlapped', Next
    PROVE  AdditionPending'
<1> USE FabricAssumption DEF memory, storage, control, tableVars, DeleteSteps, CommitSteps, Deleting
<1>1. ASSUME NEW a \in Accessing, ArmFailSafe(a) PROVE AdditionPending'
  BY <1>1 DEF ArmFailSafe, Ready, AdditionPending
<1>2. ASSUME NEW a \in Accessing, NEW u \in BOOLEAN, CSRRequest(a, u) PROVE AdditionPending'
  BY <1>2 DEF CSRRequest, AllocatePendingOperationalKey, Ready, AdditionPending
<1>3. ASSUME NEW a \in Accessing, NEW r \in Roots, AddTrustedRootCertificate(a, r) PROVE AdditionPending'
  BY <1>3 DEF AddTrustedRootCertificate, AddNewPendingTrustedRootCert, Ready,
       AdditionPending
<1>4. ASSUME NEW a \in Accessing, NEW noc \in Nocs, AddNOC(a, noc) PROVE AdditionPending'
  <2>1. /\ opCerts' = [opCerts EXCEPT !.noc = noc] /\ opCerts.rcac # None /\ opCerts \in PendingCerts
        /\ "kIsTrustedRootPending" \in flags
        /\ flags' = flags \cup {"kIsAddPending", "kIsPendingFabricDataPresent"}
    BY <1>4 DEF AddNOC, AddNewPendingFabric, CanAddFabric, TypeOK
  <2>2. opCerts'.noc = noc /\ opCerts'.rcac = opCerts.rcac
    BY <2>1 DEF PendingCerts
  <2> QED
    BY <2>1, <2>2, NocFields DEF AdditionPending
<1>5. ASSUME NEW a \in Accessing, NEW noc \in Nocs, AddNOCUndone(a, noc) PROVE AdditionPending'
  BY <1>5 DEF AddNOCUndone, CanAddNOC, Ready, AdditionPending
<1>6. ASSUME NEW a \in Accessing, NEW noc \in Nocs, UpdateNOC(a, noc) PROVE AdditionPending'
  BY <1>6 DEF UpdateNOC, UpdatePendingFabric, RefusePendingUpdate, AbandonPendingUpdate,
       CanUpdateFabric, Ready, AdditionPending
<1>7. ASSUME NEW a \in Accessing, NEW l \in Labels, UpdateFabricLabel(a, l) PROVE AdditionPending'
  BY <1>7, LabelKeepsNocs DEF AdditionPending
<1>8. ASSUME NEW a \in Accessing, CommissioningComplete(a) PROVE AdditionPending'
  BY <1>8 DEF CommissioningComplete, CommitPendingFabricData, Reverted, Ready,
       AdditionPending
<1>9. ASSUME NEW f \in Indices, RemoveFabric(f) PROVE AdditionPending'
  BY <1>9 DEF RemoveFabric, Delete, HasPendingFabricUpdate, Ready, AdditionPending
<1>10. CASE FailSafeTimerExpired
  BY <1>10 DEF FailSafeTimerExpired, Ready, AdditionPending
<1>11. CASE FailSafeCleanup
  BY <1>11 DEF FailSafeCleanup, RevertPendingFabricData, RevertPendingOpCertsExceptRoot,
       AdditionPending
<1>12. CASE HandleDisarmFailSafe
  BY <1>12 DEF HandleDisarmFailSafe, AdditionPending
<1>13. CASE ClearMarkerAfterCleanup
  BY <1>13 DEF ClearMarkerAfterCleanup, AdditionPending
<1>14. CASE CommandReturns
  BY <1>14 DEF CommandReturns, Return, Finished, ControlOK, AdditionPending, FlagsCleared,
       PendingOK
<1>15. CASE CommissioningCompleteReturns
  BY <1>15 DEF CommissioningCompleteReturns, Return, Finished, ControlOK, AdditionPending,
       FlagsCleared
<1>16. CASE CleanupReverted
  BY <1>16 DEF CleanupReverted, Return, Finished, Delete, HasPendingFabricUpdate,
       ControlOK, AdditionPending, FlagsCleared
<1>17. CASE CleanupReturns
  BY <1>17 DEF CleanupReturns, Return, Finished, ControlOK, AdditionPending, FlagsCleared
<1>18. CASE ServerInitReturns
  BY <1>18 DEF ServerInitReturns, Return, Finished, ControlOK, AdditionPending,
       FlagsCleared
<1>19. CASE Crash
  BY <1>19 DEF Crash, TableRestart, Reverted, AdditionPending
<1>20. CASE DeleteMetadataFromStorage /\ UNCHANGED <<failSafe, queue, handler, crashes, overlapped>>
  BY <1>20 DEF DeleteMetadataFromStorage, Step, AdditionPending
<1>21. CASE RemoveOpKeypairForFabric /\ UNCHANGED <<failSafe, queue, handler, crashes, overlapped>>
  BY <1>21 DEF RemoveOpKeypairForFabric, Step, AdditionPending
<1>22. CASE RemoveOpCertsForFabric /\ UNCHANGED <<failSafe, queue, handler, crashes, overlapped>>
  BY <1>22 DEF RemoveOpCertsForFabric, Step, AdditionPending
<1>23. CASE DeleteIcac /\ UNCHANGED <<failSafe, queue, handler, crashes, overlapped>>
  BY <1>23 DEF DeleteIcac, Step, AdditionPending
<1>24. CASE DeleteRcac /\ UNCHANGED <<failSafe, queue, handler, crashes, overlapped>>
  BY <1>24 DEF DeleteRcac, Step, AdditionPending
<1>25. CASE DeleteFromTable /\ UNCHANGED <<failSafe, queue, handler, crashes, overlapped>>
  BY <1>25 DEF DeleteFromTable, TypeOK, ControlOK, Handlers, AdditionPending, FlagsCleared,
       PendingOK, NocClear, StrayNoc
<1>26. CASE ExceptRootRest /\ UNCHANGED <<failSafe, queue, handler, crashes, overlapped>>
  BY <1>26 DEF ExceptRootRest, Step, AdditionPending
<1>27. CASE RevertRest /\ UNCHANGED <<failSafe, queue, handler, crashes, overlapped>>
  BY <1>27 DEF RevertRest, Step, Reverted, AdditionPending
<1>28. CASE StoreCommitMarker /\ UNCHANGED <<failSafe, queue, handler, crashes, overlapped>>
  BY <1>28 DEF StoreCommitMarker, Step, AdditionPending
<1>29. CASE StoreFabricMetadata /\ UNCHANGED <<failSafe, queue, handler, crashes, overlapped>>
  BY <1>29 DEF StoreFabricMetadata, Step, AdditionPending
<1>30. CASE CommitOpKeypairForFabric /\ UNCHANGED <<failSafe, queue, handler, crashes, overlapped>>
  BY <1>30 DEF CommitOpKeypairForFabric, Step, AdditionPending
<1>31. CASE CommitNoc /\ UNCHANGED <<failSafe, queue, handler, crashes, overlapped>>
  BY <1>31 DEF CommitNoc, Step, AdditionPending
<1>32. CASE CommitIcac /\ UNCHANGED <<failSafe, queue, handler, crashes, overlapped>>
  BY <1>32 DEF CommitIcac, Step, AdditionPending
<1>33. CASE CommitRcac /\ UNCHANGED <<failSafe, queue, handler, crashes, overlapped>>
  BY <1>33 DEF CommitRcac, Step, AdditionPending
<1>34. CASE CommitFabricIndexInfo /\ UNCHANGED <<failSafe, queue, handler, crashes, overlapped>>
  BY <1>34 DEF CommitFabricIndexInfo, Step, AdditionPending
<1>35. CASE CommitFinish /\ UNCHANGED <<failSafe, queue, handler, crashes, overlapped>>
  BY <1>35 DEF CommitFinish, AdditionPending
<1>36. CASE CommitFailed /\ UNCHANGED <<failSafe, queue, handler, crashes, overlapped>>
  BY <1>36 DEF CommitFailed, Step, Reverted, AdditionPending
<1>37. CASE ClearCommitMarker /\ UNCHANGED <<failSafe, queue, handler, crashes, overlapped>>
  BY <1>37 DEF ClearCommitMarker, Step, AdditionPending
<1> QED
  BY <1>1, <1>2, <1>3, <1>4, <1>5, <1>6, <1>7, <1>8, <1>9, <1>10, <1>11, <1>12, <1>13,
       <1>14, <1>15, <1>16, <1>17, <1>18, <1>19, <1>20, <1>21, <1>22, <1>23, <1>24, <1>25,
       <1>26, <1>27, <1>28, <1>29, <1>30, <1>31, <1>32, <1>33, <1>34, <1>35, <1>36, <1>37
       DEF Next, Command, PostedWork, HandlerReturns, TableRuns, TableStep

\* Undoing an addition deletes the pending fabric and none else.
LEMMA UndoneStep ==
    ASSUME TypeOK, ControlOK, QueueOK, PendingOK, CertsOK, AdditionUndone, FlagsCleared, ~overlapped, ~overlapped', Next
    PROVE  AdditionUndone'
<1> USE FabricAssumption DEF memory, storage, control, tableVars, DeleteSteps, CommitSteps, Deleting
<1>1. ASSUME NEW a \in Accessing, ArmFailSafe(a) PROVE AdditionUndone'
  BY <1>1 DEF ArmFailSafe, Ready, ControlOK, AdditionUndone
<1>2. ASSUME NEW a \in Accessing, NEW u \in BOOLEAN, CSRRequest(a, u) PROVE AdditionUndone'
  BY <1>2 DEF CSRRequest, AllocatePendingOperationalKey, Ready, ControlOK, AdditionUndone
<1>3. ASSUME NEW a \in Accessing, NEW r \in Roots, AddTrustedRootCertificate(a, r) PROVE AdditionUndone'
  BY <1>3 DEF AddTrustedRootCertificate, AddNewPendingTrustedRootCert, Ready,
       AdditionUndone
<1>4. ASSUME NEW a \in Accessing, NEW noc \in Nocs, AddNOC(a, noc) PROVE AdditionUndone'
  BY <1>4 DEF AddNOC, CanAddNOC, AddNewPendingFabric, Ready, ControlOK, AdditionUndone
<1>5. ASSUME NEW a \in Accessing, NEW noc \in Nocs, AddNOCUndone(a, noc) PROVE AdditionUndone'
  <2>1. /\ "kIsTrustedRootPending" \in flags' /\ handler' = "addNoc" /\ pc' = "delMetadata"
        /\ victim' = pendingIndex'
    BY <1>5 DEF AddNOCUndone, CanAddFabric
  <2> QED
    BY <2>1 DEF AdditionUndone
<1>6. ASSUME NEW a \in Accessing, NEW noc \in Nocs, UpdateNOC(a, noc) PROVE AdditionUndone'
  BY <1>6 DEF UpdateNOC, UpdatePendingFabric, RefusePendingUpdate, AbandonPendingUpdate,
       CanUpdateFabric, Ready, AdditionUndone
<1>7. ASSUME NEW a \in Accessing, NEW l \in Labels, UpdateFabricLabel(a, l) PROVE AdditionUndone'
  BY <1>7, LabelKeepsNocs DEF ControlOK, AdditionUndone
<1>8. ASSUME NEW a \in Accessing, CommissioningComplete(a) PROVE AdditionUndone'
  BY <1>8 DEF CommissioningComplete, CommitPendingFabricData, Reverted, Ready, ControlOK,
       AdditionUndone
<1>9. ASSUME NEW f \in Indices, RemoveFabric(f) PROVE AdditionUndone'
  BY <1>9 DEF RemoveFabric, Delete, HasPendingFabricUpdate, Ready, AdditionUndone
<1>10. CASE FailSafeTimerExpired
  BY <1>10 DEF FailSafeTimerExpired, Ready, ControlOK, AdditionUndone
<1>11. CASE FailSafeCleanup
  BY <1>11 DEF FailSafeCleanup, RevertPendingFabricData, RevertPendingOpCertsExceptRoot,
       AdditionUndone
<1>12. CASE HandleDisarmFailSafe
  BY <1>12 DEF HandleDisarmFailSafe, ControlOK, AdditionUndone
<1>13. CASE ClearMarkerAfterCleanup
  BY <1>13 DEF ClearMarkerAfterCleanup, ControlOK, AdditionUndone
<1>14. CASE CommandReturns
  BY <1>14 DEF CommandReturns, Return, Finished, AdditionUndone
<1>15. CASE CommissioningCompleteReturns
  BY <1>15 DEF CommissioningCompleteReturns, Return, Finished, AdditionUndone
<1>16. CASE CleanupReverted
  BY <1>16 DEF CleanupReverted, Return, Finished, Delete, HasPendingFabricUpdate,
       AdditionUndone
<1>17. CASE CleanupReturns
  BY <1>17 DEF CleanupReturns, Return, Finished, AdditionUndone
<1>18. CASE ServerInitReturns
  BY <1>18 DEF ServerInitReturns, Return, Finished, AdditionUndone
<1>19. CASE Crash
  BY <1>19 DEF Crash, TableRestart, Reverted, AdditionUndone
<1>20. CASE DeleteMetadataFromStorage /\ UNCHANGED <<failSafe, queue, handler, crashes, overlapped>>
  BY <1>20 DEF DeleteMetadataFromStorage, Step, AdditionUndone
<1>21. CASE RemoveOpKeypairForFabric /\ UNCHANGED <<failSafe, queue, handler, crashes, overlapped>>
  BY <1>21 DEF RemoveOpKeypairForFabric, Step, AdditionUndone
<1>22. CASE RemoveOpCertsForFabric /\ UNCHANGED <<failSafe, queue, handler, crashes, overlapped>>
  BY <1>22 DEF RemoveOpCertsForFabric, Step, AdditionUndone
<1>23. CASE DeleteIcac /\ UNCHANGED <<failSafe, queue, handler, crashes, overlapped>>
  BY <1>23 DEF DeleteIcac, Step, AdditionUndone
<1>24. CASE DeleteRcac /\ UNCHANGED <<failSafe, queue, handler, crashes, overlapped>>
  BY <1>24 DEF DeleteRcac, Step, AdditionUndone
<1>25. CASE DeleteFromTable /\ UNCHANGED <<failSafe, queue, handler, crashes, overlapped>>
  BY <1>25 DEF DeleteFromTable, TypeOK, ControlOK, Handlers, AdditionUndone, FlagsCleared,
       PendingOK, NocClear, CertsOK, StrayNoc, Live
<1>26. CASE ExceptRootRest /\ UNCHANGED <<failSafe, queue, handler, crashes, overlapped>>
  BY <1>26 DEF ExceptRootRest, Step, AdditionUndone
<1>27. CASE RevertRest /\ UNCHANGED <<failSafe, queue, handler, crashes, overlapped>>
  BY <1>27 DEF RevertRest, Step, Reverted, ControlOK, AdditionUndone
<1>28. CASE StoreCommitMarker /\ UNCHANGED <<failSafe, queue, handler, crashes, overlapped>>
  BY <1>28 DEF StoreCommitMarker, Step, AdditionUndone
<1>29. CASE StoreFabricMetadata /\ UNCHANGED <<failSafe, queue, handler, crashes, overlapped>>
  BY <1>29 DEF StoreFabricMetadata, Step, AdditionUndone
<1>30. CASE CommitOpKeypairForFabric /\ UNCHANGED <<failSafe, queue, handler, crashes, overlapped>>
  BY <1>30 DEF CommitOpKeypairForFabric, Step, AdditionUndone
<1>31. CASE CommitNoc /\ UNCHANGED <<failSafe, queue, handler, crashes, overlapped>>
  BY <1>31 DEF CommitNoc, Step, AdditionUndone
<1>32. CASE CommitIcac /\ UNCHANGED <<failSafe, queue, handler, crashes, overlapped>>
  BY <1>32 DEF CommitIcac, Step, AdditionUndone
<1>33. CASE CommitRcac /\ UNCHANGED <<failSafe, queue, handler, crashes, overlapped>>
  BY <1>33 DEF CommitRcac, Step, AdditionUndone
<1>34. CASE CommitFabricIndexInfo /\ UNCHANGED <<failSafe, queue, handler, crashes, overlapped>>
  BY <1>34 DEF CommitFabricIndexInfo, Step, AdditionUndone
<1>35. CASE CommitFinish /\ UNCHANGED <<failSafe, queue, handler, crashes, overlapped>>
  BY <1>35 DEF CommitFinish, ControlOK, AdditionUndone
<1>36. CASE CommitFailed /\ UNCHANGED <<failSafe, queue, handler, crashes, overlapped>>
  BY <1>36 DEF CommitFailed, Step, Reverted, ControlOK, AdditionUndone
<1>37. CASE ClearCommitMarker /\ UNCHANGED <<failSafe, queue, handler, crashes, overlapped>>
  BY <1>37 DEF ClearCommitMarker, Step, ControlOK, AdditionUndone
<1> QED
  BY <1>1, <1>2, <1>3, <1>4, <1>5, <1>6, <1>7, <1>8, <1>9, <1>10, <1>11, <1>12, <1>13,
       <1>14, <1>15, <1>16, <1>17, <1>18, <1>19, <1>20, <1>21, <1>22, <1>23, <1>24, <1>25,
       <1>26, <1>27, <1>28, <1>29, <1>30, <1>31, <1>32, <1>33, <1>34, <1>35, <1>36, <1>37
       DEF Next, Command, PostedWork, HandlerReturns, TableRuns, TableStep

\* Nothing comes between a pending chain and the key it was issued for.
LEMMA KeyStep ==
    ASSUME TypeOK, ControlOK, QueueOK, PendingOK, CertsOK, FlagsCleared, AdditionUndone, KeyPending, ~overlapped, ~overlapped', Next
    PROVE  KeyPending'
<1> USE FabricAssumption DEF memory, storage, control, tableVars, DeleteSteps, CommitSteps, Deleting
<1>1. ASSUME NEW a \in Accessing, ArmFailSafe(a) PROVE KeyPending'
  BY <1>1 DEF ArmFailSafe, Ready, KeyPending, StrayNoc
<1>2. ASSUME NEW a \in Accessing, NEW u \in BOOLEAN, CSRRequest(a, u) PROVE KeyPending'
  <2>1. (opCerts.noc = None \/ StrayNoc) /\ opCerts' = opCerts /\ pc = "idle"
    BY <1>2 DEF CSRRequest, Ready, NocCommandHasBeenInvoked, AllocatePendingOperationalKey,
         PendingOK, NocClear, ControlOK
  <2>2. /\ "kIsTrustedRootPending" \in flags => "kIsTrustedRootPending" \in flags'
        /\ \/ opKey' = opKey /\ ("kIsOperationalKeyPending" \in flags' => "kIsOperationalKeyPending" \in flags)
           \/ opKey'.key \in Keys
    BY <1>2 DEF CSRRequest, AllocatePendingOperationalKey
  <2>3. pendingIndex # 0 => pendingIndex' = pendingIndex
    BY <1>2 DEF CSRRequest, AllocatePendingOperationalKey, CanSetPendingIndex
  <2> QED
    BY <2>1, <2>2, <2>3 DEF KeyPending, StrayNoc
<1>3. ASSUME NEW a \in Accessing, NEW r \in Roots, AddTrustedRootCertificate(a, r) PROVE KeyPending'
  BY <1>3 DEF AddTrustedRootCertificate, AddNewPendingTrustedRootCert, CanSetPendingIndex,
       Ready, KeyPending, StrayNoc
<1>4. ASSUME NEW a \in Accessing, NEW noc \in Nocs, AddNOC(a, noc) PROVE KeyPending'
  <2>1. /\ pc = "idle" /\ "kIsOperationalKeyPending" \in flags /\ opCerts.rcac # None
        /\ opCerts \in PendingCerts /\ opCerts' = [opCerts EXCEPT !.noc = noc] /\ opKey' = Activated
    BY <1>4 DEF AddNOC, CanAddNOC, Ready, AddNewPendingFabric, CanAddFabric, TypeOK, ControlOK
  <2>2. opKey.key # None
    BY <2>1 DEF KeyPending, StrayNoc, NoCerts
  <2>3. opKey.key = noc.key /\ opKey.index = opCerts.index
    BY <1>4, <2>2 DEF AddNOC, AddNewPendingFabric, CanAddFabric, KeyAccepted
  <2>4. opCerts'.noc = noc /\ opCerts'.index = opCerts.index
    BY <2>1 DEF PendingCerts
  <2> QED
    BY <2>1, <2>2, <2>3, <2>4, ActivatedKey DEF KeyPending, StrayNoc
<1>5. ASSUME NEW a \in Accessing, NEW noc \in Nocs, AddNOCUndone(a, noc) PROVE KeyPending'
  BY <1>5 DEF AddNOCUndone, CanAddNOC, Ready, KeyPending, StrayNoc
<1>6. ASSUME NEW a \in Accessing, NEW noc \in Nocs, UpdateNOC(a, noc) PROVE KeyPending'
  <2>1. /\ pc = "idle" /\ "kIsOperationalKeyPending" \in flags /\ "kIsTrustedRootPending" \notin flags
    BY <1>6 DEF UpdateNOC, Ready, UpdatePendingFabric, RefusePendingUpdate,
         AbandonPendingUpdate, CanUpdateFabric, ControlOK
  <2>2. opKey.key # None
    BY <2>1 DEF KeyPending, StrayNoc
  <2>3. CASE UpdatePendingFabric(a, noc)
    <3>1. opKey.key = noc.key /\ opKey.index = a /\ opKey' = Activated
      BY <2>2, <2>3 DEF UpdatePendingFabric, KeyAccepted
    <3>2. opCerts'.noc = noc /\ opCerts'.index = a
      BY <2>3 DEF UpdatePendingFabric
    <3> QED
      BY <2>2, <3>1, <3>2, ActivatedKey DEF KeyPending, StrayNoc
  <2>4. CASE RefusePendingUpdate(a, noc)
    <3>1. opCerts.noc = None /\ UNCHANGED <<opCerts, opKey, flags>>
      BY <2>4 DEF RefusePendingUpdate, CanUpdateFabric, NoCerts
    <3> QED
      BY <2>2, <3>1 DEF KeyPending, StrayNoc
  <2>5. CASE AbandonPendingUpdate(a, noc)
    <3>1. opCerts'.index = a /\ opCerts'.rcac = None /\ UNCHANGED <<pendingIndex, opKey>>
      BY <2>5 DEF AbandonPendingUpdate
    <3>2. pendingIndex \notin {0, a}
      BY <2>5 DEF AbandonPendingUpdate, CanSetPendingIndex
    <3> QED
      BY <2>2, <3>1, <3>2 DEF KeyPending, StrayNoc
  <2> QED
    BY <1>6, <2>3, <2>4, <2>5 DEF UpdateNOC
<1>7. ASSUME NEW a \in Accessing, NEW l \in Labels, UpdateFabricLabel(a, l) PROVE KeyPending'
  BY <1>7, LabelKeepsNocs DEF KeyPending, StrayNoc
<1>8. ASSUME NEW a \in Accessing, CommissioningComplete(a) PROVE KeyPending'
  BY <1>8 DEF CommissioningComplete, CommitPendingFabricData, Reverted, Ready, ControlOK,
       KeyPending, StrayNoc
<1>9. ASSUME NEW f \in Indices, RemoveFabric(f) PROVE KeyPending'
  BY <1>9 DEF RemoveFabric, Delete, HasPendingFabricUpdate, Ready, KeyPending, StrayNoc
<1>10. CASE FailSafeTimerExpired
  BY <1>10 DEF FailSafeTimerExpired, Ready, KeyPending, StrayNoc
<1>11. CASE FailSafeCleanup
  BY <1>11 DEF FailSafeCleanup, RevertPendingFabricData, RevertPendingOpCertsExceptRoot,
       KeyPending, StrayNoc
<1>12. CASE HandleDisarmFailSafe
  BY <1>12 DEF HandleDisarmFailSafe, KeyPending, StrayNoc
<1>13. CASE ClearMarkerAfterCleanup
  BY <1>13 DEF ClearMarkerAfterCleanup, KeyPending, StrayNoc
<1>14. CASE CommandReturns
  BY <1>14 DEF CommandReturns, Return, Finished, TypeOK, ControlOK, Handlers, KeyPending,
       FlagsCleared, PendingOK, NocClear, CertsOK, StrayNoc, AdditionUndone
<1>15. CASE CommissioningCompleteReturns
  BY <1>15 DEF CommissioningCompleteReturns, Return, Finished, ControlOK, KeyPending,
       FlagsCleared, CertsOK, StrayNoc
<1>16. CASE CleanupReverted
  BY <1>16 DEF CleanupReverted, Return, Finished, Delete, HasPendingFabricUpdate, ControlOK,
       KeyPending, FlagsCleared, CertsOK, StrayNoc
<1>17. CASE CleanupReturns
  BY <1>17 DEF CleanupReturns, Return, Finished, ControlOK, KeyPending, FlagsCleared, CertsOK,
       StrayNoc
<1>18. CASE ServerInitReturns
  BY <1>18 DEF ServerInitReturns, Return, Finished, ControlOK, KeyPending, FlagsCleared,
       CertsOK, StrayNoc
<1>19. CASE Crash
  BY <1>19 DEF Crash, TableRestart, Reverted, KeyPending, StrayNoc
<1>20. CASE DeleteMetadataFromStorage /\ UNCHANGED <<failSafe, queue, handler, crashes, overlapped>>
  BY <1>20 DEF DeleteMetadataFromStorage, Step, KeyPending, StrayNoc
<1>21. CASE RemoveOpKeypairForFabric /\ UNCHANGED <<failSafe, queue, handler, crashes, overlapped>>
  BY <1>21 DEF RemoveOpKeypairForFabric, Step, KeyPending, StrayNoc
<1>22. CASE RemoveOpCertsForFabric /\ UNCHANGED <<failSafe, queue, handler, crashes, overlapped>>
  BY <1>22 DEF RemoveOpCertsForFabric, Step, KeyPending, StrayNoc
<1>23. CASE DeleteIcac /\ UNCHANGED <<failSafe, queue, handler, crashes, overlapped>>
  BY <1>23 DEF DeleteIcac, Step, KeyPending, StrayNoc
<1>24. CASE DeleteRcac /\ UNCHANGED <<failSafe, queue, handler, crashes, overlapped>>
  BY <1>24 DEF DeleteRcac, Step, KeyPending, StrayNoc
<1>25. CASE DeleteFromTable /\ UNCHANGED <<failSafe, queue, handler, crashes, overlapped>>
  BY <1>25 DEF DeleteFromTable, TypeOK, ControlOK, Handlers, KeyPending, FlagsCleared,
       PendingOK, NocClear, CertsOK, StrayNoc, AdditionUndone
<1>26. CASE ExceptRootRest /\ UNCHANGED <<failSafe, queue, handler, crashes, overlapped>>
  BY <1>26 DEF ExceptRootRest, Step, KeyPending, StrayNoc
<1>27. CASE RevertRest /\ UNCHANGED <<failSafe, queue, handler, crashes, overlapped>>
  BY <1>27 DEF RevertRest, Step, Reverted, KeyPending, StrayNoc
<1>28. CASE StoreCommitMarker /\ UNCHANGED <<failSafe, queue, handler, crashes, overlapped>>
  BY <1>28 DEF StoreCommitMarker, Step, KeyPending, StrayNoc
<1>29. CASE StoreFabricMetadata /\ UNCHANGED <<failSafe, queue, handler, crashes, overlapped>>
  BY <1>29 DEF StoreFabricMetadata, Step, KeyPending, StrayNoc
<1>30. CASE CommitOpKeypairForFabric /\ UNCHANGED <<failSafe, queue, handler, crashes, overlapped>>
  BY <1>30 DEF CommitOpKeypairForFabric, Step, KeyPending, StrayNoc
<1>31. CASE CommitNoc /\ UNCHANGED <<failSafe, queue, handler, crashes, overlapped>>
  BY <1>31 DEF CommitNoc, Step, KeyPending, StrayNoc
<1>32. CASE CommitIcac /\ UNCHANGED <<failSafe, queue, handler, crashes, overlapped>>
  BY <1>32 DEF CommitIcac, Step, KeyPending, StrayNoc
<1>33. CASE CommitRcac /\ UNCHANGED <<failSafe, queue, handler, crashes, overlapped>>
  BY <1>33 DEF CommitRcac, Step, KeyPending, StrayNoc
<1>34. CASE CommitFabricIndexInfo /\ UNCHANGED <<failSafe, queue, handler, crashes, overlapped>>
  BY <1>34 DEF CommitFabricIndexInfo, Step, KeyPending, StrayNoc
<1>35. CASE CommitFinish /\ UNCHANGED <<failSafe, queue, handler, crashes, overlapped>>
  BY <1>35 DEF CommitFinish, KeyPending, StrayNoc
<1>36. CASE CommitFailed /\ UNCHANGED <<failSafe, queue, handler, crashes, overlapped>>
  BY <1>36 DEF CommitFailed, Step, Reverted, KeyPending, StrayNoc
<1>37. CASE ClearCommitMarker /\ UNCHANGED <<failSafe, queue, handler, crashes, overlapped>>
  BY <1>37 DEF ClearCommitMarker, Step, KeyPending, StrayNoc
<1> QED
  BY <1>1, <1>2, <1>3, <1>4, <1>5, <1>6, <1>7, <1>8, <1>9, <1>10, <1>11, <1>12, <1>13,
       <1>14, <1>15, <1>16, <1>17, <1>18, <1>19, <1>20, <1>21, <1>22, <1>23, <1>24, <1>25,
       <1>26, <1>27, <1>28, <1>29, <1>30, <1>31, <1>32, <1>33, <1>34, <1>35, <1>36, <1>37
       DEF Next, Command, PostedWork, HandlerReturns, TableRuns, TableStep

\* The writes of a commit store the key the chain was issued for, or the commit fails.
LEMMA WrittenStep ==
    ASSUME TypeOK, ControlOK, CommitOK, KeyPending, KeyWritten, ~overlapped, ~overlapped', Next
    PROVE  KeyWritten'
<1> USE FabricAssumption DEF memory, storage, control, tableVars, DeleteSteps, CommitSteps, Deleting
<1>1. ASSUME NEW a \in Accessing, ArmFailSafe(a) PROVE KeyWritten'
  BY <1>1 DEF ArmFailSafe, Ready, KeyWritten
<1>2. ASSUME NEW a \in Accessing, NEW u \in BOOLEAN, CSRRequest(a, u) PROVE KeyWritten'
  BY <1>2 DEF CSRRequest, AllocatePendingOperationalKey, Ready, KeyWritten
<1>3. ASSUME NEW a \in Accessing, NEW r \in Roots, AddTrustedRootCertificate(a, r) PROVE KeyWritten'
  BY <1>3 DEF AddTrustedRootCertificate, AddNewPendingTrustedRootCert, Ready, ControlOK,
       KeyWritten
<1>4. ASSUME NEW a \in Accessing, NEW noc \in Nocs, AddNOC(a, noc) PROVE KeyWritten'
  BY <1>4 DEF AddNOC, CanAddNOC, AddNewPendingFabric, Ready, ControlOK, KeyWritten
<1>5. ASSUME NEW a \in Accessing, NEW noc \in Nocs, AddNOCUndone(a, noc) PROVE KeyWritten'
  BY <1>5 DEF AddNOCUndone, CanAddNOC, Ready, KeyWritten
<1>6. ASSUME NEW a \in Accessing, NEW noc \in Nocs, UpdateNOC(a, noc) PROVE KeyWritten'
  BY <1>6 DEF UpdateNOC, UpdatePendingFabric, RefusePendingUpdate, AbandonPendingUpdate,
       CanUpdateFabric, Ready, ControlOK, KeyWritten
<1>7. ASSUME NEW a \in Accessing, NEW l \in Labels, UpdateFabricLabel(a, l) PROVE KeyWritten'
  BY <1>7, LabelKeepsNocs DEF ControlOK, KeyWritten
<1>8. ASSUME NEW a \in Accessing, CommissioningComplete(a) PROVE KeyWritten'
  BY <1>8 DEF CommissioningComplete, CommitPendingFabricData, Reverted, Ready, KeyWritten
<1>9. ASSUME NEW f \in Indices, RemoveFabric(f) PROVE KeyWritten'
  BY <1>9 DEF RemoveFabric, Delete, HasPendingFabricUpdate, Ready, KeyWritten
<1>10. CASE FailSafeTimerExpired
  BY <1>10 DEF FailSafeTimerExpired, Ready, KeyWritten
<1>11. CASE FailSafeCleanup
  BY <1>11 DEF FailSafeCleanup, RevertPendingFabricData, RevertPendingOpCertsExceptRoot,
       KeyWritten
<1>12. CASE HandleDisarmFailSafe
  BY <1>12 DEF HandleDisarmFailSafe, KeyWritten
<1>13. CASE ClearMarkerAfterCleanup
  BY <1>13 DEF ClearMarkerAfterCleanup, KeyWritten
<1>14. CASE CommandReturns
  BY <1>14 DEF CommandReturns, Return, Finished, KeyWritten
<1>15. CASE CommissioningCompleteReturns
  BY <1>15 DEF CommissioningCompleteReturns, Return, Finished, KeyWritten
<1>16. CASE CleanupReverted
  BY <1>16 DEF CleanupReverted, Return, Finished, Delete, HasPendingFabricUpdate,
       KeyWritten
<1>17. CASE CleanupReturns
  BY <1>17 DEF CleanupReturns, Return, Finished, KeyWritten
<1>18. CASE ServerInitReturns
  BY <1>18 DEF ServerInitReturns, Return, Finished, KeyWritten
<1>19. CASE Crash
  BY <1>19 DEF Crash, TableRestart, Reverted, KeyWritten
<1>20. CASE DeleteMetadataFromStorage /\ UNCHANGED <<failSafe, queue, handler, crashes, overlapped>>
  BY <1>20 DEF DeleteMetadataFromStorage, Step, KeyWritten
<1>21. CASE RemoveOpKeypairForFabric /\ UNCHANGED <<failSafe, queue, handler, crashes, overlapped>>
  BY <1>21 DEF RemoveOpKeypairForFabric, Step, KeyWritten
<1>22. CASE RemoveOpCertsForFabric /\ UNCHANGED <<failSafe, queue, handler, crashes, overlapped>>
  BY <1>22 DEF RemoveOpCertsForFabric, Step, KeyWritten
<1>23. CASE DeleteIcac /\ UNCHANGED <<failSafe, queue, handler, crashes, overlapped>>
  BY <1>23 DEF DeleteIcac, Step, KeyWritten
<1>24. CASE DeleteRcac /\ UNCHANGED <<failSafe, queue, handler, crashes, overlapped>>
  BY <1>24 DEF DeleteRcac, Step, KeyWritten
<1>25. CASE DeleteFromTable /\ UNCHANGED <<failSafe, queue, handler, crashes, overlapped>>
  BY <1>25 DEF DeleteFromTable, TypeOK, KeyWritten
<1>26. CASE ExceptRootRest /\ UNCHANGED <<failSafe, queue, handler, crashes, overlapped>>
  BY <1>26 DEF ExceptRootRest, Step, KeyWritten
<1>27. CASE RevertRest /\ UNCHANGED <<failSafe, queue, handler, crashes, overlapped>>
  BY <1>27 DEF RevertRest, Step, Reverted, KeyWritten
<1>28. CASE StoreCommitMarker /\ UNCHANGED <<failSafe, queue, handler, crashes, overlapped>>
  BY <1>28 DEF StoreCommitMarker, Step, KeyWritten
<1>29. CASE StoreFabricMetadata /\ UNCHANGED <<failSafe, queue, handler, crashes, overlapped>>
  BY <1>29 DEF StoreFabricMetadata, Step, KeyWritten
<1>30. CASE CommitOpKeypairForFabric /\ UNCHANGED <<failSafe, queue, handler, crashes, overlapped>>
  <2>1. committing \in Indices /\ pc = "key"
    BY <1>30, CommitIndex DEF CommitOpKeypairForFabric, Step, Writing
  <2>2. CASE opCerts.index = committing /\ opCerts.noc # None
    <3>0. pendingIndex = committing
      BY <2>1 DEF CommitOK, CommitSources, Writing
    <3>1. /\ opKey.active /\ opKey.key = opCerts.noc.key /\ opKey.index = committing
          /\ opKey.key # None
      BY <2>1, <2>2, <3>0, NocFields DEF KeyPending, StrayNoc, TypeOK, PendingCerts
    <3>2. HasOpKeypairForFabric(committing)
      BY <3>1 DEF HasOpKeypairForFabric
    <3>3. /\ pc' = "noc" /\ committing' = committing /\ opCerts' = opCerts
          /\ ~failed' => stored' = [stored EXCEPT ![committing].key = opKey.key]
      BY <1>30, <2>2, <3>1, <3>2 DEF CommitOpKeypairForFabric, Step
    <3>4. ~failed' => stored'[committing].key = opKey.key
      BY <2>1, <3>3 DEF TypeOK, StoredFabrics
    <3> QED
      BY <3>1, <3>3, <3>4 DEF KeyWritten
  <2>3. CASE ~(opCerts.index = committing /\ opCerts.noc # None)
    BY <1>30, <2>3 DEF CommitOpKeypairForFabric, KeyWritten
  <2> QED
    BY <2>2, <2>3
<1>31. CASE CommitNoc /\ UNCHANGED <<failSafe, queue, handler, crashes, overlapped>>
  BY <1>31 DEF CommitNoc, Step, TypeOK, KeyWritten
<1>32. CASE CommitIcac /\ UNCHANGED <<failSafe, queue, handler, crashes, overlapped>>
  BY <1>32 DEF CommitIcac, Step, TypeOK, KeyWritten
<1>33. CASE CommitRcac /\ UNCHANGED <<failSafe, queue, handler, crashes, overlapped>>
  <2> DEFINE now == stored[committing]
  <2>1. committing \in Indices /\ pc = "rcac" /\ now \in StoredFabrics /\ opCerts.noc # None
    BY <1>33, CommitIndex DEF CommitRcac, Step, Writing, TypeOK, CommitOK, CommitSources
  <2>2. pc' = "index" /\ committing' = committing /\ (~failed' => ~failed)
    BY <1>33 DEF CommitRcac, Step, TypeOK
  <2>3. ~failed => /\ now.key = opCerts.noc.key /\ now.noc = opCerts.noc
                   /\ now.icac = IcacOf(opCerts.noc)
    BY <2>1 DEF KeyWritten, CommitOK, CommitWritten, Writing
  <2>4. ~failed => (now.icac # None) = opCerts.noc.ica
    BY <2>1, <2>3, NocFields DEF IcacOf, TypeOK, PendingCerts
  <2>5. ~failed' => stored'[committing] \in {now, [now EXCEPT !.rcac = opCerts.rcac]}
    BY <1>33, <2>1, <2>3, <2>4 DEF CommitRcac, TypeOK
  <2> HIDE DEF now
  <2>6. ~failed' => stored'[committing].key = now.key /\ stored'[committing].noc = now.noc
    BY <2>1, <2>5 DEF StoredFabrics
  <2> QED
    BY <2>2, <2>3, <2>6 DEF KeyWritten
<1>34. CASE CommitFabricIndexInfo /\ UNCHANGED <<failSafe, queue, handler, crashes, overlapped>>
  BY <1>34 DEF CommitFabricIndexInfo, Step, KeyWritten
<1>35. CASE CommitFinish /\ UNCHANGED <<failSafe, queue, handler, crashes, overlapped>>
  BY <1>35 DEF CommitFinish, KeyWritten
<1>36. CASE CommitFailed /\ UNCHANGED <<failSafe, queue, handler, crashes, overlapped>>
  BY <1>36 DEF CommitFailed, Step, Reverted, TypeOK, ControlOK, Handlers, KeyWritten,
       KeyPending, StrayNoc, Writing
<1>37. CASE ClearCommitMarker /\ UNCHANGED <<failSafe, queue, handler, crashes, overlapped>>
  BY <1>37 DEF ClearCommitMarker, Step, KeyWritten
<1> QED
  BY <1>1, <1>2, <1>3, <1>4, <1>5, <1>6, <1>7, <1>8, <1>9, <1>10, <1>11, <1>12, <1>13,
       <1>14, <1>15, <1>16, <1>17, <1>18, <1>19, <1>20, <1>21, <1>22, <1>23, <1>24, <1>25,
       <1>26, <1>27, <1>28, <1>29, <1>30, <1>31, <1>32, <1>33, <1>34, <1>35, <1>36, <1>37
       DEF Next, Command, PostedWork, HandlerReturns, TableRuns, TableStep

\* No step leaves a fabric in the table without its certificates in storage.
LEMMA TableStoredStep ==
    ASSUME TypeOK, ControlOK, MarkerOK, QueueOK, PendingOK, CertsOK, StorageOK, CommitOK,
           FlagsCleared, AdditionPending, AdditionUndone, KeyPending, TableStored, ~overlapped, ~overlapped', Next
    PROVE  TableStored'
<1> USE FabricAssumption DEF memory, storage, control, tableVars, DeleteSteps, CommitSteps, Deleting
<1>a. ASSUME UNCHANGED <<states, stored, marker, committing>>,
             pc \in DeleteSteps => pc' \in DeleteSteps /\ victim' = victim,
             "kIsAddPending" \in flags => "kIsAddPending" \in flags' /\ pendingIndex' = pendingIndex
      PROVE  TableStored'
  BY <1>a DEF TableStored, Live, InDoubt
<1>b. 0 \notin Indices
  BY DEF Indices
<1>1. ASSUME NEW a \in Accessing, ArmFailSafe(a) PROVE TableStored'
  BY <1>1 DEF ArmFailSafe, Ready, TableStored, Live, InDoubt
<1>2. ASSUME NEW a \in Accessing, NEW u \in BOOLEAN, CSRRequest(a, u) PROVE TableStored'
  BY <1>2, <1>a DEF CSRRequest, Ready, AllocatePendingOperationalKey,
       NocCommandHasBeenInvoked, PendingOK, NocClear, StrayNoc, ControlOK
<1>3. ASSUME NEW a \in Accessing, NEW r \in Roots, AddTrustedRootCertificate(a, r) PROVE TableStored'
  BY <1>3 DEF AddTrustedRootCertificate, AddNewPendingTrustedRootCert, Ready, TableStored,
       Live, InDoubt
<1>4. ASSUME NEW a \in Accessing, NEW noc \in Nocs, AddNOC(a, noc) PROVE TableStored'
  <2> DEFINE f == EnsuredNext(nextIndex, Live)
  <2>1. "kIsAddPending" \notin flags /\ pc = "idle"
    BY <1>4 DEF AddNOC, CanAddNOC, Ready, NocCommandHasBeenInvoked, PendingOK, NocClear,
         StrayNoc, ControlOK
  <2>2. /\ pendingIndex' = f /\ "kIsAddPending" \in flags' /\ UNCHANGED <<stored, marker, committing>>
        /\ states' = [states EXCEPT ![f] = [noc |-> noc, label |-> EmptyLabel]]
    BY <1>4 DEF AddNOC, AddNewPendingFabric
  <2> HIDE DEF f
  <2> QED
    BY <2>1, <2>2 DEF TableStored, Live, InDoubt, TypeOK
<1>5. ASSUME NEW a \in Accessing, NEW noc \in Nocs, AddNOCUndone(a, noc) PROVE TableStored'
  <2>1. "kIsAddPending" \notin flags /\ pc = "idle"
    BY <1>5 DEF AddNOCUndone, CanAddNOC, Ready, NocCommandHasBeenInvoked, PendingOK, NocClear,
         StrayNoc, ControlOK
  <2>2. /\ victim' = nextIndex' /\ pc' = "delMetadata" /\ UNCHANGED <<stored, marker, committing>>
        /\ states' = [states EXCEPT ![nextIndex'] = [noc |-> noc, label |-> EmptyLabel]]
    BY <1>5 DEF AddNOCUndone
  <2> QED
    BY <2>1, <2>2 DEF TableStored, Live, InDoubt, TypeOK
<1>6. ASSUME NEW a \in Accessing, NEW noc \in Nocs, UpdateNOC(a, noc) PROVE TableStored'
  BY <1>6 DEF UpdateNOC, UpdatePendingFabric, RefusePendingUpdate, AbandonPendingUpdate,
       CanUpdateFabric, Ready, TableStored, Live, InDoubt
<1>7. ASSUME NEW a \in Accessing, NEW l \in Labels, UpdateFabricLabel(a, l) PROVE TableStored'
  BY <1>7, LabelKeepsNocs DEF TableStored, Live, InDoubt
<1>8. ASSUME NEW a \in Accessing, CommissioningComplete(a) PROVE TableStored'
  <2>1. pc = "idle" /\ UNCHANGED <<states, stored, marker, committing>>
    BY <1>8 DEF CommissioningComplete, CommitPendingFabricData, Ready, ControlOK
  <2>2. ASSUME "kIsAddPending" \in flags
        PROVE  /\ "kIsPendingFabricDataPresent" \in flags
               /\ ~OnlyNewRoot /\ ~InvalidState
    <3>1. /\ {"kIsPendingFabricDataPresent", "kIsTrustedRootPending"} \subseteq flags
          /\ "kIsUpdatePending" \notin flags
          /\ opCerts.noc # None /\ opCerts.rcac # None /\ opCerts.index = pendingIndex
          /\ pendingIndex # 0 /\ states[pendingIndex] # None
      BY <1>b, <2>1, <2>2 DEF AdditionPending, CertsOK, StrayNoc
    <3>2. HasOpKeypairForFabric(pendingIndex)
      BY <2>1, <3>1, NocFields DEF KeyPending, StrayNoc, HasOpKeypairForFabric, TypeOK,
           PendingCerts
    <3>3. HasCertificateForFabric(pendingIndex, "rcac")
      BY <3>1 DEF HasCertificateForFabric
    <3>4. FindFabricWithIndex(pendingIndex) # None
      BY <3>1 DEF FindFabricWithIndex, HasPendingFabricUpdate
    <3> QED
      BY <2>2, <3>1, <3>2, <3>3, <3>4 DEF OnlyNewRoot, InvalidState
  <2>3. "kIsAddPending" \in flags => UNCHANGED <<flags, pendingIndex>>
    BY <1>8, <2>2 DEF CommissioningComplete, CommitPendingFabricData
  <2> QED
    BY <1>a, <2>1, <2>3
<1>9. ASSUME NEW f \in Indices, RemoveFabric(f) PROVE TableStored'
  BY <1>9 DEF RemoveFabric, Delete, HasPendingFabricUpdate, Ready, ControlOK, TableStored,
       Live, InDoubt
<1>10. CASE FailSafeTimerExpired
  BY <1>10 DEF FailSafeTimerExpired, Ready, TableStored, Live, InDoubt
<1>11. CASE FailSafeCleanup
  BY <1>11 DEF FailSafeCleanup, RevertPendingFabricData, RevertPendingOpCertsExceptRoot,
       ControlOK, TableStored, Live, InDoubt
<1>12. CASE HandleDisarmFailSafe
  BY <1>12 DEF HandleDisarmFailSafe, TableStored, Live, InDoubt
<1>13. CASE ClearMarkerAfterCleanup
  <2>1. marker \in Indices /\ committing = 0 /\ pc = "idle"
    BY <1>13, ClearIsHead DEF ClearMarkerAfterCleanup, TypeOK, ControlOK
  <2>2. states[marker] = None
    BY <1>13, <1>b, <2>1 DEF ClearMarkerAfterCleanup, StorageOK, Gone
  <2> QED
    BY <1>13, <2>1, <2>2 DEF ClearMarkerAfterCleanup, TableStored, Live, InDoubt
<1>14. CASE CommandReturns
  BY <1>14 DEF CommandReturns, Return, Finished, TableStored, Live, InDoubt
<1>15. CASE CommissioningCompleteReturns
  BY <1>15 DEF CommissioningCompleteReturns, Return, Finished, TableStored, Live, InDoubt
<1>16. CASE CleanupReverted
  BY <1>16 DEF CleanupReverted, Return, Finished, Delete, HasPendingFabricUpdate,
       TableStored, Live, InDoubt
<1>17. CASE CleanupReturns
  BY <1>17 DEF CleanupReturns, Return, Finished, TableStored, Live, InDoubt
<1>18. CASE ServerInitReturns
  BY <1>18 DEF ServerInitReturns, Return, Finished, TableStored, Live, InDoubt
<1>19. CASE Crash
  <2>1. \A f \in Indices : states'[f] # None => Loadable(f)
    BY <1>19 DEF Crash, TableRestart
  <2> QED
    BY <1>19, <2>1 DEF Crash, TableRestart, TableStored, Live, Loadable
<1>20. CASE DeleteMetadataFromStorage /\ UNCHANGED <<failSafe, queue, handler, crashes, overlapped>>
  BY <1>20 DEF DeleteMetadataFromStorage, Step, TableStored, Live, InDoubt
<1>21. CASE RemoveOpKeypairForFabric /\ UNCHANGED <<failSafe, queue, handler, crashes, overlapped>>
  BY <1>21 DEF RemoveOpKeypairForFabric, Step, TableStored, Live, InDoubt
<1>22. CASE RemoveOpCertsForFabric /\ UNCHANGED <<failSafe, queue, handler, crashes, overlapped>>
  BY <1>22 DEF RemoveOpCertsForFabric, Step, TableStored, Live, InDoubt
<1>23. CASE DeleteIcac /\ UNCHANGED <<failSafe, queue, handler, crashes, overlapped>>
  BY <1>23 DEF DeleteIcac, Step, TableStored, Live, InDoubt
<1>24. CASE DeleteRcac /\ UNCHANGED <<failSafe, queue, handler, crashes, overlapped>>
  BY <1>24 DEF DeleteRcac, Step, TableStored, Live, InDoubt
<1>25. CASE DeleteFromTable /\ UNCHANGED <<failSafe, queue, handler, crashes, overlapped>>
  BY <1>25 DEF DeleteFromTable, TypeOK, TableStored, Live, InDoubt
<1>26. CASE ExceptRootRest /\ UNCHANGED <<failSafe, queue, handler, crashes, overlapped>>
  <2>1. "kIsAddPending" \in flags => states[pendingIndex] = None \/ pendingIndex \notin Indices
    BY <1>26 DEF ExceptRootRest, Step, AdditionUndone, Live
  <2> QED
    BY <1>26, <2>1 DEF ExceptRootRest, Step, TableStored, Live, InDoubt
<1>27. CASE RevertRest /\ UNCHANGED <<failSafe, queue, handler, crashes, overlapped>>
  <2>1. "kIsAddPending" \in flags => states[pendingIndex] = None \/ pendingIndex \notin Indices
    BY <1>27 DEF RevertRest, Step, AdditionUndone, Live
  <2> QED
    BY <1>27, <2>1 DEF RevertRest, Step, TableStored, Live, InDoubt
<1>28. CASE StoreCommitMarker /\ UNCHANGED <<failSafe, queue, handler, crashes, overlapped>>
  <2>1. pc = "marker" /\ handler = "complete" /\ committing = 0 /\ marker = 0
    BY <1>28 DEF StoreCommitMarker, Step, TypeOK, ControlOK, MarkerOK, Handlers, Writing
  <2>2. /\ pendingIndex \in Indices /\ committing' = pendingIndex /\ stored' = stored
        /\ \A f \in Indices : f # pendingIndex => states'[f] = states[f]
    BY <1>28, <2>1 DEF StoreCommitMarker, CommitOK, CommitStarts, TypeOK
  <2> QED
    BY <1>b, <2>1, <2>2 DEF TableStored, Live, InDoubt
<1>29. CASE StoreFabricMetadata /\ UNCHANGED <<failSafe, queue, handler, crashes, overlapped>>
  BY <1>29 DEF StoreFabricMetadata, Step, TableStored, Live, InDoubt
<1>30. CASE CommitOpKeypairForFabric /\ UNCHANGED <<failSafe, queue, handler, crashes, overlapped>>
  BY <1>30 DEF CommitOpKeypairForFabric, Step, TableStored, Live, InDoubt
<1>31. CASE CommitNoc /\ UNCHANGED <<failSafe, queue, handler, crashes, overlapped>>
  <2>1. committing \in Indices
    BY <1>31, CommitIndex DEF CommitNoc, Step, Writing
  <2>2. /\ UNCHANGED <<states, committing, flags, pendingIndex>> /\ pc \notin DeleteSteps
        /\ \A f \in Indices \ {committing} : stored'[f] = stored[f]
    BY <1>31 DEF CommitNoc, Step, TypeOK
  <2> QED
    BY <1>b, <2>1, <2>2 DEF TableStored, Live, InDoubt
<1>32. CASE CommitIcac /\ UNCHANGED <<failSafe, queue, handler, crashes, overlapped>>
  BY <1>32 DEF CommitIcac, Step, TableStored, Live, InDoubt
<1>33. CASE CommitRcac /\ UNCHANGED <<failSafe, queue, handler, crashes, overlapped>>
  <2>1. committing \in Indices
    BY <1>33, CommitIndex DEF CommitRcac, Step, Writing
  <2>2. /\ UNCHANGED <<states, committing, flags, pendingIndex>> /\ pc \notin DeleteSteps
        /\ \A f \in Indices \ {committing} : stored'[f] = stored[f]
    BY <1>33 DEF CommitRcac, Step, TypeOK
  <2> QED
    BY <1>b, <2>1, <2>2 DEF TableStored, Live, InDoubt
<1>34. CASE CommitFabricIndexInfo /\ UNCHANGED <<failSafe, queue, handler, crashes, overlapped>>
  BY <1>34 DEF CommitFabricIndexInfo, Step, TableStored, Live, InDoubt
<1>35. CASE CommitFinish /\ UNCHANGED <<failSafe, queue, handler, crashes, overlapped>>
  <2>1. committing \in Indices /\ committing = pendingIndex
    BY <1>35, CommitIndex DEF CommitFinish, Writing, CommitOK, CommitSources
  <2> QED
    BY <1>35, <1>b, <2>1 DEF CommitFinish, TableStored, Live, InDoubt
<1>36. CASE CommitFailed /\ UNCHANGED <<failSafe, queue, handler, crashes, overlapped>>
  BY <1>36 DEF CommitFailed, Step, Reverted, TypeOK, ControlOK, Handlers, TableStored, Live,
       InDoubt, PendingOK, NocClear, StrayNoc, FlagsCleared
<1>37. CASE ClearCommitMarker /\ UNCHANGED <<failSafe, queue, handler, crashes, overlapped>>
  <2>1. committing \in Indices /\ pc = "clearMarker" /\ handler = "complete"
    BY <1>37, CommitIndex DEF ClearCommitMarker, Step, Writing
  <2>2. failed => states[committing] = None
    BY <2>1 DEF CommitOK, CommitUndone, Gone
  <2>3. ~failed => stored[committing].noc # None /\ stored[committing].rcac # None
    <3>1. ~failed => stored[committing].noc # None /\ stored[committing].rcac = stored[committing].noc.root
      BY <2>1 DEF CommitOK, CommitWritten, Writing, Complete
    <3> QED
      BY <2>1, <3>1, NocFields DEF TypeOK, StoredFabrics
  <2>4. UNCHANGED <<states, stored, flags, pendingIndex>> /\ flags = {}
    BY <1>37, <2>1 DEF ClearCommitMarker, FlagsCleared
  <2> QED
    BY <1>b, <2>1, <2>2, <2>3, <2>4 DEF TableStored, Live, InDoubt
<1> QED
  BY <1>1, <1>2, <1>3, <1>4, <1>5, <1>6, <1>7, <1>8, <1>9, <1>10, <1>11, <1>12, <1>13,
       <1>14, <1>15, <1>16, <1>17, <1>18, <1>19, <1>20, <1>21, <1>22, <1>23, <1>24, <1>25,
       <1>26, <1>27, <1>28, <1>29, <1>30, <1>31, <1>32, <1>33, <1>34, <1>35, <1>36, <1>37
       DEF Next, Command, PostedWork, HandlerReturns, TableRuns, TableStep

\* The keys match because only the end of a commit installs a credential.
LEMMA KeysMatchStep ==
    ASSUME IndInv, IndInv', KeyWritten, KeysMatch, Next
    PROVE  KeysMatch'
<1> SUFFICES ASSUME NEW f \in Indices, Kept(f)'
             PROVE  stored'[f].key = stored'[f].noc.key
  BY DEF KeysMatch
<1>1. KeptShrinks
  BY KeptStep DEF IndInv
<1>2. DirectoryMoves
  BY <1>1, DirectoryStep DEF IndInv
<1>3. Installed'[f] = CredentialOf(f)' /\ Installed'[f] # None
  BY InstalledAt, KeptIsComplete, CredentialAssumption DEF IndInv
<1>4. CASE ~Kept(f)
  <2>1. ClearCommitMarker /\ ~failed /\ f = committing
    BY <1>1, <1>4 DEF KeptShrinks
  <2> QED
    BY <2>1 DEF ClearCommitMarker, Step, KeyWritten
<1>5. CASE Kept(f)
  <2>1. f # InDoubt
    BY <1>5 DEF Kept
  <2>2. Installed = [g \in Indices |-> Installed[g]]
    BY DEF Installed
  <2>3. Installed'[f] = Installed[f]
    <3>1. \/ Installed' = Installed
          \/ \E g \in Indices : \E c : Installed' = [Installed EXCEPT ![g] = c] /\ (c = None \/ g = InDoubt)
      BY <1>2, Zenon DEF DirectoryMoves
    <3>2. CASE Installed' = Installed
      BY <3>2
    <3>3. ASSUME NEW g \in Indices, NEW c, Installed' = [Installed EXCEPT ![g] = c],
                 c = None \/ g = InDoubt
          PROVE  Installed'[f] = Installed[f]
      BY <1>3, <2>1, <2>2, <3>3
    <3> QED
      BY <3>1, <3>2, <3>3
  <2>4. CredentialOf(f)' = CredentialOf(f)
    BY <1>3, <1>5, <2>3, InstalledAt
  <2>5. stored'[f].key = stored[f].key /\ stored'[f].noc = stored[f].noc
    BY <2>4 DEF CredentialOf
  <2> QED
    BY <1>5, <2>5 DEF KeysMatch
<1> QED
  BY <1>4, <1>5

\* A removal that came between is not forgotten.
LEMMA OverlapStays ==
    ASSUME Next, overlapped
    PROVE  overlapped'
  BY DEF Next, Command, PostedWork, HandlerReturns, TableRuns, ArmFailSafe, CSRRequest,
         AddTrustedRootCertificate, AddNOC, AddNOCUndone, UpdateNOC, UpdateFabricLabel,
         CommissioningComplete, RemoveFabric, FailSafeTimerExpired, FailSafeCleanup,
         HandleDisarmFailSafe, ClearMarkerAfterCleanup, CommandReturns,
         CommissioningCompleteReturns, CleanupReverted, CleanupReturns, ServerInitReturns,
         Finished, Crash

\* A device without fabrics has nothing pending and nothing stored.
LEMMA InitUndisturbed == Init => Undisturbed
<1> SUFFICES ASSUME Init PROVE Undisturbed
  OBVIOUS
<1>1. /\ flags = {} /\ pc = "idle" /\ handler = "idle" /\ opCerts.noc = None
      /\ \A f \in Indices : states[f] = None /\ ~Loadable(f)
  BY DEF Init, TableInit, NoCerts, Loadable
<1> QED
  BY <1>1 DEF Undisturbed, FlagsCleared, AdditionPending, AdditionUndone, KeyPending,
       StrayNoc, KeyWritten, TableStored, KeysMatch, Live, Kept, Deleting, DeleteSteps

\* Every step keeps pending credentials together, unless it removes a fabric beside them.
LEMMA NextUndisturbed ==
    IndInv /\ IndInv' /\ (~overlapped => Undisturbed) /\ [Next]_vars => (~overlapped => Undisturbed)'
<1> SUFFICES ASSUME IndInv, IndInv', ~overlapped => Undisturbed, [Next]_vars, ~overlapped'
             PROVE  Undisturbed'
  OBVIOUS
<1>1. CASE Next
  <2>1. ~overlapped /\ Undisturbed
    BY <1>1, OverlapStays
  <2> USE <1>1, <2>1 DEF IndInv, Undisturbed
  <2>2. FlagsCleared' /\ AdditionPending' /\ AdditionUndone'
    BY FlagsStep, AdditionStep, UndoneStep
  <2>3. KeyPending' /\ KeyWritten'
    BY KeyStep, WrittenStep
  <2>4. TableStored'
    BY TableStoredStep
  <2>5. KeysMatch'
    BY KeysMatchStep
  <2> QED
    BY <2>2, <2>3, <2>4, <2>5
<1>2. CASE UNCHANGED vars
  <2> USE <1>2 DEF Undisturbed, vars, memory, storage, control
  <2>1. FlagsCleared' /\ AdditionPending'
    BY DEF FlagsCleared, AdditionPending
  <2>2. AdditionUndone' /\ KeyPending' /\ KeyWritten'
    BY DEF AdditionUndone, KeyPending, StrayNoc, KeyWritten, Deleting, Live
  <2>3. TableStored' /\ KeysMatch'
    BY DEF TableStored, KeysMatch, Kept, Loadable, InDoubt, Deleting, Live
  <2> QED
    BY <2>1, <2>2, <2>3
<1> QED
  BY <1>1, <1>2

-----------------------------------------------------------------------------
(* The theorems.                                                           *)

\* Every variable keeps its type: no write, revert or restart leaves a field
\* of the table, of storage or of the fail-safe outside of its range.
THEOREM TypeCorrect == Spec => []TypeOK
<1>1. IndInv => TypeOK
  BY DEF IndInv
<1> QED
  BY <1>1, Invariance, PTL

\* With nothing running and nothing posted, no index is in doubt.
LEMMA QuietIsSettled ==
    ASSUME IndInv, Quiet
    PROVE  InDoubt = 0 /\ pc = "idle" /\ ~failSafe.busy
<1>1. pc = "idle" /\ committing = 0
  BY DEF IndInv, Quiet, ControlOK
<1>2. marker = 0 /\ ~failSafe.busy
  BY <1>1 DEF IndInv, Quiet, QueueOK, RecoveryWork
<1> QED
  BY <1>1, <1>2 DEF InDoubt

\* At rest, a restart brings no fabric back that Delete or a revert removed,
\* and no older NOC of one that is in the table (FabricTable::Init).
THEOREM RestartRevivesNothing == Spec => []StorageIsInUse
<1>1. ASSUME IndInv PROVE StorageIsInUse
  <2> SUFFICES ASSUME Quiet, NEW f \in Indices, Installed[f] # None
               PROVE  states[f] # None /\ states[f].noc = Installed[f].noc
    BY DEF StorageIsInUse
  <2>1. Kept(f) /\ Installed[f] = CredentialOf(f)
    BY InstalledAt
  <2>2. InUse(f)
    BY <1>1, <2>1 DEF IndInv, StorageOK, Kept
  <2> QED
    BY <2>1, <2>2 DEF InUse, CredentialOf
<1> QED
  BY <1>1, Invariance, PTL

\* When the fail-safe has been disarmed or cleaned up, nothing its NOC command
\* left can be committed: no addition, no update and no activated key is pending,
\* and a NOC only where SetPendingDataFabricIndex refused its index.
THEOREM DisarmedIsClear == Spec => []NothingToCommitWhenDisarmed
<1>1. ASSUME IndInv PROVE NothingToCommitWhenDisarmed
  <2> SUFFICES ASSUME Quiet PROVE NocClear
    BY DEF NothingToCommitWhenDisarmed, NocClear, StrayNoc
  <2>1. ~failSafe.armed /\ ~failSafe.busy /\ handler = "idle"
    BY <1>1, QuietIsSettled DEF Quiet
  <2>2. ~failSafe.addNoc /\ ~failSafe.updateNoc
    BY <1>1, <2>1 DEF IndInv, QueueOK
  <2> QED
    BY <1>1, <2>1, <2>2 DEF IndInv, PendingOK
<1> QED
  BY <1>1, Invariance, PTL

\* The clean-up FailSafeContext posts deletes a fabric by its index after the
\* commands that were already on their way: that index is never a committed one.
THEOREM CleanupIsSafe == Spec => []CleanupSparesCommitted
<1>1. ASSUME IndInv PROVE CleanupSparesCommitted
  <2> SUFFICES ASSUME NEW i \in DOMAIN queue, queue[i].type = "cleanup", queue[i].addNoc
               PROVE  Installed[queue[i].fabric] = None
    BY DEF CleanupSparesCommitted
  <2>1. i = 1 /\ queue # <<>> /\ Head(queue) = queue[1]
    <3>1. CASE queue = <<>>
      BY <3>1
    <3>2. CASE ExpiryWork
      BY <3>2, ItemKinds DEF ExpiryWork
    <3>3. CASE RecoveryWork
      BY <3>3, ItemKinds DEF RecoveryWork
    <3> QED
      BY <1>1, <3>1, <3>2, <3>3 DEF IndInv, QueueOK
  <2>2. queue[i].fabric \in Indices
    BY <1>1, <2>1, CleanupIsHead DEF IndInv
  <2>3. ~Kept(queue[i].fabric)
    BY <1>1, <2>1 DEF IndInv, SparesOK
  <2> QED
    BY <2>2, <2>3, InstalledAt
<1> QED
  BY <1>1, Invariance, PTL

\* At rest, the index the next AddNOC will use (UpdateNextAvailableFabricIndex)
\* is not that of a fabric a restart would find.
THEOREM NextIndexNeverReused == Spec => []NextIndexIsFree
<1>1. ASSUME IndInv PROVE NextIndexIsFree
  <2> SUFFICES ASSUME nextIndex # 0 PROVE Installed[nextIndex] = None
    BY DEF NextIndexIsFree
  <2>1. nextIndex \in Indices /\ ~Kept(nextIndex)
    BY <1>1 DEF IndInv, TypeOK, NextOK
  <2> QED
    BY <2>1, InstalledAt
<1> QED
  BY <1>1, Invariance, PTL

\* The commit, its write failures, the deletions, the reverts and a restart
\* between any two writes implement FabricDirectory: for every index a complete
\* credential or nothing, and only the index in doubt is ever settled.
THEOREM CommitIsAtomic == Spec => DirectorySpec
<1>1. Init => Directory!Init
  <2> SUFFICES ASSUME Init PROVE Directory!Init
    OBVIOUS
  <2>1. InDoubt = 0 /\ \A f \in Indices : ~Loadable(f)
    BY DEF Init, TableInit, InDoubt, Loadable
  <2>2. Installed = [f \in Indices |-> None]
    BY <2>1 DEF Installed
  <2> QED
    BY <2>1, <2>2 DEF Directory!Init
<1>2. IndInv /\ IndInv' /\ [Next]_vars => [Directory!Next]_(Directory!directoryVars)
  <2> SUFFICES ASSUME IndInv, IndInv', [Next]_vars
               PROVE  [Directory!Next]_(Directory!directoryVars)
    OBVIOUS
  <2>1. CASE Next
    <3>1. KeptShrinks
      BY <2>1, KeptStep DEF IndInv
    <3>2. DirectoryMoves
      BY <2>1, <3>1, DirectoryStep DEF IndInv
    <3> QED
      BY <3>2, Zenon DEF DirectoryMoves, Directory!Next, Directory!directoryVars, Directory!Doubt,
                         Directory!Settle, Directory!Remove
  <2>2. CASE UNCHANGED vars
    <3>1. InDoubt' = InDoubt /\ UNCHANGED <<stored, indexInfo>>
      BY <2>2 DEF vars, storage, control, InDoubt
    <3>2. /\ \A f \in Indices : Kept(f)' <=> Kept(f)
          /\ \A f \in Indices : Kept(f) => CredentialOf(f)' = CredentialOf(f)
      BY <3>1 DEF Kept, Loadable, CredentialOf
    <3> QED
      BY <3>1, <3>2, InstalledUnchanged DEF Directory!directoryVars
  <2> QED
    BY <2>1, <2>2
<1> QED
  BY <1>1, <1>2, Invariance, PTL DEF Spec, DirectorySpec, Directory!Spec

\* Unless a RemoveFabric was handled while credentials were pending, a restart at rest
\* finds every fabric of the table again, with its NOC and the key of that NOC, whatever
\* writes of CommitPendingFabricData and Delete failed and wherever a restart cut them.
THEOREM UndisturbedFabricsSurvive == Spec => []UndisturbedFabricsSurviveRestart
<1>1. ASSUME IndInv, ~overlapped => Undisturbed PROVE UndisturbedFabricsSurviveRestart
  <2> SUFFICES ASSUME ~overlapped, Quiet, NEW f \in Live
               PROVE  /\ Installed[f] # None
                      /\ Installed[f].noc = states[f].noc
                      /\ Installed[f].key = states[f].noc.key
    BY DEF UndisturbedFabricsSurviveRestart, FabricsSurviveRestart
  <2>1. f \in Indices /\ InDoubt = 0 /\ pc = "idle" /\ f # 0
    BY <1>1, QuietIsSettled DEF Live, Indices
  <2>2. "kIsAddPending" \notin flags
    <3>1. ~failSafe.armed /\ ~failSafe.busy /\ handler = "idle"
      BY <1>1, QuietIsSettled DEF Quiet
    <3> QED
      BY <1>1, <3>1 DEF IndInv, QueueOK, PendingOK, NocClear, StrayNoc
  <2>3. stored[f].noc # None /\ stored[f].rcac # None
    BY <1>1, <2>1, <2>2 DEF Undisturbed, TableStored, Deleting, DeleteSteps
  <2>4. Kept(f)
    BY <1>1, <2>1, <2>3 DEF IndInv, StorageOK, Kept, Deleting, DeleteSteps
  <2>5. InUse(f) /\ stored[f].key = stored[f].noc.key
    BY <1>1, <2>1, <2>4 DEF IndInv, StorageOK, Kept, Undisturbed, KeysMatch
  <2>6. Installed[f] = CredentialOf(f) /\ Installed[f] # None
    BY <1>1, <2>1, <2>4, InstalledAt, KeptIsComplete, CredentialAssumption DEF IndInv
  <2> QED
    BY <2>5, <2>6 DEF InUse, CredentialOf
<1> QED
  BY <1>1, Invariance, InitUndisturbed, NextUndisturbed, PTL DEF Spec
=============================================================================
