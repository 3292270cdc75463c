------------------------ MODULE CommissioningInvariant ------------------------
(***************************************************************************)
(* The inductive invariant of Commissioning, for any number of indices,    *)
(* keys, roots and restarts and for every choice of the writes that may    *)
(* fail: the parts it is made of, and for every part the proof that each   *)
(* command, each posted callback, each write of a commit or a deletion and *)
(* a restart between any two of them preserve it.                          *)
(***************************************************************************)
EXTENDS Commissioning, WellFoundedInduction, TLAPS

\* Every nonempty set of natural numbers has a least element.
LEMMA LeastNatural ==
    ASSUME NEW S, S \subseteq Nat, S # {}
    PROVE  \E i \in S : \A j \in S : i <= j
<1>1. PICK i \in S : \A j \in S : ~(<<j, i>> \in OpToRel(<, Nat))
  BY NatLessThanWellFounded, WFMin
<1>2. \A j \in S : ~(j < i)
  BY <1>1 DEF OpToRel
<1> QED
  BY <1>2

\* A remainder lies below its divisor.
LEMMA ModuloRange ==
    ASSUME NEW t \in Int, NEW n \in Nat \ {0}
    PROVE  (t % n) \in 0 .. (n - 1)
  OBVIOUS

\* UpdateNextAvailableFabricIndex finds an index no fabric uses, or none.
LEMMA NextFreeIsFree ==
    ASSUME NEW n \in Indices \cup {0}, NEW live
    PROVE  NextFree(n, live) = 0 \/ (NextFree(n, live) \in Indices /\ NextFree(n, live) \notin live)
<1> DEFINE after(i) == ((n - 1 + i) % MaxIndex) + 1
           free == {i \in 1..(MaxIndex - 1) : after(i) \notin live}
           least == CHOOSE i \in free : \A j \in free : i <= j
<1>1. CASE free = {}
  BY <1>1 DEF NextFree
<1>2. CASE free # {}
  <2>1. free \subseteq Nat
    BY FabricAssumption
  <2>2. \E i \in free : \A j \in free : i <= j
    <3> HIDE DEF free
    <3> QED BY <1>2, <2>1, LeastNatural
  <2>3. least \in free
    <3> HIDE DEF free
    <3> QED BY <2>2
  <2> HIDE DEF least
  <2>4. after(least) \notin live /\ least \in Int
    BY <2>3, FabricAssumption
  <2>5. after(least) \in Indices
    <3>1. MaxIndex \in Nat \ {0} /\ n - 1 + least \in Int
      BY <2>4, FabricAssumption DEF Indices
    <3>2. ((n - 1 + least) % MaxIndex) \in 0 .. (MaxIndex - 1)
      BY ONLY <3>1, ModuloRange
    <3> QED
      BY ONLY <3>1, <3>2 DEF Indices
  <2>6. NextFree(n, live) = after(least)
    BY <1>2, Zenon DEF NextFree, least
  <2> QED
    BY <2>4, <2>5, <2>6
<1> QED
  BY <1>1, <1>2

\* EnsureNextAvailableFabricIndexUpdated keeps the index, or finds a free one or none.
LEMMA EnsuredNextRange ==
    ASSUME NEW n \in Indices \cup {0}, NEW live
    PROVE  /\ EnsuredNext(n, live) \in Indices \cup {0}
           /\ EnsuredNext(n, live) # n => EnsuredNext(n, live) \notin live
<1>1. 1 \in Indices
  BY FabricAssumption DEF Indices
<1> QED
  BY <1>1, NextFreeIsFree DEF EnsuredNext


-----------------------------------------------------------------------------
(* The inductive invariant.                                                *)

Deleting == pc \in DeleteSteps

\* The steps of CommitPendingFabricData during which its index is in doubt.
Writing == CommitSteps \ {"marker"}

\* Who is at work, and where its operation may be.
ControlOK ==
    /\ handler = "idle" <=> pc = "idle"
    /\ handler \in {"remove", "cleanupDelete", "boot"} =>
         pc \in DeleteSteps \cup {"returned"} /\ resume = "returned"
    /\ handler = "addNoc" =>
         pc \in DeleteSteps \cup {"exceptRootRest", "returned"} /\ resume = "exceptRootRest"
    /\ handler = "cleanup" =>
         pc \in DeleteSteps \cup {"revertRest", "returned"} /\ (Deleting => resume = "revertRest")
    /\ handler = "complete" =>
         /\ pc \in CommitSteps \cup DeleteSteps \cup {"returned"}
         /\ Deleting => resume = "commitFailed" /\ victim = committing
         /\ Deleting \/ pc = "commitFailed" => failed
    /\ committing # 0 <=> handler = "complete" /\ pc \in Writing \cup DeleteSteps
    /\ Deleting => victim \in Indices

\* The commit marker is that of the running commit, or a restart found it.
MarkerOK ==
    /\ committing # 0 => marker \in {0, committing}
    /\ handler = "complete" /\ committing = 0 => marker = 0
    /\ handler = "boot" => victim = marker

CleanupItem(f, addNoc) == [type |-> "cleanup", fabric |-> f, addNoc |-> addNoc]
DisarmItem == [type |-> "disarm"]
ClearItem  == [type |-> "clearMarker"]
RecoveryItem == [type |-> "cleanup", fabric |-> marker, addNoc |-> TRUE]

\* What is posted after an expiry, and what is left of it.
ExpiryWork ==
    \/ \E f \in Indices \cup {0}, addNoc \in BOOLEAN :
          (addNoc => f # 0) /\ queue = <<CleanupItem(f, addNoc), DisarmItem>>
    \/ queue = <<DisarmItem>>

\* What is posted after an interrupted commit, and what is left of it.
RecoveryWork ==
    \/ queue = <<RecoveryItem, DisarmItem, ClearItem>>
    \/ queue = <<DisarmItem, ClearItem>>
    \/ queue = <<ClearItem>>

QueueOK ==
    /\ \/ queue = <<>> /\ (marker # 0 => committing # 0 \/ handler = "boot")
       \/ ExpiryWork /\ marker = 0
       \/ RecoveryWork /\ marker # 0 /\ committing = 0
    /\ queue # <<>> =>
         /\ ~failSafe.armed
         /\ handler \in {"idle", "remove", "cleanup", "cleanupDelete"}
         /\ Head(queue).type # "cleanup" => handler = "idle"
         /\ Head(queue).type = "cleanup" => failSafe.busy
         /\ Head(queue).type = "clearMarker" => ~failSafe.busy
         /\ handler = "cleanupDelete" => Head(queue).addNoc
    /\ queue = <<>> => handler \notin {"cleanup", "cleanupDelete"} /\ ~failSafe.busy
    /\ handler \in {"addNoc", "complete"} => failSafe.armed
    /\ handler = "boot" => ~failSafe.armed
    /\ ~failSafe.armed /\ ~failSafe.busy => ~failSafe.addNoc /\ ~failSafe.updateNoc

-----------------------------------------------------------------------------
\* The NOC of an UpdateNOC that failed because another index was pending.
StrayNoc == opCerts.noc # None /\ opCerts.rcac = None /\ pendingIndex \notin {0, opCerts.index}

NocClear ==
    /\ flags \cap {"kIsAddPending", "kIsUpdatePending"} = {}
    /\ opCerts.noc # None => StrayNoc
    /\ ~opKey.active

\* Apart from a stray NOC, a NOC is pending only under a fail-safe that knows of
\* it, and none is once a clean-up or a commit has gone through.
PendingOK ==
    /\ opKey.active => opKey.key # None
    /\ "kIsAddPending" \in flags => pendingIndex \in Indices
    /\ \/ NocClear
       \/ failSafe.addNoc \/ failSafe.updateNoc
       \/ handler = "addNoc"
    /\ handler = "addNoc" =>
         /\ opCerts.noc = None
         /\ opKey.active => opKey.index = victim
         /\ pc \in {"delNoc", "delIcac", "delRcac", "delIndex", "exceptRootRest", "returned"} => ~opKey.active
         /\ pc = "returned" => flags \cap {"kIsAddPending", "kIsUpdatePending"} = {}
    /\ handler = "cleanup" /\ pc = "returned" => NocClear
    /\ handler \in {"cleanupDelete", "boot"} => NocClear
    /\ queue # <<>> /\ Head(queue).type # "cleanup" => NocClear
    /\ handler = "complete" /\ ~failed =>
         /\ pc \in {"noc", "icac", "rcac", "index", "finish", "clearMarker", "returned"} => ~opKey.active
         /\ pc \in {"index", "finish", "clearMarker", "returned"} => opCerts.noc = None
         /\ pc \in {"clearMarker", "returned"} => flags \cap {"kIsAddPending", "kIsUpdatePending"} = {}
    /\ handler = "complete" => failSafe.addNoc \/ failSafe.updateNoc

\* The pending certificates belong to the fabric that is pending, or are a stray
\* NOC, and then nothing is pending in the table and no NOC command went through.
CertsOK ==
    /\ StrayNoc => /\ flags \cap {"kIsTrustedRootPending", "kIsAddPending", "kIsUpdatePending"} = {}
                   /\ ~failSafe.addNoc /\ ~failSafe.updateNoc
    /\ "kIsTrustedRootPending" \in flags => "kIsUpdatePending" \notin flags
    /\ opCerts.rcac # None => "kIsTrustedRootPending" \in flags
    /\ pc \in {"index", "finish", "clearMarker", "commitFailed", "delIcac", "delRcac", "delIndex"} =>
         opCerts = NoCerts
    /\ opCerts.noc # None /\ ~StrayNoc =>
         /\ opCerts.index \in Indices
         /\ opCerts.index = pendingIndex
         /\ states[opCerts.index] # None
         /\ opCerts.rcac # None => /\ opCerts.noc.root = opCerts.rcac
                                   /\ states[opCerts.index].noc = opCerts.noc
         /\ opCerts.rcac = None =>
              /\ "kIsUpdatePending" \in flags
              /\ stored[opCerts.index].noc # None
              /\ stored[opCerts.index].rcac = opCerts.noc.root
              /\ committing = 0 => pendingFabric # None /\ pendingFabric.noc = opCerts.noc
              /\ committing # 0 => states[opCerts.index].noc = opCerts.noc

-----------------------------------------------------------------------------
IcacOf(n) == IF n.ica THEN n.key ELSE None

Complete(f) ==
    /\ stored[f].key # None
    /\ stored[f].icac = IcacOf(stored[f].noc)
    /\ stored[f].rcac = stored[f].noc.root

InUse(f) == states[f] # None /\ states[f].noc = stored[f].noc

Gone(f) == states[f] = None /\ stored[f].meta = None

\* Outside of the index in doubt, what a restart would load is complete and in
\* use, and what is in use and has certificates would be loaded.
StorageOK ==
    /\ \A f \in Indices \ {InDoubt} : Loadable(f) => Complete(f) /\ InUse(f)
    /\ \A f \in Live \ {InDoubt} :
          stored[f].noc # None /\ stored[f].rcac # None /\ ~(Deleting /\ victim = f) => Loadable(f)
    /\ pc \in DeleteSteps \ {"delMetadata"} => stored[victim].meta = None
    /\ marker # 0 /\ committing = 0 /\ (handler # "boot" \/ pc = "returned") => Gone(marker)

\* The checks at the start of CommitPendingFabricData have passed.
CommitStarts ==
    handler = "complete" /\ pc = "marker" =>
      /\ pendingIndex \in Indices
      /\ ("kIsAddPending" \in flags) # ("kIsUpdatePending" \in flags)
      /\ FindFabricWithIndex(pendingIndex) # None
      /\ "kIsUpdatePending" \in flags => pendingFabric # None
      /\ HasOpKeypairForFabric(pendingIndex)

\* What the writes of a commit take from memory is there.
CommitSources ==
    /\ pc \in Writing \ {"commitFailed", "clearMarker"} =>
         /\ committing = pendingIndex
         /\ states[committing] # None
         /\ ("kIsAddPending" \in flags) # ("kIsUpdatePending" \in flags)
    /\ pc \in {"metadata", "key"} => HasOpKeypairForFabric(committing)
    /\ pc \in {"noc", "icac", "rcac"} => opCerts.index = committing /\ opCerts.noc # None

\* An addition that has not stored its index, or a commit without a chain,
\* which will fail, need not be in the list of indices.
Unlisted ==
    \/ pc \in {"metadata", "key"} /\ (opCerts.index # committing \/ opCerts.noc = None)
    \/ pc \notin {"finish", "clearMarker"} /\ "kIsAddPending" \in flags

\* How far a commit without an error has come.
CommitWritten ==
    pc \in Writing /\ ~failed =>
      /\ pc \notin {"metadata", "commitFailed"} => stored[committing].meta # None
      /\ pc \notin {"metadata", "key", "commitFailed"} => stored[committing].key # None
      /\ pc \in {"icac", "rcac"} => stored[committing].noc = opCerts.noc
      /\ pc = "rcac" => stored[committing].icac = IcacOf(opCerts.noc)
      /\ pc \in {"index", "finish", "clearMarker"} =>
           Complete(committing) /\ InUse(committing) /\ stored[committing].noc # None
      /\ Unlisted \/ committing \in indexInfo.list

\* A commit that failed leaves nothing at its index.
CommitUndone == pc = "commitFailed" \/ (pc = "clearMarker" /\ failed) => Gone(committing)

CommitOK == CommitStarts /\ CommitSources /\ CommitWritten /\ CommitUndone

-----------------------------------------------------------------------------
\* The index is one of those a restart would load and keep.
Kept(f) == f # InDoubt /\ Loadable(f)

\* Only the end of a commit adds an index to those.
KeptShrinks ==
    \A f \in Indices : Kept(f)' => Kept(f) \/ (ClearCommitMarker /\ ~failed /\ f = committing)

\* The next index, in memory and in storage, is not one that is installed.
NextOK ==
    /\ nextIndex # 0 => ~Kept(nextIndex)
    /\ indexInfo.next # 0 => ~Kept(indexInfo.next)
    /\ pc \in Writing \ {"commitFailed"} /\ ~failed =>
         Unlisted \/ committing \notin {nextIndex, indexInfo.next}

\* The fabric of AddNOC, and the one a clean-up will delete, is not installed.
SparesOK ==
    /\ failSafe.addNoc =>
         /\ failSafe.fabric \in Indices
         /\ ~Kept(failSafe.fabric) \/ (handler = "complete" /\ pc = "returned" /\ ~failed)
    /\ queue # <<>> /\ Head(queue).type = "cleanup" /\ Head(queue).addNoc =>
         ~Kept(Head(queue).fabric)


\* The tail of the posted work is posted work.
LEMMA WorkTaken ==
    ASSUME NEW q \in Seq(Items), q # <<>>
    PROVE  Tail(q) \in Seq(Items) /\ Head(q) \in Items
  OBVIOUS

\* Storing one element of a fabric, or none at all, leaves a well-formed record.
LEMMA StoredElement ==
    ASSUME NEW s \in [Indices -> StoredFabrics], NEW f
    PROVE  /\ \A v \in Labels \cup {None} : [s EXCEPT ![f].meta = v] \in [Indices -> StoredFabrics]
           /\ \A v \in Keys \cup {None} : [s EXCEPT ![f].key = v] \in [Indices -> StoredFabrics]
           /\ \A v \in Nocs \cup {None} : [s EXCEPT ![f].noc = v] \in [Indices -> StoredFabrics]
           /\ \A v \in Keys \cup {None} : [s EXCEPT ![f].icac = v] \in [Indices -> StoredFabrics]
           /\ \A v \in Roots \cup {None} : [s EXCEPT ![f].rcac = v] \in [Indices -> StoredFabrics]
  BY DEF StoredFabrics

\* The fields of an entry of the fabric table.
LEMMA EntryFields ==
    ASSUME NEW e \in Entries
    PROVE  e.noc \in Nocs /\ e.label \in Labels /\ e # None
  BY FabricAssumption DEF Entries

\* The fields of an NOC; none of them is missing.
LEMMA NocFields ==
    ASSUME NEW n \in Nocs
    PROVE  n.key \in Keys /\ n.root \in Roots /\ n.ica \in BOOLEAN /\ n # None
           /\ n.key # None /\ n.root # None
  BY FabricAssumption DEF Nocs

\* The kinds of work that are posted.
LEMMA ItemFacts ==
    /\ \A f \in Indices \cup {0}, b \in BOOLEAN :
          [type |-> "cleanup", fabric |-> f, addNoc |-> b] \in Items
    /\ [type |-> "disarm"] \in Items
    /\ [type |-> "clearMarker"] \in Items
    /\ \A i \in Items : i.type = "cleanup" => i.fabric \in Indices \cup {0} /\ i.addNoc \in BOOLEAN
  BY DEF Items

\* What the reverts and the disarming leave behind is well formed.
LEMMA EmptyRecords ==
    NoKey \in PendingKeys /\ NoCerts \in PendingCerts /\ Disarmed \in FailSafes
  BY DEF NoKey, PendingKeys, NoCerts, PendingCerts, Disarmed, FailSafes, Indices

\* Two or three pieces of work are a queue.
LEMMA WorkPosted ==
    ASSUME NEW S, NEW a \in S, NEW b \in S, NEW c \in S
    PROVE  <<a, b, c>> \in Seq(S) /\ <<a, b>> \in Seq(S)
  OBVIOUS

\* A step of a commit after its marker has a valid index to work on.
LEMMA CommitIndex ==
    ASSUME TypeOK, ControlOK, pc \in Writing
    PROVE  committing \in Indices /\ handler = "complete"
  BY DEF TypeOK, ControlOK, Handlers, Writing, CommitSteps, DeleteSteps

\* The kinds of posted work differ, and a clean-up names its fabric.
LEMMA ItemKinds ==
    /\ DisarmItem.type = "disarm"
    /\ ClearItem.type = "clearMarker"
    /\ RecoveryItem.type = "cleanup"
    /\ RecoveryItem.fabric = marker
    /\ RecoveryItem.addNoc = TRUE
  BY DEF DisarmItem, ClearItem, RecoveryItem

\* A posted clean-up names the fabric and the command it is for.
LEMMA CleanupKind ==
    ASSUME NEW f, NEW b
    PROVE  /\ CleanupItem(f, b).type = "cleanup"
           /\ CleanupItem(f, b).fabric = f
           /\ CleanupItem(f, b).addNoc = b
  BY DEF CleanupItem

\* The clean-up at the head of the posted work, and what is posted behind it.
LEMMA CleanupIsHead ==
    ASSUME TypeOK, QueueOK, queue # <<>>, Head(queue).type = "cleanup"
    PROVE  /\ Head(queue).fabric \in Indices \cup {0}
           /\ Head(queue).addNoc \in BOOLEAN
           /\ Head(queue).addNoc => Head(queue).fabric \in Indices
           /\ \/ marker = 0 /\ Tail(queue) = <<DisarmItem>>
              \/ /\ marker # 0 /\ committing = 0
                 /\ Head(queue) = RecoveryItem
                 /\ Tail(queue) = <<DisarmItem, ClearItem>>
<1>1. CASE marker = 0
  <2>1. PICK f \in Indices \cup {0}, b \in BOOLEAN :
           (b => f # 0) /\ queue = <<CleanupItem(f, b), DisarmItem>>
    BY <1>1, ItemKinds DEF QueueOK, ExpiryWork
  <2>2. Head(queue) = CleanupItem(f, b) /\ Tail(queue) = <<DisarmItem>>
    BY <2>1
  <2> QED
    BY <1>1, <2>1, <2>2, CleanupKind
<1>2. CASE marker # 0
  <2>1. queue = <<RecoveryItem, DisarmItem, ClearItem>> /\ committing = 0
    BY <1>2, ItemKinds DEF QueueOK, RecoveryWork
  <2>2. Head(queue) = RecoveryItem /\ Tail(queue) = <<DisarmItem, ClearItem>>
    BY <2>1
  <2> QED
    BY <1>2, <2>1, <2>2, ItemKinds DEF TypeOK
<1> QED
  BY <1>1, <1>2

\* With nothing posted, a marker is that of a running commit or restart.
LEMMA NothingPosted ==
    ASSUME QueueOK, queue = <<>>
    PROVE  marker # 0 => committing # 0 \/ handler = "boot"
  BY DEF QueueOK, RecoveryWork

\* The disarming at the head of the queue is the last work but the clearing of a marker.
LEMMA DisarmIsHead ==
    ASSUME TypeOK, QueueOK, queue # <<>>, Head(queue).type = "disarm"
    PROVE  \/ marker = 0 /\ Tail(queue) = <<>>
           \/ marker # 0 /\ committing = 0 /\ Tail(queue) = <<ClearItem>>
<1>1. CASE marker = 0
  <2>1. queue = <<DisarmItem>>
    BY <1>1, CleanupKind DEF QueueOK, ExpiryWork
  <2> QED
    BY <1>1, <2>1
<1>2. CASE marker # 0
  <2>1. queue = <<DisarmItem, ClearItem>> /\ committing = 0
    BY <1>2, ItemKinds DEF QueueOK, RecoveryWork
  <2> QED
    BY <1>2, <2>1
<1> QED
  BY <1>1, <1>2

\* The clearing of a marker at the head of the queue is the last work.
LEMMA ClearIsHead ==
    ASSUME TypeOK, QueueOK, queue # <<>>, Head(queue).type = "clearMarker"
    PROVE  marker # 0 /\ committing = 0 /\ Tail(queue) = <<>>
<1>1. CASE marker = 0
  BY <1>1, CleanupKind, ItemKinds DEF QueueOK, ExpiryWork
<1>2. CASE marker # 0
  <2>1. queue = <<ClearItem>> /\ committing = 0
    BY <1>2, ItemKinds DEF QueueOK, RecoveryWork
  <2> QED
    BY <1>2, <2>1
<1> QED
  BY <1>1, <1>2

\* The fail-safe keeps the fields a command does not set.
LEMMA FailSafeFields ==
    ASSUME NEW s \in FailSafes
    PROVE  /\ s.armed \in BOOLEAN /\ s.busy \in BOOLEAN /\ s.addNoc \in BOOLEAN
           /\ s.updateNoc \in BOOLEAN /\ s.root \in BOOLEAN
           /\ s.fabric \in Indices \cup {0}
  BY DEF FailSafes

\* Activating the pending key changes neither the key nor its index.
LEMMA ActivatedKey ==
    ASSUME TypeOK
    PROVE  /\ Activated.key = opKey.key
           /\ Activated.index = opKey.index
           /\ opKey.key # None => Activated.active
           /\ opKey.key = None => Activated = opKey
  BY DEF TypeOK, PendingKeys, Activated

\* A new label leaves the NOC of an entry alone.
LEMMA Relabelled ==
    ASSUME NEW e \in Entries, NEW l \in Labels
    PROVE  /\ [e EXCEPT !.label = l] \in Entries
           /\ [e EXCEPT !.label = l].noc = e.noc
           /\ [e EXCEPT !.label = l] # None
  BY FabricAssumption DEF Entries

\* SetFabricLabel keeps the fabrics in use, their NOCs and their certificates.
LEMMA LabelKeepsNocs ==
    ASSUME TypeOK, NEW a \in Accessing, NEW l \in Labels, UpdateFabricLabel(a, l)
    PROVE  /\ a \in Indices
           /\ \A f \in Indices : /\ states'[f] = None <=> states[f] = None
                                 /\ states[f] # None => states'[f].noc = states[f].noc
           /\ pendingFabric' = None <=> pendingFabric = None
           /\ pendingFabric # None => pendingFabric'.noc = pendingFabric.noc
           /\ \A f \in Indices : /\ stored'[f].noc = stored[f].noc /\ stored'[f].rcac = stored[f].rcac
                                 /\ stored'[f].key = stored[f].key /\ stored'[f].icac = stored[f].icac
                                 /\ stored'[f].meta = None => stored[f].meta = None
                                 /\ stored'[f].meta # None =>
                                      stored[f].meta # None
                                        \/ (f = a /\ flags \cap {"kIsAddPending", "kIsUpdatePending"} = {})
           /\ UNCHANGED <<flags, pendingIndex, nextIndex, opCerts, opKey, indexInfo, marker, control,
                          failSafe, queue, handler, crashes, overlapped>>
           /\ handler = "idle"
           /\ queue # <<>> => Head(queue).type = "cleanup"
<1> DEFINE shadow == HasPendingFabricUpdate /\ pendingIndex = a
<1>1. a \in Indices
  BY DEF UpdateFabricLabel, Accessing, Live
<1>2. FindFabricWithIndex(a) \in Entries
  BY <1>1 DEF UpdateFabricLabel, SetFabricLabel, FindFabricWithIndex, TypeOK
<1>3. \A f \in Indices : /\ states'[f] = None <=> states[f] = None
                         /\ states[f] # None => states'[f].noc = states[f].noc
  <2>1. CASE shadow
    BY <2>1 DEF UpdateFabricLabel, SetFabricLabel
  <2>2. CASE ~shadow
    <3>1. states' = [states EXCEPT ![a].label = l] /\ states[a] \in Entries
      BY <1>2, <2>2 DEF UpdateFabricLabel, SetFabricLabel, FindFabricWithIndex
    <3>2. states' = [states EXCEPT ![a] = [states[a] EXCEPT !.label = l]]
      BY <3>1
    <3> QED
      BY <1>1, <3>1, <3>2, Relabelled, EntryFields DEF TypeOK
  <2> QED
    BY <2>1, <2>2
<1>4. /\ pendingFabric' = None <=> pendingFabric = None
      /\ pendingFabric # None => pendingFabric'.noc = pendingFabric.noc
  <2>1. CASE shadow
    <3>1. pendingFabric' = [pendingFabric EXCEPT !.label = l] /\ pendingFabric \in Entries
      BY <1>2, <2>1 DEF UpdateFabricLabel, SetFabricLabel, FindFabricWithIndex
    <3> QED
      BY <3>1, Relabelled, EntryFields
  <2>2. CASE ~shadow
    BY <2>2 DEF UpdateFabricLabel, SetFabricLabel
  <2> QED
    BY <2>1, <2>2
<1>5. \A f \in Indices : /\ stored'[f].noc = stored[f].noc /\ stored'[f].rcac = stored[f].rcac
                         /\ stored'[f].key = stored[f].key /\ stored'[f].icac = stored[f].icac
                         /\ stored'[f].meta = None => stored[f].meta = None
                         /\ stored'[f].meta # None =>
                              stored[f].meta # None
                                \/ (f = a /\ flags \cap {"kIsAddPending", "kIsUpdatePending"} = {})
  BY <1>1, FabricAssumption DEF UpdateFabricLabel, SetFabricLabel, TypeOK, StoredFabrics
<1> QED
  BY <1>1, <1>3, <1>4, <1>5 DEF UpdateFabricLabel, SetFabricLabel, Ready, control


\* Every step of the system preserves the types.
LEMMA TypeStep ==
    ASSUME TypeOK, ControlOK, QueueOK, CommitOK, Next
    PROVE  TypeOK'
<1> USE FabricAssumption DEF TypeOK, memory, storage, control, tableVars
<1>0. /\ EnsuredNext(nextIndex, Live) \in Indices \cup {0}
      /\ \A live : EnsuredNext(indexInfo.next, live) \in Indices \cup {0}
      /\ NextFree(nextIndex, Live) \in Indices \cup {0}
      /\ \A a \in Accessing : a \in Indices \cup {0}
      /\ Live \subseteq Indices
      /\ 0 \notin Indices
  BY EnsuredNextRange, NextFreeIsFree DEF Accessing, Live, Indices, IndexInfos
<1>1. ASSUME NEW a \in Accessing, ArmFailSafe(a) PROVE TypeOK'
  <2>1. failSafe' \in FailSafes
    BY <1>1, <1>0 DEF ArmFailSafe, FailSafes, Disarmed
  <2> QED
    BY <1>1, <2>1 DEF ArmFailSafe
<1>2. ASSUME NEW a \in Accessing, NEW u \in BOOLEAN, CSRRequest(a, u) PROVE TypeOK'
  <2>1. /\ pendingIndex' \in Indices \cup {0}
        /\ nextIndex' \in Indices \cup {0}
    BY <1>2, <1>0 DEF CSRRequest, AllocatePendingOperationalKey
  <2>2. flags' \subseteq StateFlags
    BY <1>2, <1>0 DEF CSRRequest, AllocatePendingOperationalKey, StateFlags
  <2>3. opKey' \in PendingKeys
    BY <1>2, <1>0 DEF CSRRequest, AllocatePendingOperationalKey, PendingKeys, NoKey
  <2> QED
    BY <1>2, <2>1, <2>2, <2>3 DEF CSRRequest, AllocatePendingOperationalKey
<1>3. ASSUME NEW a \in Accessing, NEW r \in Roots, AddTrustedRootCertificate(a, r) PROVE TypeOK'
  <2>1. /\ pendingIndex' \in Indices \cup {0}
        /\ nextIndex' \in Indices \cup {0}
    BY <1>3, <1>0 DEF AddTrustedRootCertificate, AddNewPendingTrustedRootCert
  <2>2. flags' \subseteq StateFlags
    BY <1>3, <1>0 DEF AddTrustedRootCertificate, AddNewPendingTrustedRootCert, StateFlags
  <2>3. opCerts' \in PendingCerts
    BY <1>3, <1>0 DEF AddTrustedRootCertificate, AddNewPendingTrustedRootCert, PendingCerts,
         NoCerts
  <2>4. failSafe' \in FailSafes
    <3>1. TrustedRootAccepted \in BOOLEAN
      BY DEF TrustedRootAccepted
    <3> QED
      BY <1>3, <3>1 DEF AddTrustedRootCertificate, FailSafes
  <2> QED
    BY <1>3, <2>1, <2>2, <2>3, <2>4 DEF AddTrustedRootCertificate, AddNewPendingTrustedRootCert
<1>4. ASSUME NEW a \in Accessing, NEW noc \in Nocs, AddNOC(a, noc) PROVE TypeOK'
  <2>1. /\ pendingIndex' \in Indices \cup {0}
        /\ nextIndex' \in Indices \cup {0}
    BY <1>4, <1>0 DEF AddNOC, AddNewPendingFabric, CanAddFabric, Activated
  <2>2. flags' \subseteq StateFlags
    BY <1>4, <1>0 DEF AddNOC, AddNewPendingFabric, CanAddFabric, Activated, StateFlags
  <2>3. opCerts' \in PendingCerts
    BY <1>4, <1>0 DEF AddNOC, AddNewPendingFabric, CanAddFabric, Activated, PendingCerts, NoCerts
  <2>4. opKey' \in PendingKeys
    BY <1>4, <1>0 DEF AddNOC, AddNewPendingFabric, CanAddFabric, Activated, PendingKeys, NoKey
  <2>5. states' \in [Indices -> Entries \cup {None}]
    BY <1>4, <1>0 DEF AddNOC, AddNewPendingFabric, CanAddFabric, Activated, Entries
  <2>6. failSafe' \in FailSafes
    BY <1>4, <1>0 DEF AddNOC, AddNewPendingFabric, CanAddFabric, Activated, FailSafes, Disarmed
  <2> QED
    BY <1>4, <2>1, <2>2, <2>3, <2>4, <2>5, <2>6 DEF AddNOC, AddNewPendingFabric,
         CanAddFabric, Activated
<1>5. ASSUME NEW a \in Accessing, NEW noc \in Nocs, AddNOCUndone(a, noc) PROVE TypeOK'
  <2>1. /\ pendingIndex' \in Indices \cup {0}
        /\ nextIndex' \in Indices \cup {0}
        /\ pc' \in Steps
        /\ victim' \in Indices \cup {0}
        /\ resume' \in {"returned", "commitFailed", "revertRest", "exceptRootRest"}
        /\ handler' \in Handlers
    BY <1>5, <1>0 DEF AddNOCUndone, CanAddFabric, Activated, Steps, CommitSteps,
         DeleteSteps, Handlers
  <2>2. flags' \subseteq StateFlags
    BY <1>5, <1>0 DEF AddNOCUndone, CanAddFabric, Activated, StateFlags
  <2>3. opKey' \in PendingKeys
    BY <1>5, <1>0 DEF AddNOCUndone, CanAddFabric, Activated, PendingKeys, NoKey
  <2>4. states' \in [Indices -> Entries \cup {None}]
    BY <1>5, <1>0 DEF AddNOCUndone, CanAddFabric, Activated, Entries
  <2> QED
    BY <1>5, <2>1, <2>2, <2>3, <2>4 DEF AddNOCUndone, CanAddFabric, Activated
<1>6. ASSUME NEW a \in Accessing, NEW noc \in Nocs, UpdateNOC(a, noc) PROVE TypeOK'
  <2>1. pendingIndex' \in Indices \cup {0}
    BY <1>6, <1>0 DEF UpdateNOC, UpdatePendingFabric, CanUpdateFabric, RefusePendingUpdate,
         AbandonPendingUpdate, Activated, FindFabricWithIndex
  <2>2. flags' \subseteq StateFlags
    BY <1>6, <1>0 DEF UpdateNOC, UpdatePendingFabric, CanUpdateFabric, RefusePendingUpdate,
         AbandonPendingUpdate, Activated, FindFabricWithIndex, StateFlags
  <2>3. opCerts' \in PendingCerts
    BY <1>6, <1>0 DEF UpdateNOC, UpdatePendingFabric, CanUpdateFabric, RefusePendingUpdate,
         AbandonPendingUpdate, Activated, FindFabricWithIndex, PendingCerts, NoCerts
  <2>4. opKey' \in PendingKeys
    BY <1>6, <1>0 DEF UpdateNOC, UpdatePendingFabric, CanUpdateFabric, RefusePendingUpdate,
         AbandonPendingUpdate, Activated, FindFabricWithIndex, PendingKeys, NoKey
  <2>5. pendingFabric' \in Entries \cup {None}
    <3>1. FindFabricWithIndex(a) \in Entries \cup {None}
      BY <1>0, <1>6 DEF UpdateNOC, FindFabricWithIndex
    <3>2. UpdatePendingFabric(a, noc) => FindFabricWithIndex(a) # None
      BY DEF UpdatePendingFabric, CanUpdateFabric, FindFabricWithIndex,
           HasPendingFabricUpdate, Live
    <3>3. UpdatePendingFabric(a, noc) =>
             [noc |-> noc, label |-> FindFabricWithIndex(a).label] \in Entries
      BY <3>1, <3>2, <1>6, EntryFields DEF Entries
    <3> QED
      BY <1>6, <3>3 DEF UpdateNOC, UpdatePendingFabric, RefusePendingUpdate,
           AbandonPendingUpdate
  <2>6. failSafe' \in FailSafes
    BY <1>6, <1>0 DEF UpdateNOC, UpdatePendingFabric, CanUpdateFabric, RefusePendingUpdate,
         AbandonPendingUpdate, Activated, FindFabricWithIndex, FailSafes, Disarmed
  <2> QED
    BY <1>6, <2>1, <2>2, <2>3, <2>4, <2>5, <2>6 DEF UpdateNOC, UpdatePendingFabric,
         CanUpdateFabric, RefusePendingUpdate, AbandonPendingUpdate, Activated,
         FindFabricWithIndex
<1>7. ASSUME NEW a \in Accessing, NEW l \in Labels, UpdateFabricLabel(a, l) PROVE TypeOK'
  <2>1. pendingFabric' \in Entries \cup {None}
    BY <1>7, <1>0 DEF UpdateFabricLabel, SetFabricLabel, FindFabricWithIndex,
         HasPendingFabricUpdate, Entries
  <2>2. states' \in [Indices -> Entries \cup {None}]
    BY <1>7, <1>0 DEF UpdateFabricLabel, SetFabricLabel, FindFabricWithIndex,
         HasPendingFabricUpdate, Entries
  <2>3. stored' \in [Indices -> StoredFabrics]
    BY <1>7, <1>0, StoredElement, EntryFields, NocFields DEF UpdateFabricLabel,
         SetFabricLabel, FindFabricWithIndex, HasPendingFabricUpdate
  <2> QED
    BY <1>7, <2>1, <2>2, <2>3 DEF UpdateFabricLabel, SetFabricLabel, FindFabricWithIndex,
         HasPendingFabricUpdate
<1>8. ASSUME NEW a \in Accessing, CommissioningComplete(a) PROVE TypeOK'
  <2>1. /\ pendingIndex' \in Indices \cup {0}
        /\ pc' \in Steps
        /\ failed' \in BOOLEAN
        /\ handler' \in Handlers
    BY <1>8, <1>0 DEF CommissioningComplete, CommitPendingFabricData, Reverted, Steps,
         CommitSteps, DeleteSteps, Handlers
  <2>2. pendingFabric' \in Entries \cup {None}
    BY <1>8, <1>0 DEF CommissioningComplete, CommitPendingFabricData, Reverted, Entries
  <2>3. opCerts' \in PendingCerts
    BY <1>8, <1>0, EmptyRecords DEF CommissioningComplete, CommitPendingFabricData, Reverted
  <2>4. opKey' \in PendingKeys
    BY <1>8, <1>0, EmptyRecords DEF CommissioningComplete, CommitPendingFabricData, Reverted
  <2>5. flags' \subseteq StateFlags
    BY <1>8, <1>0 DEF CommissioningComplete, CommitPendingFabricData, Reverted, StateFlags
  <2>6. failSafe' \in FailSafes
    BY <1>8, <1>0, EmptyRecords DEF CommissioningComplete, CommitPendingFabricData, Reverted
  <2> QED
    BY <1>8, <2>1, <2>2, <2>3, <2>4, <2>5, <2>6 DEF CommissioningComplete,
         CommitPendingFabricData, Reverted
<1>9. ASSUME NEW f \in Indices, RemoveFabric(f) PROVE TypeOK'
  <2>1. /\ pendingIndex' \in Indices \cup {0}
        /\ pc' \in Steps
        /\ victim' \in Indices \cup {0}
        /\ resume' \in {"returned", "commitFailed", "revertRest", "exceptRootRest"}
        /\ handler' \in Handlers
        /\ overlapped' \in BOOLEAN
    BY <1>9, <1>0 DEF RemoveFabric, Delete, Reverted, Steps, CommitSteps, DeleteSteps, Handlers
  <2>2. pendingFabric' \in Entries \cup {None}
    BY <1>9, <1>0 DEF RemoveFabric, Delete, Reverted, Entries
  <2>3. opCerts' \in PendingCerts
    BY <1>9, <1>0, EmptyRecords DEF RemoveFabric, Delete, Reverted
  <2>4. opKey' \in PendingKeys
    BY <1>9, <1>0, EmptyRecords DEF RemoveFabric, Delete, Reverted
  <2>5. flags' \subseteq StateFlags
    BY <1>9, <1>0 DEF RemoveFabric, Delete, Reverted, StateFlags
  <2> QED
    BY <1>9, <2>1, <2>2, <2>3, <2>4, <2>5 DEF RemoveFabric, Delete, Reverted
<1>10. CASE FailSafeTimerExpired
  <2>1. failSafe' \in FailSafes
    BY <1>10, <1>0 DEF FailSafeTimerExpired, ScheduleFailSafeCleanup, FailSafes, Disarmed
  <2>2. queue' \in Seq(Items)
    <3>1. failSafe.fabric \in Indices \cup {0} /\ failSafe.addNoc \in BOOLEAN
      BY DEF FailSafes
    <3>2. [type |-> "cleanup", fabric |-> failSafe.fabric, addNoc |-> failSafe.addNoc] \in Items
      BY <3>1, ItemFacts, Zenon
    <3>3. [type |-> "disarm"] \in Items
      BY ItemFacts
    <3>4. queue' = queue \o << [type |-> "cleanup", fabric |-> failSafe.fabric, addNoc |-> failSafe.addNoc],
                               [type |-> "disarm"] >>
      BY <1>10 DEF FailSafeTimerExpired, ScheduleFailSafeCleanup
    <3> QED
      BY <3>2, <3>3, <3>4
  <2> QED
    BY <1>10, <2>1, <2>2 DEF FailSafeTimerExpired, ScheduleFailSafeCleanup
<1>11. CASE FailSafeCleanup
  <2>1. /\ pc' \in Steps
        /\ victim' \in Indices \cup {0}
        /\ resume' \in {"returned", "commitFailed", "revertRest", "exceptRootRest"}
        /\ handler' \in Handlers
    BY <1>11, <1>0 DEF FailSafeCleanup, RevertPendingFabricData,
         RevertPendingOpCertsExceptRoot, Steps, CommitSteps, DeleteSteps, Handlers
  <2>2. pendingFabric' \in Entries \cup {None}
    BY <1>11, <1>0 DEF FailSafeCleanup, RevertPendingFabricData,
         RevertPendingOpCertsExceptRoot, Entries
  <2>3. opCerts' \in PendingCerts
    BY <1>11, <1>0 DEF FailSafeCleanup, RevertPendingFabricData,
         RevertPendingOpCertsExceptRoot, PendingCerts, NoCerts
  <2> QED
    BY <1>11, <2>1, <2>2, <2>3 DEF FailSafeCleanup, RevertPendingFabricData,
         RevertPendingOpCertsExceptRoot
<1>12. CASE HandleDisarmFailSafe
  <2>1. failSafe' \in FailSafes
    BY <1>12, <1>0, EmptyRecords DEF HandleDisarmFailSafe
  <2>2. queue' \in Seq(Items)
    BY <1>12, <1>0, WorkTaken, ItemFacts DEF HandleDisarmFailSafe
  <2> QED
    BY <1>12, <2>1, <2>2 DEF HandleDisarmFailSafe
<1>13. CASE ClearMarkerAfterCleanup
  <2>1. marker' \in Indices \cup {0}
    BY <1>13, <1>0 DEF ClearMarkerAfterCleanup
  <2>2. queue' \in Seq(Items)
    BY <1>13, <1>0, WorkTaken, ItemFacts DEF ClearMarkerAfterCleanup
  <2> QED
    BY <1>13, <2>1, <2>2 DEF ClearMarkerAfterCleanup
<1>14. CASE CommandReturns
  <2>1. /\ handler' \in Handlers
        /\ pc' \in Steps
        /\ victim' \in Indices \cup {0}
        /\ resume' \in {"returned", "commitFailed", "revertRest", "exceptRootRest"}
        /\ failed' \in BOOLEAN
    BY <1>14, <1>0 DEF CommandReturns, Finished, Steps, CommitSteps, DeleteSteps, Handlers
  <2> QED
    BY <1>14, <2>1 DEF CommandReturns, Finished
<1>15. CASE CommissioningCompleteReturns
  <2>1. /\ handler' \in Handlers
        /\ pc' \in Steps
        /\ victim' \in Indices \cup {0}
        /\ resume' \in {"returned", "commitFailed", "revertRest", "exceptRootRest"}
        /\ failed' \in BOOLEAN
    BY <1>15, <1>0 DEF CommissioningCompleteReturns, Finished, Steps, CommitSteps,
         DeleteSteps, Handlers
  <2>2. failSafe' \in FailSafes
    BY <1>15, <1>0, EmptyRecords DEF CommissioningCompleteReturns, Finished
  <2> QED
    BY <1>15, <2>1, <2>2 DEF CommissioningCompleteReturns, Finished
<1>16. CASE CleanupReverted
  <2>1. /\ pendingIndex' \in Indices \cup {0}
        /\ handler' \in Handlers
        /\ pc' \in Steps
        /\ victim' \in Indices \cup {0}
        /\ resume' \in {"returned", "commitFailed", "revertRest", "exceptRootRest"}
        /\ failed' \in BOOLEAN
    <3>1. Head(queue) \in Items /\ Head(queue).type = "cleanup"
      BY <1>16, WorkTaken DEF CleanupReverted, Return, QueueOK
    <3> QED
      BY <1>16, <3>1, ItemFacts DEF CleanupReverted, Delete, Reverted, Finished, Return,
           Steps, CommitSteps, DeleteSteps, Handlers
  <2>2. pendingFabric' \in Entries \cup {None}
    BY <1>16, <1>0 DEF CleanupReverted, Delete, Reverted, Finished, Return, Entries
  <2>3. opCerts' \in PendingCerts
    BY <1>16, <1>0, EmptyRecords DEF CleanupReverted, Delete, Reverted, Finished, Return
  <2>4. opKey' \in PendingKeys
    BY <1>16, <1>0, EmptyRecords DEF CleanupReverted, Delete, Reverted, Finished, Return
  <2>5. flags' \subseteq StateFlags
    BY <1>16, <1>0 DEF CleanupReverted, Delete, Reverted, Finished, Return, StateFlags
  <2>6. queue' \in Seq(Items)
    BY <1>16, WorkTaken DEF CleanupReverted, Return, QueueOK
  <2> QED
    BY <1>16, <2>1, <2>2, <2>3, <2>4, <2>5, <2>6 DEF CleanupReverted, Delete, Reverted,
         Finished, Return
<1>17. CASE CleanupReturns
  <2>1. /\ handler' \in Handlers
        /\ pc' \in Steps
        /\ victim' \in Indices \cup {0}
        /\ resume' \in {"returned", "commitFailed", "revertRest", "exceptRootRest"}
        /\ failed' \in BOOLEAN
    BY <1>17, <1>0 DEF CleanupReturns, Finished, Return, Steps, CommitSteps, DeleteSteps, Handlers
  <2>2. queue' \in Seq(Items)
    BY <1>17, WorkTaken DEF CleanupReturns, Return, QueueOK
  <2> QED
    BY <1>17, <2>1, <2>2 DEF CleanupReturns, Finished, Return
<1>18. CASE ServerInitReturns
  <2>1. /\ handler' \in Handlers
        /\ pc' \in Steps
        /\ victim' \in Indices \cup {0}
        /\ resume' \in {"returned", "commitFailed", "revertRest", "exceptRootRest"}
        /\ failed' \in BOOLEAN
    BY <1>18, <1>0 DEF ServerInitReturns, Finished, Steps, CommitSteps, DeleteSteps, Handlers
  <2>2. failSafe' \in FailSafes
    BY <1>18, <1>0 DEF ServerInitReturns, Finished, FailSafes, Disarmed
  <2>3. queue' \in Seq(Items)
    <3>1. /\ [type |-> "cleanup", fabric |-> victim, addNoc |-> TRUE] \in Items
          /\ [type |-> "disarm"] \in Items
          /\ [type |-> "clearMarker"] \in Items
      BY ItemFacts, Zenon
    <3>2. \/ queue' = queue
          \/ queue' = << [type |-> "cleanup", fabric |-> victim, addNoc |-> TRUE],
                         [type |-> "disarm"], [type |-> "clearMarker"] >>
      BY <1>18 DEF ServerInitReturns
    <3>3. << [type |-> "cleanup", fabric |-> victim, addNoc |-> TRUE],
             [type |-> "disarm"], [type |-> "clearMarker"] >> \in Seq(Items)
      BY <3>1, WorkPosted, Zenon
    <3>4. queue \in Seq(Items)
      OBVIOUS
    <3> QED
      BY ONLY <3>2, <3>3, <3>4
  <2> QED
    BY <1>18, <2>1, <2>2, <2>3 DEF ServerInitReturns, Finished
<1>19. CASE Crash
  <2>1. /\ pendingIndex' \in Indices \cup {0}
        /\ nextIndex' \in Indices \cup {0}
        /\ pc' \in Steps
        /\ victim' \in Indices \cup {0}
        /\ resume' \in {"returned", "commitFailed", "revertRest", "exceptRootRest"}
        /\ committing' \in Indices \cup {0}
        /\ failed' \in BOOLEAN
        /\ handler' \in Handlers
    BY <1>19, <1>0 DEF Crash, TableRestart, Reverted, Steps, CommitSteps, DeleteSteps, Handlers
  <2>2. pendingFabric' \in Entries \cup {None}
    BY <1>19, <1>0 DEF Crash, TableRestart, Reverted, Entries
  <2>3. opCerts' \in PendingCerts
    BY <1>19, <1>0, EmptyRecords DEF Crash, TableRestart, Reverted
  <2>4. opKey' \in PendingKeys
    BY <1>19, <1>0, EmptyRecords DEF Crash, TableRestart, Reverted
  <2>5. flags' \subseteq StateFlags
    BY <1>19, <1>0 DEF Crash, TableRestart, Reverted, StateFlags
  <2>6. states' \in [Indices -> Entries \cup {None}]
    <3>1. \A f \in Indices : Loadable(f) =>
             [noc |-> stored[f].noc, label |-> stored[f].meta] \in Entries
      BY DEF Loadable, StoredFabrics, Entries
    <3> QED
      BY <1>19, <3>1 DEF Crash, TableRestart
  <2>7. failSafe' \in FailSafes
    BY <1>19, <1>0, EmptyRecords DEF Crash, TableRestart, Reverted
  <2>8. queue' \in Seq(Items)
    BY <1>19, <1>0, WorkTaken, ItemFacts DEF Crash, TableRestart, Reverted
  <2>9. crashes' \in 0..MaxCrashes
    <3>1. crashes' = crashes \/ (crashes < MaxCrashes /\ crashes' = crashes + 1)
      BY <1>19 DEF Crash
    <3> QED
      BY <3>1, CrashAssumption
  <2> QED
    BY <1>19, <2>1, <2>2, <2>3, <2>4, <2>5, <2>6, <2>7, <2>8, <2>9 DEF Crash, TableRestart,
         Reverted
<1>20. CASE DeleteMetadataFromStorage /\ UNCHANGED <<failSafe, queue, handler, crashes, overlapped>>
  <2>1. pc' \in Steps
    BY <1>20, <1>0 DEF DeleteMetadataFromStorage, Step, Outcome, Steps, CommitSteps, DeleteSteps
  <2>2. stored' \in [Indices -> StoredFabrics]
    BY <1>20, <1>0, StoredElement, EntryFields, NocFields DEF DeleteMetadataFromStorage,
         Step, Outcome
  <2> QED
    BY <1>20, <2>1, <2>2 DEF DeleteMetadataFromStorage, Step, Outcome
<1>21. CASE RemoveOpKeypairForFabric /\ UNCHANGED <<failSafe, queue, handler, crashes, overlapped>>
  <2>1. pc' \in Steps
    BY <1>21, <1>0 DEF RemoveOpKeypairForFabric, Step, Outcome, Steps, CommitSteps, DeleteSteps
  <2>2. opKey' \in PendingKeys
    BY <1>21, <1>0, EmptyRecords DEF RemoveOpKeypairForFabric, Step, Outcome
  <2>3. stored' \in [Indices -> StoredFabrics]
    BY <1>21, <1>0, StoredElement, EntryFields, NocFields DEF RemoveOpKeypairForFabric,
         Step, Outcome
  <2> QED
    BY <1>21, <2>1, <2>2, <2>3 DEF RemoveOpKeypairForFabric, Step, Outcome
<1>22. CASE RemoveOpCertsForFabric /\ UNCHANGED <<failSafe, queue, handler, crashes, overlapped>>
  <2>1. pc' \in Steps
    BY <1>22, <1>0 DEF RemoveOpCertsForFabric, Step, Outcome, Steps, CommitSteps, DeleteSteps
  <2>2. opCerts' \in PendingCerts
    BY <1>22, <1>0, EmptyRecords DEF RemoveOpCertsForFabric, Step, Outcome
  <2>3. stored' \in [Indices -> StoredFabrics]
    BY <1>22, <1>0, StoredElement, EntryFields, NocFields DEF RemoveOpCertsForFabric, Step,
         Outcome
  <2> QED
    BY <1>22, <2>1, <2>2, <2>3 DEF RemoveOpCertsForFabric, Step, Outcome
<1>23. CASE DeleteIcac /\ UNCHANGED <<failSafe, queue, handler, crashes, overlapped>>
  <2>1. pc' \in Steps
    BY <1>23, <1>0 DEF DeleteIcac, Step, Outcome, Steps, CommitSteps, DeleteSteps
  <2>2. stored' \in [Indices -> StoredFabrics]
    BY <1>23, <1>0, StoredElement, EntryFields, NocFields DEF DeleteIcac, Step, Outcome
  <2> QED
    BY <1>23, <2>1, <2>2 DEF DeleteIcac, Step, Outcome
<1>24. CASE DeleteRcac /\ UNCHANGED <<failSafe, queue, handler, crashes, overlapped>>
  <2>1. pc' \in Steps
    BY <1>24, <1>0 DEF DeleteRcac, Step, Outcome, Steps, CommitSteps, DeleteSteps
  <2>2. stored' \in [Indices -> StoredFabrics]
    BY <1>24, <1>0, StoredElement, EntryFields, NocFields DEF DeleteRcac, Step, Outcome
  <2> QED
    BY <1>24, <2>1, <2>2 DEF DeleteRcac, Step, Outcome
<1>25. CASE DeleteFromTable /\ UNCHANGED <<failSafe, queue, handler, crashes, overlapped>>
  <2>1. /\ pc' \in Steps
        /\ nextIndex' \in Indices \cup {0}
    BY <1>25, <1>0 DEF DeleteFromTable, Step, Outcome, Live, Steps, CommitSteps, DeleteSteps
  <2>2. states' \in [Indices -> Entries \cup {None}]
    BY <1>25, <1>0 DEF DeleteFromTable, Step, Outcome, Live, Entries
  <2>3. indexInfo' \in IndexInfos
    <3>1. [next |-> nextIndex', list |-> Live \ {victim}] \in IndexInfos
      BY <2>1, <1>0 DEF IndexInfos
    <3>2. indexInfo' = indexInfo \/ indexInfo' = [next |-> nextIndex', list |-> Live \ {victim}]
      BY <1>25 DEF DeleteFromTable
    <3> QED
      BY <3>1, <3>2, Zenon
  <2> QED
    BY <1>25, <2>1, <2>2, <2>3 DEF DeleteFromTable, Step, Outcome, Live
<1>26. CASE ExceptRootRest /\ UNCHANGED <<failSafe, queue, handler, crashes, overlapped>>
  <2>1. /\ pc' \in Steps
        /\ pendingIndex' \in Indices \cup {0}
    BY <1>26, <1>0 DEF ExceptRootRest, Step, Outcome, Steps, CommitSteps, DeleteSteps
  <2>2. flags' \subseteq StateFlags
    BY <1>26, <1>0 DEF ExceptRootRest, Step, Outcome, StateFlags
  <2> QED
    BY <1>26, <2>1, <2>2 DEF ExceptRootRest, Step, Outcome
<1>27. CASE RevertRest /\ UNCHANGED <<failSafe, queue, handler, crashes, overlapped>>
  <2>1. /\ pc' \in Steps
        /\ pendingIndex' \in Indices \cup {0}
    BY <1>27, <1>0 DEF RevertRest, Step, Outcome, Reverted, Steps, CommitSteps, DeleteSteps
  <2>2. pendingFabric' \in Entries \cup {None}
    BY <1>27, <1>0 DEF RevertRest, Step, Outcome, Reverted, Entries
  <2>3. opCerts' \in PendingCerts
    BY <1>27, <1>0, EmptyRecords DEF RevertRest, Step, Outcome, Reverted
  <2>4. opKey' \in PendingKeys
    BY <1>27, <1>0, EmptyRecords DEF RevertRest, Step, Outcome, Reverted
  <2>5. flags' \subseteq StateFlags
    BY <1>27, <1>0 DEF RevertRest, Step, Outcome, Reverted, StateFlags
  <2> QED
    BY <1>27, <2>1, <2>2, <2>3, <2>4, <2>5 DEF RevertRest, Step, Outcome, Reverted
<1>28. CASE StoreCommitMarker /\ UNCHANGED <<failSafe, queue, handler, crashes, overlapped>>
  <2>1. /\ pc' \in Steps
        /\ marker' \in Indices \cup {0}
        /\ failed' \in BOOLEAN
        /\ committing' \in Indices \cup {0}
    BY <1>28, <1>0 DEF StoreCommitMarker, Step, Outcome, Steps, CommitSteps, DeleteSteps
  <2>2. flags' \subseteq StateFlags
    BY <1>28, <1>0 DEF StoreCommitMarker, Step, Outcome, StateFlags
  <2>3. states' \in [Indices -> Entries \cup {None}]
    BY <1>28, <1>0 DEF StoreCommitMarker, Step, Outcome, Entries
  <2>4. pendingFabric' \in Entries \cup {None}
    BY <1>28, <1>0 DEF StoreCommitMarker, Step, Outcome, Entries
  <2> QED
    BY <1>28, <2>1, <2>2, <2>3, <2>4 DEF StoreCommitMarker, Step, Outcome
<1>29. CASE StoreFabricMetadata /\ UNCHANGED <<failSafe, queue, handler, crashes, overlapped>>
  <2>1. /\ pc' \in Steps
        /\ failed' \in BOOLEAN
    BY <1>29, <1>0 DEF StoreFabricMetadata, Step, Outcome, Steps, CommitSteps, DeleteSteps
  <2>2. stored' \in [Indices -> StoredFabrics]
    <3>1. states[committing].label \in Labels
      BY <1>29, CommitIndex, EntryFields DEF StoreFabricMetadata, Step, CommitOK,
           CommitSources, Writing, CommitSteps
    <3>2. [stored EXCEPT ![committing].meta = states[committing].label] \in [Indices -> StoredFabrics]
      BY <3>1, StoredElement, Zenon
    <3>3. stored' = stored \/ stored' = [stored EXCEPT ![committing].meta = states[committing].label]
      BY <1>29 DEF StoreFabricMetadata
    <3> QED
      BY <3>2, <3>3, Zenon
  <2> QED
    BY <1>29, <2>1, <2>2 DEF StoreFabricMetadata, Step, Outcome
<1>30. CASE CommitOpKeypairForFabric /\ UNCHANGED <<failSafe, queue, handler, crashes, overlapped>>
  <2>1. /\ pc' \in Steps
        /\ failed' \in BOOLEAN
    BY <1>30, <1>0 DEF CommitOpKeypairForFabric, Step, Outcome, Steps, CommitSteps, DeleteSteps
  <2>2. opKey' \in PendingKeys
    BY <1>30, <1>0, EmptyRecords DEF CommitOpKeypairForFabric, Step, Outcome
  <2>3. stored' \in [Indices -> StoredFabrics]
    <3>1. opKey.key \in Keys \cup {None}
      BY DEF PendingKeys
    <3>2. [stored EXCEPT ![committing].key = opKey.key] \in [Indices -> StoredFabrics]
      BY <3>1, StoredElement, Zenon
    <3>3. stored' = stored \/ stored' = [stored EXCEPT ![committing].key = opKey.key]
      BY <1>30 DEF CommitOpKeypairForFabric
    <3> QED
      BY <3>2, <3>3, Zenon
  <2>4. opCerts' \in PendingCerts
    BY <1>30, <1>0, EmptyRecords DEF CommitOpKeypairForFabric, Step, Outcome
  <2> QED
    BY <1>30, <2>1, <2>2, <2>3, <2>4 DEF CommitOpKeypairForFabric, Step, Outcome
<1>31. CASE CommitNoc /\ UNCHANGED <<failSafe, queue, handler, crashes, overlapped>>
  <2>1. /\ pc' \in Steps
        /\ failed' \in BOOLEAN
    BY <1>31, <1>0 DEF CommitNoc, Step, Outcome, Steps, CommitSteps, DeleteSteps
  <2>2. stored' \in [Indices -> StoredFabrics]
    <3>1. opCerts.noc \in Nocs \cup {None}
      BY DEF PendingCerts
    <3>2. [stored EXCEPT ![committing].noc = opCerts.noc] \in [Indices -> StoredFabrics]
      BY <3>1, StoredElement, Zenon
    <3>3. stored' = stored \/ stored' = [stored EXCEPT ![committing].noc = opCerts.noc]
      BY <1>31 DEF CommitNoc
    <3> QED
      BY <3>2, <3>3, Zenon
  <2> QED
    BY <1>31, <2>1, <2>2 DEF CommitNoc, Step, Outcome
<1>32. CASE CommitIcac /\ UNCHANGED <<failSafe, queue, handler, crashes, overlapped>>
  <2>1. /\ pc' \in Steps
        /\ failed' \in BOOLEAN
    BY <1>32, <1>0 DEF CommitIcac, Step, Outcome, Steps, CommitSteps, DeleteSteps
  <2>2. stored' \in [Indices -> StoredFabrics]
    <3> DEFINE icac == IF opCerts.noc.ica THEN opCerts.noc.key ELSE None
    <3>1. opCerts.noc \in Nocs
      BY <1>32 DEF PendingCerts, CommitIcac, Step, CommitOK, CommitSources
    <3>2. icac \in Keys \cup {None}
      BY <3>1, NocFields
    <3>3. stored' = stored \/ stored' = [stored EXCEPT ![committing].icac = icac]
      BY <1>32 DEF CommitIcac
    <3> HIDE DEF icac
    <3>4. [stored EXCEPT ![committing].icac = icac] \in [Indices -> StoredFabrics]
      BY <3>2, StoredElement, Zenon
    <3> QED
      BY <3>3, <3>4, Zenon
  <2> QED
    BY <1>32, <2>1, <2>2 DEF CommitIcac, Step, Outcome
<1>33. CASE CommitRcac /\ UNCHANGED <<failSafe, queue, handler, crashes, overlapped>>
  <2>1. /\ pc' \in Steps
        /\ failed' \in BOOLEAN
    BY <1>33, <1>0 DEF CommitRcac, Step, Outcome, Steps, CommitSteps, DeleteSteps
  <2>2. stored' \in [Indices -> StoredFabrics]
    <3> DEFINE now == stored[committing]
           kept == [now EXCEPT !.rcac = opCerts.rcac]
           dropped == [now EXCEPT !.noc = None, !.icac = None, !.rcac = None]
    <3>1. opCerts.rcac \in Roots \cup {None}
      BY DEF PendingCerts
    <3>2. now \in StoredFabrics
      BY <1>33, CommitIndex DEF CommitRcac, Step, Writing, CommitSteps
    <3>3. kept \in StoredFabrics /\ dropped \in StoredFabrics
      BY <3>1, <3>2 DEF StoredFabrics
    <3>4. \E r \in {now, kept, dropped} : stored' = [stored EXCEPT ![committing] = r]
      BY <1>33 DEF CommitRcac
    <3> HIDE DEF now, kept, dropped
    <3> QED
      BY <3>2, <3>3, <3>4
  <2>3. opCerts' \in PendingCerts
    BY <1>33, <1>0, EmptyRecords DEF CommitRcac, Step, Outcome
  <2> QED
    BY <1>33, <2>1, <2>2, <2>3 DEF CommitRcac, Step, Outcome
<1>34. CASE CommitFabricIndexInfo /\ UNCHANGED <<failSafe, queue, handler, crashes, overlapped>>
  <2>1. /\ pc' \in Steps
        /\ nextIndex' \in Indices \cup {0}
        /\ failed' \in BOOLEAN
    BY <1>34, <1>0 DEF CommitFabricIndexInfo, Step, Outcome, Live, Steps, CommitSteps, DeleteSteps
  <2>2. indexInfo' \in IndexInfos
    <3>1. [next |-> nextIndex', list |-> Live] \in IndexInfos
      BY <2>1, <1>0 DEF IndexInfos
    <3>2. indexInfo' = indexInfo \/ indexInfo' = [next |-> nextIndex', list |-> Live]
      BY <1>34 DEF CommitFabricIndexInfo
    <3> QED
      BY <3>1, <3>2, Zenon
  <2> QED
    BY <1>34, <2>1, <2>2 DEF CommitFabricIndexInfo, Step, Outcome, Live
<1>35. CASE CommitFinish /\ UNCHANGED <<failSafe, queue, handler, crashes, overlapped>>
  <2>1. /\ pc' \in Steps
        /\ pendingIndex' \in Indices \cup {0}
        /\ victim' \in Indices \cup {0}
        /\ resume' \in {"returned", "commitFailed", "revertRest", "exceptRootRest"}
    BY <1>35, <1>0 DEF CommitFinish, Step, Outcome, Steps, CommitSteps, DeleteSteps
  <2>2. flags' \subseteq StateFlags
    BY <1>35, <1>0 DEF CommitFinish, Step, Outcome, StateFlags
  <2>3. pendingFabric' \in Entries \cup {None}
    BY <1>35, <1>0 DEF CommitFinish, Step, Outcome, Entries
  <2> QED
    BY <1>35, <2>1, <2>2, <2>3 DEF CommitFinish, Step, Outcome
<1>36. CASE CommitFailed /\ UNCHANGED <<failSafe, queue, handler, crashes, overlapped>>
  <2>1. /\ pc' \in Steps
        /\ pendingIndex' \in Indices \cup {0}
    BY <1>36, <1>0 DEF CommitFailed, Step, Outcome, Reverted, Steps, CommitSteps, DeleteSteps
  <2>2. pendingFabric' \in Entries \cup {None}
    BY <1>36, <1>0 DEF CommitFailed, Step, Outcome, Reverted, Entries
  <2>3. opCerts' \in PendingCerts
    BY <1>36, <1>0, EmptyRecords DEF CommitFailed, Step, Outcome, Reverted
  <2>4. opKey' \in PendingKeys
    BY <1>36, <1>0, EmptyRecords DEF CommitFailed, Step, Outcome, Reverted
  <2>5. flags' \subseteq StateFlags
    BY <1>36, <1>0 DEF CommitFailed, Step, Outcome, Reverted, StateFlags
  <2> QED
    BY <1>36, <2>1, <2>2, <2>3, <2>4, <2>5 DEF CommitFailed, Step, Outcome, Reverted
<1>37. CASE ClearCommitMarker /\ UNCHANGED <<failSafe, queue, handler, crashes, overlapped>>
  <2>1. /\ pc' \in Steps
        /\ marker' \in Indices \cup {0}
        /\ committing' \in Indices \cup {0}
    BY <1>37, <1>0 DEF ClearCommitMarker, Step, Outcome, Steps, CommitSteps, DeleteSteps
  <2> QED
    BY <1>37, <2>1 DEF ClearCommitMarker, Step, Outcome
<1> QED
  BY <1>1, <1>2, <1>3, <1>4, <1>5, <1>6, <1>7, <1>8, <1>9, <1>10, <1>11, <1>12, <1>13, <1>14,
       <1>15, <1>16, <1>17, <1>18, <1>19, <1>20, <1>21, <1>22, <1>23, <1>24, <1>25, <1>26,
       <1>27, <1>28, <1>29, <1>30, <1>31, <1>32, <1>33, <1>34, <1>35, <1>36, <1>37 DEF Next,
       Command, PostedWork, HandlerReturns, TableRuns, TableStep

\* Every step leaves the handlers and their operations in step.
LEMMA ControlStep ==
    ASSUME TypeOK, ControlOK, MarkerOK, QueueOK, PendingOK, CommitOK, Next
    PROVE  ControlOK'
<1> USE FabricAssumption DEF memory, storage, control, tableVars
<1>1. ASSUME NEW a \in Accessing, ArmFailSafe(a) PROVE ControlOK'
  BY <1>1 DEF ArmFailSafe, Ready, TypeOK, ControlOK, Deleting, Writing, CommitSteps,
       DeleteSteps, Handlers
<1>2. ASSUME NEW a \in Accessing, NEW u \in BOOLEAN, CSRRequest(a, u) PROVE ControlOK'
  BY <1>2 DEF CSRRequest, Ready, IsFailSafeArmed, NocCommandHasBeenInvoked,
       AllocatePendingOperationalKey, CanSetPendingIndex, TypeOK, ControlOK, Deleting,
       Writing, CommitSteps, DeleteSteps, Handlers
<1>3. ASSUME NEW a \in Accessing, NEW r \in Roots, AddTrustedRootCertificate(a, r) PROVE ControlOK'
  BY <1>3 DEF AddTrustedRootCertificate, Ready, IsFailSafeArmed, NocCommandHasBeenInvoked,
       AddNewPendingTrustedRootCert, TrustedRootAccepted, CanSetPendingIndex, TypeOK,
       ControlOK, Deleting, Writing, CommitSteps, DeleteSteps, Handlers
<1>4. ASSUME NEW a \in Accessing, NEW noc \in Nocs, AddNOC(a, noc) PROVE ControlOK'
  BY <1>4 DEF AddNOC, Ready, IsFailSafeArmed, NocCommandHasBeenInvoked, CanAddNOC,
       AddNewPendingFabric, CanAddFabric, CanSetPendingIndex, Activated, TypeOK, ControlOK,
       Deleting, Writing, CommitSteps, DeleteSteps, Handlers
<1>5. ASSUME NEW a \in Accessing, NEW noc \in Nocs, AddNOCUndone(a, noc) PROVE ControlOK'
  <2>1. EnsuredNext(nextIndex, Live) \in Indices
    BY <1>5, EnsuredNextRange DEF AddNOCUndone, CanAddFabric, TypeOK
  <2> QED
    BY <1>5, <2>1 DEF AddNOCUndone, CanAddNOC, Ready, TypeOK, ControlOK, Deleting, Writing,
         CommitSteps, DeleteSteps, Handlers
<1>6. ASSUME NEW a \in Accessing, NEW noc \in Nocs, UpdateNOC(a, noc) PROVE ControlOK'
  BY <1>6 DEF UpdateNOC, Ready, IsFailSafeArmed, NocCommandHasBeenInvoked,
       UpdatePendingFabric, CanUpdateFabric, RefusePendingUpdate, AbandonPendingUpdate,
       CanSetPendingIndex, Activated, TypeOK, ControlOK, Deleting, Writing, CommitSteps,
       DeleteSteps, Handlers
<1>7. ASSUME NEW a \in Accessing, NEW l \in Labels, UpdateFabricLabel(a, l) PROVE ControlOK'
  BY <1>7 DEF UpdateFabricLabel, Ready, IsFailSafeArmed, NocCommandHasBeenInvoked,
       SetFabricLabel, FindFabricWithIndex, HasPendingFabricUpdate, TypeOK, ControlOK,
       Deleting, Writing, CommitSteps, DeleteSteps, Handlers
<1>8. ASSUME NEW a \in Accessing, CommissioningComplete(a) PROVE ControlOK'
  BY <1>8 DEF CommissioningComplete, Ready, IsFailSafeArmed, NocCommandHasBeenInvoked,
       CommitPendingFabricData, Reverted, OnlyNewRoot, InvalidState, Disarmed, TypeOK,
       ControlOK, Deleting, Writing, CommitSteps, DeleteSteps, Handlers
<1>9. ASSUME NEW f \in Indices, RemoveFabric(f) PROVE ControlOK'
  BY <1>9 DEF RemoveFabric, Ready, Delete, Reverted, TypeOK, ControlOK, Deleting, Writing,
       CommitSteps, DeleteSteps, Handlers
<1>10. CASE FailSafeTimerExpired
  BY <1>10 DEF FailSafeTimerExpired, Ready, ScheduleFailSafeCleanup, TypeOK, ControlOK,
       Deleting, Writing, CommitSteps, DeleteSteps, Handlers
<1>11. CASE FailSafeCleanup
  BY <1>11 DEF PendingOK, FailSafeCleanup, RevertPendingFabricData,
       RevertPendingOpCertsExceptRoot, TypeOK, ControlOK, Deleting, Writing, CommitSteps,
       DeleteSteps, Handlers
<1>12. CASE HandleDisarmFailSafe
  BY <1>12 DEF HandleDisarmFailSafe, Disarmed, TypeOK, ControlOK, Deleting, Writing,
       CommitSteps, DeleteSteps, Handlers
<1>13. CASE ClearMarkerAfterCleanup
  BY <1>13 DEF ClearMarkerAfterCleanup, TypeOK, ControlOK, Deleting, Writing, CommitSteps,
       DeleteSteps, Handlers
<1>14. CASE CommandReturns
  BY <1>14 DEF CommandReturns, Return, Finished, TypeOK, ControlOK, Deleting, Writing,
       CommitSteps, DeleteSteps, Handlers
<1>15. CASE CommissioningCompleteReturns
  BY <1>15 DEF CommissioningCompleteReturns, Return, Finished, Disarmed, TypeOK, ControlOK,
       Deleting, Writing, CommitSteps, DeleteSteps, Handlers
<1>16. CASE CleanupReverted
  <2>1. queue # <<>> /\ Head(queue).type = "cleanup"
    BY <1>16 DEF CleanupReverted, Return, QueueOK
  <2> QED
    BY <1>16, <2>1, CleanupIsHead DEF CleanupReverted, Return, Finished, Delete, Reverted,
         TypeOK, ControlOK, Deleting, Writing, CommitSteps, DeleteSteps, Handlers
<1>17. CASE CleanupReturns
  BY <1>17 DEF CleanupReturns, Return, Finished, TypeOK, ControlOK, Deleting, Writing,
       CommitSteps, DeleteSteps, Handlers
<1>18. CASE ServerInitReturns
  BY <1>18 DEF ServerInitReturns, Return, Finished, TypeOK, ControlOK, Deleting, Writing,
       CommitSteps, DeleteSteps, Handlers
<1>19. CASE Crash
  BY <1>19 DEF Crash, TableRestart, Reverted, Disarmed, TypeOK, ControlOK, Deleting, Writing,
       CommitSteps, DeleteSteps, Handlers
<1>20. CASE DeleteMetadataFromStorage /\ UNCHANGED <<failSafe, queue, handler, crashes, overlapped>>
  BY <1>20 DEF DeleteMetadataFromStorage, Step, TypeOK, ControlOK, Deleting, Writing,
       CommitSteps, DeleteSteps, Handlers
<1>21. CASE RemoveOpKeypairForFabric /\ UNCHANGED <<failSafe, queue, handler, crashes, overlapped>>
  BY <1>21 DEF RemoveOpKeypairForFabric, Step, TypeOK, ControlOK, Deleting, Writing,
       CommitSteps, DeleteSteps, Handlers
<1>22. CASE RemoveOpCertsForFabric /\ UNCHANGED <<failSafe, queue, handler, crashes, overlapped>>
  BY <1>22 DEF RemoveOpCertsForFabric, Step, TypeOK, ControlOK, Deleting, Writing,
       CommitSteps, DeleteSteps, Handlers
<1>23. CASE DeleteIcac /\ UNCHANGED <<failSafe, queue, handler, crashes, overlapped>>
  BY <1>23 DEF DeleteIcac, Step, TypeOK, ControlOK, Deleting, Writing, CommitSteps,
       DeleteSteps, Handlers
<1>24. CASE DeleteRcac /\ UNCHANGED <<failSafe, queue, handler, crashes, overlapped>>
  BY <1>24 DEF DeleteRcac, Step, TypeOK, ControlOK, Deleting, Writing, CommitSteps,
       DeleteSteps, Handlers
<1>25. CASE DeleteFromTable /\ UNCHANGED <<failSafe, queue, handler, crashes, overlapped>>
  BY <1>25 DEF DeleteFromTable, Step, TypeOK, ControlOK, Deleting, Writing, CommitSteps,
       DeleteSteps, Handlers
<1>26. CASE ExceptRootRest /\ UNCHANGED <<failSafe, queue, handler, crashes, overlapped>>
  BY <1>26 DEF ExceptRootRest, Step, TypeOK, ControlOK, Deleting, Writing, CommitSteps,
       DeleteSteps, Handlers
<1>27. CASE RevertRest /\ UNCHANGED <<failSafe, queue, handler, crashes, overlapped>>
  BY <1>27 DEF RevertRest, Step, Reverted, TypeOK, ControlOK, Deleting, Writing, CommitSteps,
       DeleteSteps, Handlers
<1>28. CASE StoreCommitMarker /\ UNCHANGED <<failSafe, queue, handler, crashes, overlapped>>
  <2>1. handler = "complete"
    BY <1>28 DEF StoreCommitMarker, Step, TypeOK, ControlOK, Deleting, Writing, CommitSteps,
         DeleteSteps, Handlers
  <2> QED
    BY <1>28, <2>1 DEF StoreCommitMarker, Step, CommitOK, CommitStarts, TypeOK, ControlOK,
         Deleting, Writing, CommitSteps, DeleteSteps, Handlers
<1>29. CASE StoreFabricMetadata /\ UNCHANGED <<failSafe, queue, handler, crashes, overlapped>>
  BY <1>29 DEF StoreFabricMetadata, Step, TypeOK, ControlOK, Deleting, Writing, CommitSteps,
       DeleteSteps, Handlers
<1>30. CASE CommitOpKeypairForFabric /\ UNCHANGED <<failSafe, queue, handler, crashes, overlapped>>
  BY <1>30 DEF CommitOpKeypairForFabric, Step, TypeOK, ControlOK, Deleting, Writing,
       CommitSteps, DeleteSteps, Handlers
<1>31. CASE CommitNoc /\ UNCHANGED <<failSafe, queue, handler, crashes, overlapped>>
  BY <1>31 DEF CommitNoc, Step, TypeOK, ControlOK, Deleting, Writing, CommitSteps,
       DeleteSteps, Handlers
<1>32. CASE CommitIcac /\ UNCHANGED <<failSafe, queue, handler, crashes, overlapped>>
  BY <1>32 DEF CommitIcac, Step, TypeOK, ControlOK, Deleting, Writing, CommitSteps,
       DeleteSteps, Handlers
<1>33. CASE CommitRcac /\ UNCHANGED <<failSafe, queue, handler, crashes, overlapped>>
  BY <1>33 DEF CommitRcac, Step, TypeOK, ControlOK, Deleting, Writing, CommitSteps,
       DeleteSteps, Handlers
<1>34. CASE CommitFabricIndexInfo /\ UNCHANGED <<failSafe, queue, handler, crashes, overlapped>>
  BY <1>34 DEF CommitFabricIndexInfo, Step, TypeOK, ControlOK, Deleting, Writing, CommitSteps,
       DeleteSteps, Handlers
<1>35. CASE CommitFinish /\ UNCHANGED <<failSafe, queue, handler, crashes, overlapped>>
  BY <1>35 DEF CommitFinish, Step, TypeOK, ControlOK, Deleting, Writing, CommitSteps,
       DeleteSteps, Handlers
<1>36. CASE CommitFailed /\ UNCHANGED <<failSafe, queue, handler, crashes, overlapped>>
  BY <1>36 DEF CommitFailed, Step, Reverted, TypeOK, ControlOK, Deleting, Writing,
       CommitSteps, DeleteSteps, Handlers
<1>37. CASE ClearCommitMarker /\ UNCHANGED <<failSafe, queue, handler, crashes, overlapped>>
  BY <1>37 DEF ClearCommitMarker, Step, TypeOK, ControlOK, Deleting, Writing, CommitSteps,
       DeleteSteps, Handlers
<1> QED
  BY <1>1, <1>2, <1>3, <1>4, <1>5, <1>6, <1>7, <1>8, <1>9, <1>10, <1>11, <1>12, <1>13, <1>14,
       <1>15, <1>16, <1>17, <1>18, <1>19, <1>20, <1>21, <1>22, <1>23, <1>24, <1>25, <1>26,
       <1>27, <1>28, <1>29, <1>30, <1>31, <1>32, <1>33, <1>34, <1>35, <1>36, <1>37 DEF Next,
       Command, PostedWork, HandlerReturns, TableRuns, TableStep

\* Every step keeps the commit marker with its commit.
LEMMA MarkerStep ==
    ASSUME TypeOK, ControlOK, MarkerOK, QueueOK, CommitOK, Next
    PROVE  MarkerOK'
<1> USE FabricAssumption DEF memory, storage, control, tableVars
<1>1. ASSUME NEW a \in Accessing, ArmFailSafe(a) PROVE MarkerOK'
  BY <1>1 DEF ArmFailSafe, Ready, TypeOK, MarkerOK, ControlOK, QueueOK, Deleting, Writing,
       CommitSteps, DeleteSteps, Handlers
<1>2. ASSUME NEW a \in Accessing, NEW u \in BOOLEAN, CSRRequest(a, u) PROVE MarkerOK'
  BY <1>2 DEF CSRRequest, Ready, IsFailSafeArmed, NocCommandHasBeenInvoked,
       AllocatePendingOperationalKey, CanSetPendingIndex, TypeOK, MarkerOK, ControlOK,
       QueueOK, Deleting, Writing, CommitSteps, DeleteSteps, Handlers
<1>3. ASSUME NEW a \in Accessing, NEW r \in Roots, AddTrustedRootCertificate(a, r) PROVE MarkerOK'
  BY <1>3 DEF AddTrustedRootCertificate, Ready, IsFailSafeArmed, NocCommandHasBeenInvoked,
       AddNewPendingTrustedRootCert, TrustedRootAccepted, CanSetPendingIndex, TypeOK,
       MarkerOK, ControlOK, QueueOK, Deleting, Writing, CommitSteps, DeleteSteps, Handlers
<1>4. ASSUME NEW a \in Accessing, NEW noc \in Nocs, AddNOC(a, noc) PROVE MarkerOK'
  BY <1>4 DEF AddNOC, Ready, IsFailSafeArmed, NocCommandHasBeenInvoked, CanAddNOC,
       AddNewPendingFabric, CanAddFabric, CanSetPendingIndex, Activated, TypeOK, MarkerOK,
       ControlOK, QueueOK, Deleting, Writing, CommitSteps, DeleteSteps, Handlers
<1>5. ASSUME NEW a \in Accessing, NEW noc \in Nocs, AddNOCUndone(a, noc) PROVE MarkerOK'
  BY <1>5 DEF AddNOCUndone, Ready, IsFailSafeArmed, NocCommandHasBeenInvoked, CanAddNOC,
       CanAddFabric, CanSetPendingIndex, Activated, TypeOK, MarkerOK, ControlOK, QueueOK,
       Deleting, Writing, CommitSteps, DeleteSteps, Handlers
<1>6. ASSUME NEW a \in Accessing, NEW noc \in Nocs, UpdateNOC(a, noc) PROVE MarkerOK'
  BY <1>6 DEF UpdateNOC, Ready, IsFailSafeArmed, NocCommandHasBeenInvoked,
       UpdatePendingFabric, CanUpdateFabric, RefusePendingUpdate, AbandonPendingUpdate,
       CanSetPendingIndex, Activated, TypeOK, MarkerOK, ControlOK, QueueOK, Deleting, Writing,
       CommitSteps, DeleteSteps, Handlers
<1>7. ASSUME NEW a \in Accessing, NEW l \in Labels, UpdateFabricLabel(a, l) PROVE MarkerOK'
  BY <1>7 DEF UpdateFabricLabel, Ready, IsFailSafeArmed, NocCommandHasBeenInvoked,
       SetFabricLabel, FindFabricWithIndex, HasPendingFabricUpdate, TypeOK, MarkerOK,
       ControlOK, QueueOK, Deleting, Writing, CommitSteps, DeleteSteps, Handlers
<1>8. ASSUME NEW a \in Accessing, CommissioningComplete(a) PROVE MarkerOK'
  <2>1. marker = 0 /\ committing = 0 /\ handler = "idle"
    BY <1>8, NothingPosted DEF CommissioningComplete, Ready, IsFailSafeArmed, TypeOK,
         MarkerOK, ControlOK, QueueOK, Deleting, Writing, CommitSteps, DeleteSteps, Handlers
  <2> QED
    BY <1>8, <2>1 DEF CommissioningComplete, CommitPendingFabricData, MarkerOK
<1>9. ASSUME NEW f \in Indices, RemoveFabric(f) PROVE MarkerOK'
  BY <1>9 DEF RemoveFabric, Ready, Delete, Reverted, TypeOK, MarkerOK, ControlOK, QueueOK,
       Deleting, Writing, CommitSteps, DeleteSteps, Handlers
<1>10. CASE FailSafeTimerExpired
  BY <1>10 DEF FailSafeTimerExpired, Ready, ScheduleFailSafeCleanup, TypeOK, MarkerOK,
       ControlOK, QueueOK, Deleting, Writing, CommitSteps, DeleteSteps, Handlers
<1>11. CASE FailSafeCleanup
  BY <1>11 DEF FailSafeCleanup, RevertPendingFabricData, RevertPendingOpCertsExceptRoot,
       TypeOK, MarkerOK, ControlOK, QueueOK, Deleting, Writing, CommitSteps, DeleteSteps,
       Handlers
<1>12. CASE HandleDisarmFailSafe
  BY <1>12 DEF HandleDisarmFailSafe, Disarmed, TypeOK, MarkerOK, ControlOK, QueueOK, Deleting,
       Writing, CommitSteps, DeleteSteps, Handlers
<1>13. CASE ClearMarkerAfterCleanup
  BY <1>13 DEF ClearMarkerAfterCleanup, TypeOK, MarkerOK, ControlOK, QueueOK, Deleting,
       Writing, CommitSteps, DeleteSteps, Handlers
<1>14. CASE CommandReturns
  BY <1>14 DEF CommandReturns, Return, Finished, TypeOK, MarkerOK, ControlOK, QueueOK,
       Deleting, Writing, CommitSteps, DeleteSteps, Handlers
<1>15. CASE CommissioningCompleteReturns
  BY <1>15 DEF CommissioningCompleteReturns, Return, Finished, Disarmed, TypeOK, MarkerOK,
       ControlOK, QueueOK, Deleting, Writing, CommitSteps, DeleteSteps, Handlers
<1>16. CASE CleanupReverted
  BY <1>16 DEF CleanupReverted, Return, Finished, Delete, Reverted, TypeOK, MarkerOK,
       ControlOK, QueueOK, Deleting, Writing, CommitSteps, DeleteSteps, Handlers
<1>17. CASE CleanupReturns
  BY <1>17 DEF CleanupReturns, Return, Finished, TypeOK, MarkerOK, ControlOK, QueueOK,
       Deleting, Writing, CommitSteps, DeleteSteps, Handlers
<1>18. CASE ServerInitReturns
  BY <1>18 DEF ServerInitReturns, Return, Finished, TypeOK, MarkerOK, ControlOK, QueueOK,
       Deleting, Writing, CommitSteps, DeleteSteps, Handlers
<1>19. CASE Crash
  BY <1>19 DEF Crash, TableRestart, Reverted, Disarmed, TypeOK, MarkerOK, ControlOK, QueueOK,
       Deleting, Writing, CommitSteps, DeleteSteps, Handlers
<1>20. CASE DeleteMetadataFromStorage /\ UNCHANGED <<failSafe, queue, handler, crashes, overlapped>>
  BY <1>20 DEF DeleteMetadataFromStorage, Step, TypeOK, MarkerOK, ControlOK, QueueOK,
       Deleting, Writing, CommitSteps, DeleteSteps, Handlers
<1>21. CASE RemoveOpKeypairForFabric /\ UNCHANGED <<failSafe, queue, handler, crashes, overlapped>>
  BY <1>21 DEF RemoveOpKeypairForFabric, Step, TypeOK, MarkerOK, ControlOK, QueueOK, Deleting,
       Writing, CommitSteps, DeleteSteps, Handlers
<1>22. CASE RemoveOpCertsForFabric /\ UNCHANGED <<failSafe, queue, handler, crashes, overlapped>>
  BY <1>22 DEF RemoveOpCertsForFabric, Step, TypeOK, MarkerOK, ControlOK, QueueOK, Deleting,
       Writing, CommitSteps, DeleteSteps, Handlers
<1>23. CASE DeleteIcac /\ UNCHANGED <<failSafe, queue, handler, crashes, overlapped>>
  BY <1>23 DEF DeleteIcac, Step, TypeOK, MarkerOK, ControlOK, QueueOK, Deleting, Writing,
       CommitSteps, DeleteSteps, Handlers
<1>24. CASE DeleteRcac /\ UNCHANGED <<failSafe, queue, handler, crashes, overlapped>>
  BY <1>24 DEF DeleteRcac, Step, TypeOK, MarkerOK, ControlOK, QueueOK, Deleting, Writing,
       CommitSteps, DeleteSteps, Handlers
<1>25. CASE DeleteFromTable /\ UNCHANGED <<failSafe, queue, handler, crashes, overlapped>>
  BY <1>25 DEF DeleteFromTable, Step, TypeOK, MarkerOK, ControlOK, QueueOK, Deleting, Writing,
       CommitSteps, DeleteSteps, Handlers
<1>26. CASE ExceptRootRest /\ UNCHANGED <<failSafe, queue, handler, crashes, overlapped>>
  BY <1>26 DEF ExceptRootRest, Step, TypeOK, MarkerOK, ControlOK, QueueOK, Deleting, Writing,
       CommitSteps, DeleteSteps, Handlers
<1>27. CASE RevertRest /\ UNCHANGED <<failSafe, queue, handler, crashes, overlapped>>
  BY <1>27 DEF RevertRest, Step, Reverted, TypeOK, MarkerOK, ControlOK, QueueOK, Deleting,
       Writing, CommitSteps, DeleteSteps, Handlers
<1>28. CASE StoreCommitMarker /\ UNCHANGED <<failSafe, queue, handler, crashes, overlapped>>
  BY <1>28 DEF StoreCommitMarker, Step, TypeOK, MarkerOK, ControlOK, QueueOK, Deleting,
       Writing, CommitSteps, DeleteSteps, Handlers
<1>29. CASE StoreFabricMetadata /\ UNCHANGED <<failSafe, queue, handler, crashes, overlapped>>
  BY <1>29 DEF StoreFabricMetadata, Step, TypeOK, MarkerOK, ControlOK, QueueOK, Deleting,
       Writing, CommitSteps, DeleteSteps, Handlers
<1>30. CASE CommitOpKeypairForFabric /\ UNCHANGED <<failSafe, queue, handler, crashes, overlapped>>
  BY <1>30 DEF CommitOpKeypairForFabric, Step, TypeOK, MarkerOK, ControlOK, QueueOK, Deleting,
       Writing, CommitSteps, DeleteSteps, Handlers
<1>31. CASE CommitNoc /\ UNCHANGED <<failSafe, queue, handler, crashes, overlapped>>
  BY <1>31 DEF CommitNoc, Step, TypeOK, MarkerOK, ControlOK, QueueOK, Deleting, Writing,
       CommitSteps, DeleteSteps, Handlers
<1>32. CASE CommitIcac /\ UNCHANGED <<failSafe, queue, handler, crashes, overlapped>>
  BY <1>32 DEF CommitIcac, Step, TypeOK, MarkerOK, ControlOK, QueueOK, Deleting, Writing,
       CommitSteps, DeleteSteps, Handlers
<1>33. CASE CommitRcac /\ UNCHANGED <<failSafe, queue, handler, crashes, overlapped>>
  BY <1>33 DEF CommitRcac, Step, TypeOK, MarkerOK, ControlOK, QueueOK, Deleting, Writing,
       CommitSteps, DeleteSteps, Handlers
<1>34. CASE CommitFabricIndexInfo /\ UNCHANGED <<failSafe, queue, handler, crashes, overlapped>>
  BY <1>34 DEF CommitFabricIndexInfo, Step, TypeOK, MarkerOK, ControlOK, QueueOK, Deleting,
       Writing, CommitSteps, DeleteSteps, Handlers
<1>35. CASE CommitFinish /\ UNCHANGED <<failSafe, queue, handler, crashes, overlapped>>
  BY <1>35 DEF CommitFinish, Step, TypeOK, MarkerOK, ControlOK, QueueOK, Deleting, Writing,
       CommitSteps, DeleteSteps, Handlers
<1>36. CASE CommitFailed /\ UNCHANGED <<failSafe, queue, handler, crashes, overlapped>>
  BY <1>36 DEF CommitFailed, Step, Reverted, TypeOK, MarkerOK, ControlOK, QueueOK, Deleting,
       Writing, CommitSteps, DeleteSteps, Handlers
<1>37. CASE ClearCommitMarker /\ UNCHANGED <<failSafe, queue, handler, crashes, overlapped>>
  BY <1>37 DEF ClearCommitMarker, Step, TypeOK, MarkerOK, ControlOK, QueueOK, Deleting,
       Writing, CommitSteps, DeleteSteps, Handlers
<1> QED
  BY <1>1, <1>2, <1>3, <1>4, <1>5, <1>6, <1>7, <1>8, <1>9, <1>10, <1>11, <1>12, <1>13, <1>14,
       <1>15, <1>16, <1>17, <1>18, <1>19, <1>20, <1>21, <1>22, <1>23, <1>24, <1>25, <1>26,
       <1>27, <1>28, <1>29, <1>30, <1>31, <1>32, <1>33, <1>34, <1>35, <1>36, <1>37 DEF Next,
       Command, PostedWork, HandlerReturns, TableRuns, TableStep

\* Every step keeps the posted work in order.
LEMMA QueueStep ==
    ASSUME TypeOK, ControlOK, MarkerOK, QueueOK, SparesOK, PendingOK, Next
    PROVE  QueueOK'
<1> USE FabricAssumption DEF memory, storage, control, tableVars
<1>1. ASSUME NEW a \in Accessing, ArmFailSafe(a) PROVE QueueOK'
  <2>1. queue = <<>> /\ queue' = <<>>
    BY <1>1 DEF ArmFailSafe, Ready, QueueOK
  <2>2. failSafe'.busy = failSafe.busy
    BY <1>1 DEF ArmFailSafe, TypeOK, FailSafes
  <2> QED
    BY <1>1, <2>1, <2>2, NothingPosted DEF ArmFailSafe, Ready, QueueOK
<1>2. ASSUME NEW a \in Accessing, NEW u \in BOOLEAN, CSRRequest(a, u) PROVE QueueOK'
  BY <1>2 DEF CSRRequest, Ready, IsFailSafeArmed, NocCommandHasBeenInvoked,
       AllocatePendingOperationalKey, CanSetPendingIndex, TypeOK, MarkerOK, ControlOK,
       QueueOK, ExpiryWork, RecoveryWork, RecoveryItem, Deleting, Writing, CommitSteps,
       DeleteSteps, Handlers
<1>3. ASSUME NEW a \in Accessing, NEW r \in Roots, AddTrustedRootCertificate(a, r) PROVE QueueOK'
  BY <1>3 DEF AddTrustedRootCertificate, Ready, IsFailSafeArmed, NocCommandHasBeenInvoked,
       AddNewPendingTrustedRootCert, TrustedRootAccepted, CanSetPendingIndex, TypeOK,
       MarkerOK, ControlOK, QueueOK, ExpiryWork, RecoveryWork, RecoveryItem, Deleting,
       Writing, CommitSteps, DeleteSteps, Handlers
<1>4. ASSUME NEW a \in Accessing, NEW noc \in Nocs, AddNOC(a, noc) PROVE QueueOK'
  BY <1>4 DEF AddNOC, Ready, IsFailSafeArmed, NocCommandHasBeenInvoked, CanAddNOC,
       AddNewPendingFabric, CanAddFabric, CanSetPendingIndex, Activated, TypeOK, MarkerOK,
       ControlOK, QueueOK, ExpiryWork, RecoveryWork, RecoveryItem, Deleting, Writing,
       CommitSteps, DeleteSteps, Handlers
<1>5. ASSUME NEW a \in Accessing, NEW noc \in Nocs, AddNOCUndone(a, noc) PROVE QueueOK'
  BY <1>5 DEF AddNOCUndone, Ready, IsFailSafeArmed, NocCommandHasBeenInvoked, CanAddNOC,
       CanAddFabric, CanSetPendingIndex, Activated, TypeOK, MarkerOK, ControlOK, QueueOK,
       ExpiryWork, RecoveryWork, RecoveryItem, Deleting, Writing, CommitSteps, DeleteSteps,
       Handlers
<1>6. ASSUME NEW a \in Accessing, NEW noc \in Nocs, UpdateNOC(a, noc) PROVE QueueOK'
  <2>1. queue = <<>> /\ queue' = <<>>
    BY <1>6 DEF UpdateNOC, IsFailSafeArmed, QueueOK
  <2>2. failSafe'.busy = failSafe.busy /\ failSafe.armed /\ failSafe'.armed
    BY <1>6 DEF UpdateNOC, IsFailSafeArmed, TypeOK, FailSafes
  <2>3. UNCHANGED <<marker, committing, handler>>
    BY <1>6 DEF UpdateNOC, UpdatePendingFabric, RefusePendingUpdate, AbandonPendingUpdate
  <2> QED
    BY <1>6, <2>1, <2>2, <2>3, NothingPosted DEF UpdateNOC, Ready, QueueOK
<1>7. ASSUME NEW a \in Accessing, NEW l \in Labels, UpdateFabricLabel(a, l) PROVE QueueOK'
  BY <1>7 DEF UpdateFabricLabel, Ready, IsFailSafeArmed, NocCommandHasBeenInvoked,
       SetFabricLabel, FindFabricWithIndex, HasPendingFabricUpdate, TypeOK, MarkerOK,
       ControlOK, QueueOK, ExpiryWork, RecoveryWork, RecoveryItem, Deleting, Writing,
       CommitSteps, DeleteSteps, Handlers
<1>8. ASSUME NEW a \in Accessing, CommissioningComplete(a) PROVE QueueOK'
  BY <1>8 DEF CommissioningComplete, Ready, IsFailSafeArmed, NocCommandHasBeenInvoked,
       CommitPendingFabricData, Reverted, OnlyNewRoot, InvalidState, Disarmed, TypeOK,
       MarkerOK, ControlOK, QueueOK, ExpiryWork, RecoveryWork, RecoveryItem, Deleting,
       Writing, CommitSteps, DeleteSteps, Handlers
<1>9. ASSUME NEW f \in Indices, RemoveFabric(f) PROVE QueueOK'
  BY <1>9 DEF RemoveFabric, Ready, Delete, Reverted, TypeOK, MarkerOK, ControlOK, QueueOK,
       ExpiryWork, RecoveryWork, RecoveryItem, Deleting, Writing, CommitSteps, DeleteSteps,
       Handlers
<1>10. CASE FailSafeTimerExpired
  <2>1. queue = <<>> /\ handler = "idle" /\ committing = 0
    BY <1>10 DEF FailSafeTimerExpired, Ready, TypeOK, MarkerOK, ControlOK, QueueOK,
         Deleting, Writing, CommitSteps, DeleteSteps, Handlers
  <2>2. marker = 0
    BY <2>1, NothingPosted
  <2>3. queue' = <<CleanupItem(failSafe.fabric, failSafe.addNoc), DisarmItem>>
    BY <1>10, <2>1 DEF FailSafeTimerExpired, ScheduleFailSafeCleanup, CleanupItem, DisarmItem
  <2>4. Head(queue') = CleanupItem(failSafe.fabric, failSafe.addNoc) /\ queue' # <<>>
    BY <2>3
  <2>5. ExpiryWork'
    <3>1. /\ failSafe.fabric \in Indices \cup {0} /\ failSafe.addNoc \in BOOLEAN
          /\ failSafe.addNoc => failSafe.fabric # 0
      BY FailSafeFields DEF SparesOK, TypeOK, Indices
    <3> QED
      BY <2>3, <3>1 DEF ExpiryWork
  <2>6. failSafe'.busy /\ ~failSafe'.armed
    BY <1>10 DEF FailSafeTimerExpired, ScheduleFailSafeCleanup, TypeOK, FailSafes
  <2> QED
    BY <1>10, <2>1, <2>2, <2>4, <2>5, <2>6, CleanupKind DEF FailSafeTimerExpired, QueueOK
<1>11. CASE FailSafeCleanup
  BY <1>11 DEF FailSafeCleanup, RevertPendingFabricData, RevertPendingOpCertsExceptRoot,
       TypeOK, MarkerOK, ControlOK, QueueOK, ExpiryWork, RecoveryWork, RecoveryItem, Deleting,
       Writing, CommitSteps, DeleteSteps, Handlers
<1>12. CASE HandleDisarmFailSafe
  <2>1. handler = "idle" /\ handler' = "idle"
    BY <1>12 DEF HandleDisarmFailSafe
  <2>2. ~failSafe'.armed /\ ~failSafe'.busy /\ ~failSafe'.addNoc /\ ~failSafe'.updateNoc
    BY <1>12 DEF HandleDisarmFailSafe, Disarmed
  <2>3. CASE marker = 0 /\ queue' = <<>>
    BY <1>12, <2>1, <2>2, <2>3 DEF HandleDisarmFailSafe, QueueOK
  <2>4. CASE marker # 0 /\ committing = 0 /\ queue' = <<ClearItem>>
    <3>1. Head(queue') = ClearItem /\ queue' # <<>>
      BY <2>4
    <3> QED
      BY <1>12, <2>1, <2>2, <2>4, <3>1, ItemKinds DEF HandleDisarmFailSafe, QueueOK, RecoveryWork
  <2> QED
    BY <1>12, <2>3, <2>4, DisarmIsHead DEF HandleDisarmFailSafe
<1>13. CASE ClearMarkerAfterCleanup
  BY <1>13, ClearIsHead DEF ClearMarkerAfterCleanup, QueueOK
<1>14. CASE CommandReturns
  BY <1>14 DEF CommandReturns, Return, Finished, TypeOK, MarkerOK, ControlOK, QueueOK,
       ExpiryWork, RecoveryWork, RecoveryItem, Deleting, Writing, CommitSteps, DeleteSteps,
       Handlers
<1>15. CASE CommissioningCompleteReturns
  BY <1>15 DEF CommissioningCompleteReturns, Return, Finished, Disarmed, TypeOK, MarkerOK,
       ControlOK, QueueOK, ExpiryWork, RecoveryWork, RecoveryItem, Deleting, Writing,
       CommitSteps, DeleteSteps, Handlers
<1>16. CASE CleanupReverted
  <2>1. queue # <<>> /\ Head(queue).type = "cleanup" /\ committing = 0
    BY <1>16 DEF CleanupReverted, Return, TypeOK, MarkerOK, ControlOK, QueueOK, Deleting,
         Writing, CommitSteps, DeleteSteps, Handlers
  <2>2. CASE Head(queue).addNoc
    BY <1>16, <2>1, <2>2 DEF CleanupReverted, Delete, TypeOK, MarkerOK, ControlOK, QueueOK,
         ExpiryWork, RecoveryWork, RecoveryItem, Deleting, Writing, CommitSteps,
         DeleteSteps, Handlers
  <2>3. CASE ~Head(queue).addNoc
    <3>1. marker = 0 /\ queue' = <<DisarmItem>>
      BY <1>16, <2>1, <2>3, CleanupIsHead, ItemKinds DEF CleanupReverted, Finished
    <3>2. Head(queue') = DisarmItem /\ queue' # <<>>
      BY <3>1
    <3> QED
      BY <1>16, <2>1, <2>3, <3>1, <3>2, ItemKinds DEF CleanupReverted, Finished, storage,
           QueueOK, ExpiryWork
  <2> QED
    BY <2>2, <2>3
<1>17. CASE CleanupReturns
  <2>1. queue # <<>> /\ Head(queue).type = "cleanup" /\ committing = 0
    BY <1>17 DEF CleanupReturns, Return, TypeOK, MarkerOK, ControlOK, QueueOK, Deleting,
         Writing, CommitSteps, DeleteSteps, Handlers
  <2>2. queue' = <<DisarmItem>> \/ queue' = <<DisarmItem, ClearItem>>
    BY <1>17, <2>1, CleanupIsHead DEF CleanupReturns, Finished
  <2>3. Head(queue') = DisarmItem /\ queue' # <<>>
    BY <2>2
  <2>4. (marker = 0 /\ queue' = <<DisarmItem>>) \/ (marker # 0 /\ queue' = <<DisarmItem, ClearItem>>)
    BY <1>17, <2>1, CleanupIsHead DEF CleanupReturns, Finished
  <2> QED
    BY <1>17, <2>1, <2>3, <2>4, ItemKinds DEF CleanupReturns, Finished, QueueOK, ExpiryWork,
         RecoveryWork
<1>18. CASE ServerInitReturns
  <2>1. handler = "boot" /\ pc = "returned" /\ victim = marker /\ committing = 0
    BY <1>18 DEF ServerInitReturns, Return, TypeOK, MarkerOK, ControlOK, QueueOK, Deleting,
         Writing, CommitSteps, DeleteSteps, Handlers
  <2>2. queue = <<>> /\ ~failSafe.armed
    BY <2>1 DEF QueueOK
  <2>3. CASE victim = 0
    BY <1>18, <2>1, <2>2, <2>3 DEF ServerInitReturns, Finished, QueueOK
  <2>4. CASE victim # 0
    <3>1. queue' = <<RecoveryItem', DisarmItem, ClearItem>>
      BY <1>18, <2>1, <2>4 DEF ServerInitReturns, Finished, RecoveryItem, DisarmItem, ClearItem
    <3>2. Head(queue') = RecoveryItem' /\ queue' # <<>>
      BY <3>1
    <3>3. RecoveryItem'.type = "cleanup"
      BY DEF RecoveryItem
    <3>4. failSafe'.busy /\ ~failSafe'.armed
      BY <1>18, <2>2, <2>4 DEF ServerInitReturns, TypeOK, FailSafes
    <3> QED
      BY <1>18, <2>1, <2>4, <3>1, <3>2, <3>3, <3>4 DEF ServerInitReturns, Finished,
           QueueOK, RecoveryWork
  <2> QED
    BY <2>3, <2>4
<1>19. CASE Crash
  BY <1>19 DEF Crash, TableRestart, Reverted, Disarmed, TypeOK, MarkerOK, ControlOK, QueueOK,
       ExpiryWork, RecoveryWork, RecoveryItem, Deleting, Writing, CommitSteps, DeleteSteps,
       Handlers
<1>20. CASE DeleteMetadataFromStorage /\ UNCHANGED <<failSafe, queue, handler, crashes, overlapped>>
  BY <1>20 DEF DeleteMetadataFromStorage, Step, TypeOK, MarkerOK, ControlOK, QueueOK,
       ExpiryWork, RecoveryWork, RecoveryItem, Deleting, Writing, CommitSteps, DeleteSteps,
       Handlers
<1>21. CASE RemoveOpKeypairForFabric /\ UNCHANGED <<failSafe, queue, handler, crashes, overlapped>>
  BY <1>21 DEF RemoveOpKeypairForFabric, Step, TypeOK, MarkerOK, ControlOK, QueueOK,
       ExpiryWork, RecoveryWork, RecoveryItem, Deleting, Writing, CommitSteps, DeleteSteps,
       Handlers
<1>22. CASE RemoveOpCertsForFabric /\ UNCHANGED <<failSafe, queue, handler, crashes, overlapped>>
  BY <1>22 DEF RemoveOpCertsForFabric, Step, TypeOK, MarkerOK, ControlOK, QueueOK, ExpiryWork,
       RecoveryWork, RecoveryItem, Deleting, Writing, CommitSteps, DeleteSteps, Handlers
<1>23. CASE DeleteIcac /\ UNCHANGED <<failSafe, queue, handler, crashes, overlapped>>
  BY <1>23 DEF DeleteIcac, Step, TypeOK, MarkerOK, ControlOK, QueueOK, ExpiryWork,
       RecoveryWork, RecoveryItem, Deleting, Writing, CommitSteps, DeleteSteps, Handlers
<1>24. CASE DeleteRcac /\ UNCHANGED <<failSafe, queue, handler, crashes, overlapped>>
  BY <1>24 DEF DeleteRcac, Step, TypeOK, MarkerOK, ControlOK, QueueOK, ExpiryWork,
       RecoveryWork, RecoveryItem, Deleting, Writing, CommitSteps, DeleteSteps, Handlers
<1>25. CASE DeleteFromTable /\ UNCHANGED <<failSafe, queue, handler, crashes, overlapped>>
  BY <1>25 DEF DeleteFromTable, Step, TypeOK, MarkerOK, ControlOK, QueueOK, ExpiryWork,
       RecoveryWork, RecoveryItem, Deleting, Writing, CommitSteps, DeleteSteps, Handlers
<1>26. CASE ExceptRootRest /\ UNCHANGED <<failSafe, queue, handler, crashes, overlapped>>
  BY <1>26 DEF ExceptRootRest, Step, TypeOK, MarkerOK, ControlOK, QueueOK, ExpiryWork,
       RecoveryWork, RecoveryItem, Deleting, Writing, CommitSteps, DeleteSteps, Handlers
<1>27. CASE RevertRest /\ UNCHANGED <<failSafe, queue, handler, crashes, overlapped>>
  BY <1>27 DEF RevertRest, Step, Reverted, TypeOK, MarkerOK, ControlOK, QueueOK, ExpiryWork,
       RecoveryWork, RecoveryItem, Deleting, Writing, CommitSteps, DeleteSteps, Handlers
<1>28. CASE StoreCommitMarker /\ UNCHANGED <<failSafe, queue, handler, crashes, overlapped>>
  BY <1>28 DEF StoreCommitMarker, Step, TypeOK, MarkerOK, ControlOK, QueueOK, ExpiryWork,
       RecoveryWork, RecoveryItem, Deleting, Writing, CommitSteps, DeleteSteps, Handlers
<1>29. CASE StoreFabricMetadata /\ UNCHANGED <<failSafe, queue, handler, crashes, overlapped>>
  BY <1>29 DEF StoreFabricMetadata, Step, TypeOK, MarkerOK, ControlOK, QueueOK, ExpiryWork,
       RecoveryWork, RecoveryItem, Deleting, Writing, CommitSteps, DeleteSteps, Handlers
<1>30. CASE CommitOpKeypairForFabric /\ UNCHANGED <<failSafe, queue, handler, crashes, overlapped>>
  BY <1>30 DEF CommitOpKeypairForFabric, Step, TypeOK, MarkerOK, ControlOK, QueueOK,
       ExpiryWork, RecoveryWork, RecoveryItem, Deleting, Writing, CommitSteps, DeleteSteps,
       Handlers
<1>31. CASE CommitNoc /\ UNCHANGED <<failSafe, queue, handler, crashes, overlapped>>
  BY <1>31 DEF CommitNoc, Step, TypeOK, MarkerOK, ControlOK, QueueOK, ExpiryWork,
       RecoveryWork, RecoveryItem, Deleting, Writing, CommitSteps, DeleteSteps, Handlers
<1>32. CASE CommitIcac /\ UNCHANGED <<failSafe, queue, handler, crashes, overlapped>>
  BY <1>32 DEF CommitIcac, Step, TypeOK, MarkerOK, ControlOK, QueueOK, ExpiryWork,
       RecoveryWork, RecoveryItem, Deleting, Writing, CommitSteps, DeleteSteps, Handlers
<1>33. CASE CommitRcac /\ UNCHANGED <<failSafe, queue, handler, crashes, overlapped>>
  BY <1>33 DEF CommitRcac, Step, TypeOK, MarkerOK, ControlOK, QueueOK, ExpiryWork,
       RecoveryWork, RecoveryItem, Deleting, Writing, CommitSteps, DeleteSteps, Handlers
<1>34. CASE CommitFabricIndexInfo /\ UNCHANGED <<failSafe, queue, handler, crashes, overlapped>>
  BY <1>34 DEF CommitFabricIndexInfo, Step, TypeOK, MarkerOK, ControlOK, QueueOK, ExpiryWork,
       RecoveryWork, RecoveryItem, Deleting, Writing, CommitSteps, DeleteSteps, Handlers
<1>35. CASE CommitFinish /\ UNCHANGED <<failSafe, queue, handler, crashes, overlapped>>
  BY <1>35 DEF CommitFinish, Step, TypeOK, MarkerOK, ControlOK, QueueOK, ExpiryWork,
       RecoveryWork, RecoveryItem, Deleting, Writing, CommitSteps, DeleteSteps, Handlers
<1>36. CASE CommitFailed /\ UNCHANGED <<failSafe, queue, handler, crashes, overlapped>>
  BY <1>36 DEF CommitFailed, Step, Reverted, TypeOK, MarkerOK, ControlOK, QueueOK, ExpiryWork,
       RecoveryWork, RecoveryItem, Deleting, Writing, CommitSteps, DeleteSteps, Handlers
<1>37. CASE ClearCommitMarker /\ UNCHANGED <<failSafe, queue, handler, crashes, overlapped>>
  BY <1>37 DEF ClearCommitMarker, Step, TypeOK, MarkerOK, ControlOK, QueueOK, ExpiryWork,
       RecoveryWork, RecoveryItem, Deleting, Writing, CommitSteps, DeleteSteps, Handlers
<1> QED
  BY <1>1, <1>2, <1>3, <1>4, <1>5, <1>6, <1>7, <1>8, <1>9, <1>10, <1>11, <1>12, <1>13, <1>14,
       <1>15, <1>16, <1>17, <1>18, <1>19, <1>20, <1>21, <1>22, <1>23, <1>24, <1>25, <1>26,
       <1>27, <1>28, <1>29, <1>30, <1>31, <1>32, <1>33, <1>34, <1>35, <1>36, <1>37 DEF Next,
       Command, PostedWork, HandlerReturns, TableRuns, TableStep

\* Every step keeps the pending NOC under a fail-safe that knows of it.
LEMMA PendingStep ==
    ASSUME TypeOK, ControlOK, QueueOK, PendingOK, CertsOK, CommitOK, Next
    PROVE  PendingOK'
<1> USE FabricAssumption DEF memory, storage, control, tableVars
<1>1. ASSUME NEW a \in Accessing, ArmFailSafe(a) PROVE PendingOK'
  BY <1>1 DEF ArmFailSafe, Ready, TypeOK, ControlOK, PendingOK, NocClear, StrayNoc, Deleting,
       Writing, CommitSteps, DeleteSteps, Handlers, NoKey, NoCerts
<1>2. ASSUME NEW a \in Accessing, NEW u \in BOOLEAN, CSRRequest(a, u) PROVE PendingOK'
  BY <1>2 DEF CSRRequest, Ready, IsFailSafeArmed, NocCommandHasBeenInvoked,
       AllocatePendingOperationalKey, CanSetPendingIndex, TypeOK, ControlOK, PendingOK,
       NocClear, StrayNoc, Deleting, Writing, CommitSteps, DeleteSteps, Handlers, NoKey,
       NoCerts
<1>3. ASSUME NEW a \in Accessing, NEW r \in Roots, AddTrustedRootCertificate(a, r) PROVE PendingOK'
  BY <1>3 DEF AddTrustedRootCertificate, Ready, IsFailSafeArmed, NocCommandHasBeenInvoked,
       AddNewPendingTrustedRootCert, TrustedRootAccepted, CanSetPendingIndex, TypeOK,
       ControlOK, PendingOK, NocClear, StrayNoc, Deleting, Writing, CommitSteps, DeleteSteps,
       Handlers, NoKey, NoCerts
<1>4. ASSUME NEW a \in Accessing, NEW noc \in Nocs, AddNOC(a, noc) PROVE PendingOK'
  <2>1. pendingIndex' \in Indices
    BY <1>4, EnsuredNextRange DEF AddNOC, AddNewPendingFabric, CanAddFabric, TypeOK
  <2>2. opKey' = Activated
    BY <1>4 DEF AddNOC, AddNewPendingFabric
  <2>3. failSafe'.addNoc
    BY <1>4 DEF AddNOC, TypeOK, FailSafes
  <2>4. queue = <<>> /\ queue' = <<>> /\ handler = "idle" /\ handler' = "idle"
    BY <1>4 DEF AddNOC, CanAddNOC, Ready, IsFailSafeArmed, QueueOK
  <2> QED
    BY <2>1, <2>2, <2>3, <2>4, ActivatedKey DEF PendingOK
<1>5. ASSUME NEW a \in Accessing, NEW noc \in Nocs, AddNOCUndone(a, noc) PROVE PendingOK'
  <2>1. pendingIndex' \in Indices
    BY <1>5, EnsuredNextRange DEF AddNOCUndone, CanAddFabric, TypeOK
  <2>2. opKey' = Activated
    BY <1>5 DEF AddNOCUndone
  <2>3. opKey.key # None => opKey.index = victim'
    BY <1>5 DEF AddNOCUndone, CanAddFabric, KeyAccepted
  <2>4. opCerts'.noc = None /\ handler' = "addNoc" /\ pc' = "delMetadata"
    BY <1>5 DEF AddNOCUndone, CanAddFabric
  <2>5. queue = <<>> /\ queue' = <<>>
    BY <1>5 DEF AddNOCUndone, CanAddNOC, Ready, IsFailSafeArmed, QueueOK
  <2> QED
    BY <2>1, <2>2, <2>3, <2>4, <2>5, ActivatedKey DEF PendingOK
<1>6. ASSUME NEW a \in Accessing, NEW noc \in Nocs, UpdateNOC(a, noc) PROVE PendingOK'
  <2>1. queue = <<>> /\ queue' = <<>> /\ handler = "idle" /\ handler' = "idle"
    BY <1>6 DEF UpdateNOC, Ready, IsFailSafeArmed, QueueOK
  <2>2. CASE UpdatePendingFabric(a, noc) /\ failSafe' = [failSafe EXCEPT !.updateNoc = TRUE]
    <3>1. opKey' = Activated /\ "kIsAddPending" \notin flags'
      BY <2>2 DEF UpdatePendingFabric, CanUpdateFabric
    <3>2. failSafe'.updateNoc
      BY <2>2 DEF TypeOK, FailSafes
    <3> QED
      BY <2>1, <3>1, <3>2, ActivatedKey DEF PendingOK
  <2>3. CASE RefusePendingUpdate(a, noc) /\ UNCHANGED failSafe
    BY <2>1, <2>3 DEF RefusePendingUpdate, CanUpdateFabric, PendingOK, NocClear, StrayNoc, NoCerts
  <2>4. CASE AbandonPendingUpdate(a, noc) /\ UNCHANGED failSafe
    <3>1. /\ opCerts'.index = a /\ opCerts'.rcac = None
          /\ UNCHANGED <<flags, opKey, pendingIndex, failSafe, victim, pc, failed>>
          /\ opCerts.noc = None
      BY <2>4 DEF AbandonPendingUpdate, CanUpdateFabric, NoCerts
    <3>2. pendingIndex \notin {0, a}
      BY <2>4 DEF AbandonPendingUpdate, CanSetPendingIndex
    <3> QED
      BY <2>1, <3>1, <3>2 DEF PendingOK, NocClear, StrayNoc
  <2> QED
    BY <1>6, <2>2, <2>3, <2>4 DEF UpdateNOC
<1>7. ASSUME NEW a \in Accessing, NEW l \in Labels, UpdateFabricLabel(a, l) PROVE PendingOK'
  BY <1>7 DEF UpdateFabricLabel, Ready, IsFailSafeArmed, NocCommandHasBeenInvoked,
       SetFabricLabel, FindFabricWithIndex, HasPendingFabricUpdate, TypeOK, ControlOK,
       PendingOK, NocClear, StrayNoc, Deleting, Writing, CommitSteps, DeleteSteps, Handlers,
       NoKey, NoCerts
<1>8. ASSUME NEW a \in Accessing, CommissioningComplete(a) PROVE PendingOK'
  BY <1>8 DEF CommissioningComplete, Ready, IsFailSafeArmed, NocCommandHasBeenInvoked,
       CommitPendingFabricData, Reverted, OnlyNewRoot, InvalidState, Disarmed, TypeOK,
       ControlOK, PendingOK, NocClear, StrayNoc, Deleting, Writing, CommitSteps, DeleteSteps,
       Handlers, NoKey, NoCerts
<1>9. ASSUME NEW f \in Indices, RemoveFabric(f) PROVE PendingOK'
  BY <1>9 DEF RemoveFabric, Ready, Delete, Reverted, TypeOK, ControlOK, PendingOK, NocClear,
       StrayNoc, Deleting, Writing, CommitSteps, DeleteSteps, Handlers, NoKey, NoCerts
<1>10. CASE FailSafeTimerExpired
  BY <1>10 DEF FailSafeTimerExpired, Ready, ScheduleFailSafeCleanup, TypeOK, ControlOK,
       PendingOK, NocClear, StrayNoc, Deleting, Writing, CommitSteps, DeleteSteps, Handlers,
       NoKey, NoCerts
<1>11. CASE FailSafeCleanup
  BY <1>11 DEF FailSafeCleanup, RevertPendingFabricData, RevertPendingOpCertsExceptRoot,
       TypeOK, ControlOK, PendingOK, NocClear, StrayNoc, Deleting, Writing, CommitSteps,
       DeleteSteps, Handlers, NoKey, NoCerts
<1>12. CASE HandleDisarmFailSafe
  BY <1>12 DEF HandleDisarmFailSafe, Disarmed, TypeOK, ControlOK, PendingOK, NocClear,
       StrayNoc, Deleting, Writing, CommitSteps, DeleteSteps, Handlers, NoKey, NoCerts
<1>13. CASE ClearMarkerAfterCleanup
  BY <1>13 DEF ClearMarkerAfterCleanup, TypeOK, ControlOK, PendingOK, NocClear, StrayNoc,
       Deleting, Writing, CommitSteps, DeleteSteps, Handlers, NoKey, NoCerts
<1>14. CASE CommandReturns
  BY <1>14 DEF CommandReturns, Return, Finished, TypeOK, ControlOK, PendingOK, NocClear,
       StrayNoc, Deleting, Writing, CommitSteps, DeleteSteps, Handlers, NoKey, NoCerts
<1>15. CASE CommissioningCompleteReturns
  BY <1>15 DEF CommissioningCompleteReturns, Return, Finished, Disarmed, TypeOK, ControlOK,
       PendingOK, NocClear, StrayNoc, Deleting, Writing, CommitSteps, DeleteSteps, Handlers,
       NoKey, NoCerts
<1>16. CASE CleanupReverted
  BY <1>16 DEF CleanupReverted, Return, Finished, Delete, Reverted, TypeOK, ControlOK,
       PendingOK, NocClear, StrayNoc, Deleting, Writing, CommitSteps, DeleteSteps, Handlers,
       NoKey, NoCerts
<1>17. CASE CleanupReturns
  BY <1>17 DEF CleanupReturns, Return, Finished, TypeOK, ControlOK, PendingOK, NocClear,
       StrayNoc, Deleting, Writing, CommitSteps, DeleteSteps, Handlers, NoKey, NoCerts
<1>18. CASE ServerInitReturns
  BY <1>18 DEF ServerInitReturns, Return, Finished, TypeOK, ControlOK, PendingOK, NocClear,
       StrayNoc, Deleting, Writing, CommitSteps, DeleteSteps, Handlers, NoKey, NoCerts
<1>19. CASE Crash
  BY <1>19 DEF Crash, TableRestart, Reverted, Disarmed, TypeOK, ControlOK, PendingOK,
       NocClear, StrayNoc, Deleting, Writing, CommitSteps, DeleteSteps, Handlers, NoKey,
       NoCerts
<1>20. CASE DeleteMetadataFromStorage /\ UNCHANGED <<failSafe, queue, handler, crashes, overlapped>>
  BY <1>20 DEF DeleteMetadataFromStorage, Step, TypeOK, ControlOK, PendingOK, NocClear,
       StrayNoc, Deleting, Writing, CommitSteps, DeleteSteps, Handlers, NoKey, NoCerts
<1>21. CASE RemoveOpKeypairForFabric /\ UNCHANGED <<failSafe, queue, handler, crashes, overlapped>>
  BY <1>21 DEF RemoveOpKeypairForFabric, Step, TypeOK, ControlOK, PendingOK, NocClear,
       StrayNoc, Deleting, Writing, CommitSteps, DeleteSteps, Handlers, NoKey, NoCerts
<1>22. CASE RemoveOpCertsForFabric /\ UNCHANGED <<failSafe, queue, handler, crashes, overlapped>>
  BY <1>22 DEF RemoveOpCertsForFabric, Step, TypeOK, ControlOK, PendingOK, NocClear, StrayNoc,
       Deleting, Writing, CommitSteps, DeleteSteps, Handlers, NoKey, NoCerts
<1>23. CASE DeleteIcac /\ UNCHANGED <<failSafe, queue, handler, crashes, overlapped>>
  BY <1>23 DEF DeleteIcac, Step, TypeOK, ControlOK, PendingOK, NocClear, StrayNoc, Deleting,
       Writing, CommitSteps, DeleteSteps, Handlers, NoKey, NoCerts
<1>24. CASE DeleteRcac /\ UNCHANGED <<failSafe, queue, handler, crashes, overlapped>>
  BY <1>24 DEF DeleteRcac, Step, TypeOK, ControlOK, PendingOK, NocClear, StrayNoc, Deleting,
       Writing, CommitSteps, DeleteSteps, Handlers, NoKey, NoCerts
<1>25. CASE DeleteFromTable /\ UNCHANGED <<failSafe, queue, handler, crashes, overlapped>>
  BY <1>25 DEF DeleteFromTable, Step, TypeOK, ControlOK, PendingOK, NocClear, StrayNoc,
       Deleting, Writing, CommitSteps, DeleteSteps, Handlers, NoKey, NoCerts
<1>26. CASE ExceptRootRest /\ UNCHANGED <<failSafe, queue, handler, crashes, overlapped>>
  BY <1>26 DEF ExceptRootRest, Step, TypeOK, ControlOK, PendingOK, NocClear, StrayNoc,
       Deleting, Writing, CommitSteps, DeleteSteps, Handlers, NoKey, NoCerts
<1>27. CASE RevertRest /\ UNCHANGED <<failSafe, queue, handler, crashes, overlapped>>
  BY <1>27 DEF RevertRest, Step, Reverted, TypeOK, ControlOK, PendingOK, NocClear, StrayNoc,
       Deleting, Writing, CommitSteps, DeleteSteps, Handlers, NoKey, NoCerts
<1>28. CASE StoreCommitMarker /\ UNCHANGED <<failSafe, queue, handler, crashes, overlapped>>
  BY <1>28 DEF StoreCommitMarker, Step, TypeOK, ControlOK, PendingOK, NocClear, StrayNoc,
       Deleting, Writing, CommitSteps, DeleteSteps, Handlers, NoKey, NoCerts
<1>29. CASE StoreFabricMetadata /\ UNCHANGED <<failSafe, queue, handler, crashes, overlapped>>
  BY <1>29 DEF StoreFabricMetadata, Step, TypeOK, ControlOK, PendingOK, NocClear, StrayNoc,
       Deleting, Writing, CommitSteps, DeleteSteps, Handlers, NoKey, NoCerts
<1>30. CASE CommitOpKeypairForFabric /\ UNCHANGED <<failSafe, queue, handler, crashes, overlapped>>
  <2>1. committing \in Indices /\ handler = "complete"
    BY <1>30, CommitIndex DEF CommitOpKeypairForFabric, Step, Writing, CommitSteps
  <2>2. HasOpKeypairForFabric(committing)
    BY <1>30 DEF CommitOpKeypairForFabric, Step, CommitOK, CommitSources
  <2>3. ~opKey'.active
    BY <1>30, <2>2 DEF CommitOpKeypairForFabric, NoKey, PendingOK
  <2> QED
    BY <1>30, <2>1, <2>2, <2>3 DEF CommitOpKeypairForFabric, Step, TypeOK, ControlOK,
         PendingOK, NocClear, StrayNoc, Deleting, Writing, CommitSteps, DeleteSteps, Handlers,
         NoKey, NoCerts
<1>31. CASE CommitNoc /\ UNCHANGED <<failSafe, queue, handler, crashes, overlapped>>
  BY <1>31 DEF CommitNoc, Step, TypeOK, ControlOK, PendingOK, NocClear, StrayNoc, Deleting,
       Writing, CommitSteps, DeleteSteps, Handlers, NoKey, NoCerts
<1>32. CASE CommitIcac /\ UNCHANGED <<failSafe, queue, handler, crashes, overlapped>>
  BY <1>32 DEF CommitIcac, Step, TypeOK, ControlOK, PendingOK, NocClear, StrayNoc, Deleting,
       Writing, CommitSteps, DeleteSteps, Handlers, NoKey, NoCerts
<1>33. CASE CommitRcac /\ UNCHANGED <<failSafe, queue, handler, crashes, overlapped>>
  BY <1>33 DEF CommitRcac, Step, TypeOK, ControlOK, PendingOK, NocClear, StrayNoc, Deleting,
       Writing, CommitSteps, DeleteSteps, Handlers, NoKey, NoCerts
<1>34. CASE CommitFabricIndexInfo /\ UNCHANGED <<failSafe, queue, handler, crashes, overlapped>>
  BY <1>34 DEF CommitFabricIndexInfo, Step, TypeOK, ControlOK, PendingOK, NocClear, StrayNoc,
       Deleting, Writing, CommitSteps, DeleteSteps, Handlers, NoKey, NoCerts
<1>35. CASE CommitFinish /\ UNCHANGED <<failSafe, queue, handler, crashes, overlapped>>
  BY <1>35 DEF CommitFinish, Step, TypeOK, ControlOK, PendingOK, NocClear, StrayNoc, CertsOK,
       Deleting, Writing, CommitSteps, DeleteSteps, Handlers, NoKey, NoCerts
<1>36. CASE CommitFailed /\ UNCHANGED <<failSafe, queue, handler, crashes, overlapped>>
  BY <1>36 DEF CommitFailed, Step, Reverted, TypeOK, ControlOK, PendingOK, NocClear, StrayNoc,
       Deleting, Writing, CommitSteps, DeleteSteps, Handlers, NoKey, NoCerts
<1>37. CASE ClearCommitMarker /\ UNCHANGED <<failSafe, queue, handler, crashes, overlapped>>
  BY <1>37 DEF ClearCommitMarker, Step, TypeOK, ControlOK, PendingOK, NocClear, StrayNoc,
       Deleting, Writing, CommitSteps, DeleteSteps, Handlers, NoKey, NoCerts
<1> QED
  BY <1>1, <1>2, <1>3, <1>4, <1>5, <1>6, <1>7, <1>8, <1>9, <1>10, <1>11, <1>12, <1>13, <1>14,
       <1>15, <1>16, <1>17, <1>18, <1>19, <1>20, <1>21, <1>22, <1>23, <1>24, <1>25, <1>26,
       <1>27, <1>28, <1>29, <1>30, <1>31, <1>32, <1>33, <1>34, <1>35, <1>36, <1>37 DEF Next,
       Command, PostedWork, HandlerReturns, TableRuns, TableStep

\* Every step keeps the pending certificates with the fabric that is pending.
LEMMA CertsStep ==
    ASSUME TypeOK, ControlOK, QueueOK, PendingOK, CertsOK, CommitOK, Next
    PROVE  CertsOK'
<1> USE FabricAssumption DEF memory, storage, control, tableVars
<1>1. ASSUME NEW a \in Accessing, ArmFailSafe(a) PROVE CertsOK'
  BY <1>1 DEF ArmFailSafe, Ready, TypeOK, ControlOK, CertsOK, StrayNoc, Deleting, Writing,
       CommitSteps, DeleteSteps, Handlers, NoKey, NoCerts
<1>2. ASSUME NEW a \in Accessing, NEW u \in BOOLEAN, CSRRequest(a, u) PROVE CertsOK'
  <2>1. (opCerts.noc = None \/ StrayNoc) /\ handler = "idle"
    BY <1>2 DEF CSRRequest, Ready, NocCommandHasBeenInvoked, PendingOK, NocClear
  <2>2. UNCHANGED <<states, pendingFabric, stored, committing, opCerts, pc>>
    BY <1>2 DEF CSRRequest, AllocatePendingOperationalKey
  <2>3. /\ "kIsTrustedRootPending" \in flags' <=> "kIsTrustedRootPending" \in flags
        /\ "kIsUpdatePending" \in flags' <=> "kIsUpdatePending" \in flags
        /\ "kIsAddPending" \in flags' <=> "kIsAddPending" \in flags
        /\ failSafe' = failSafe
    BY <1>2 DEF CSRRequest, AllocatePendingOperationalKey
  <2>4. pendingIndex # 0 => pendingIndex' = pendingIndex
    BY <1>2 DEF CSRRequest, AllocatePendingOperationalKey, CanSetPendingIndex
  <2> QED
    BY <2>1, <2>2, <2>3, <2>4 DEF CertsOK, StrayNoc
<1>3. ASSUME NEW a \in Accessing, NEW r \in Roots, AddTrustedRootCertificate(a, r) PROVE CertsOK'
  BY <1>3 DEF AddTrustedRootCertificate, Ready, IsFailSafeArmed, NocCommandHasBeenInvoked,
       AddNewPendingTrustedRootCert, TrustedRootAccepted, CanSetPendingIndex, TypeOK,
       ControlOK, CertsOK, StrayNoc, Deleting, Writing, CommitSteps, DeleteSteps, Handlers,
       NoKey, NoCerts
<1>4. ASSUME NEW a \in Accessing, NEW noc \in Nocs, AddNOC(a, noc) PROVE CertsOK'
  <2> DEFINE f == EnsuredNext(nextIndex, Live)
  <2>1. f \in Indices /\ opCerts.index = f /\ opCerts.rcac # None /\ noc.root = opCerts.rcac
    BY <1>4, EnsuredNextRange DEF AddNOC, AddNewPendingFabric, CanAddFabric, TypeOK
  <2>2. opCerts' = [opCerts EXCEPT !.noc = noc] /\ pendingIndex' = f /\ pc' = pc /\ pc = "idle"
    BY <1>4 DEF AddNOC, CanAddNOC, Ready, AddNewPendingFabric, ControlOK
  <2>3. opCerts'.noc = noc /\ opCerts'.index = f /\ opCerts'.rcac = opCerts.rcac
    BY <2>1, <2>2 DEF TypeOK, PendingCerts
  <2>4. states'[f] = [noc |-> noc, label |-> EmptyLabel] /\ states'[f] # None
    BY <1>4, <2>1, EntryFields DEF AddNOC, AddNewPendingFabric, TypeOK, Entries
  <2>5. flags' = flags \cup {"kIsAddPending", "kIsPendingFabricDataPresent"}
    BY <1>4 DEF AddNOC, AddNewPendingFabric
  <2> HIDE DEF f
  <2> QED
    BY <2>1, <2>2, <2>3, <2>4, <2>5 DEF CertsOK, StrayNoc
<1>5. ASSUME NEW a \in Accessing, NEW noc \in Nocs, AddNOCUndone(a, noc) PROVE CertsOK'
  BY <1>5 DEF AddNOCUndone, Ready, IsFailSafeArmed, NocCommandHasBeenInvoked, CanAddNOC,
       CanAddFabric, CanSetPendingIndex, Activated, TypeOK, ControlOK, CertsOK, StrayNoc,
       Deleting, Writing, CommitSteps, DeleteSteps, Handlers, NoKey, NoCerts
<1>6. ASSUME NEW a \in Accessing, NEW noc \in Nocs, UpdateNOC(a, noc) PROVE CertsOK'
  <2>1. CASE UpdatePendingFabric(a, noc)
    <3>1. a \in Live /\ a \in ExistingFabrics(a, noc) /\ opCerts = NoCerts /\ stored[a].noc # None
      BY <2>1 DEF UpdatePendingFabric, CanUpdateFabric
    <3>2. stored[a].rcac = noc.root /\ states[a] # None /\ a \in Indices
      BY <3>1 DEF ExistingFabrics, RootOf, NoCerts, Live
    <3>3. committing = 0 /\ pc = "idle"
      BY <1>6 DEF UpdateNOC, Ready, ControlOK
    <3>4. /\ opCerts' = [index |-> a, rcac |-> None, noc |-> noc]
          /\ pendingIndex' = a
          /\ pendingFabric' # None /\ pendingFabric'.noc = noc
          /\ flags' = flags \cup {"kIsUpdatePending", "kIsPendingFabricDataPresent"}
          /\ "kIsTrustedRootPending" \notin flags
          /\ UNCHANGED <<states, stored, committing, pc>>
      <4>1. pendingFabric' = [noc |-> noc, label |-> FindFabricWithIndex(a).label]
        BY <2>1 DEF UpdatePendingFabric
      <4>2. pendingFabric' \in Entries
        <5>1. FindFabricWithIndex(a) \in Entries
          BY <3>2 DEF FindFabricWithIndex, HasPendingFabricUpdate, TypeOK
        <5> QED
          BY <4>1, <5>1, EntryFields DEF Entries
      <4> QED
        BY <2>1, <4>1, <4>2, EntryFields DEF UpdatePendingFabric, CanUpdateFabric
    <3> QED
      BY <3>1, <3>2, <3>3, <3>4 DEF CertsOK, StrayNoc, NoCerts
  <2>2. CASE RefusePendingUpdate(a, noc)
    <3>1. opCerts' = NoCerts /\ flags' = flags
      BY <2>2 DEF RefusePendingUpdate, CanUpdateFabric
    <3> QED
      BY <3>1 DEF CertsOK, StrayNoc, NoCerts
  <2>3. CASE AbandonPendingUpdate(a, noc) /\ UNCHANGED failSafe
    <3>1. /\ opCerts'.index = a /\ opCerts'.rcac = None
          /\ flags' = flags /\ pendingIndex' = pendingIndex
          /\ flags \cap {"kIsTrustedRootPending", "kIsAddPending"} = {}
      BY <2>3 DEF AbandonPendingUpdate, CanUpdateFabric
    <3>2. pendingIndex \notin {0, a}
      BY <2>3 DEF AbandonPendingUpdate, CanSetPendingIndex
    <3>3. ~failSafe.addNoc /\ ~failSafe.updateNoc /\ handler = "idle"
      BY <1>6 DEF UpdateNOC, Ready, NocCommandHasBeenInvoked
    <3>4. "kIsUpdatePending" \notin flags
      BY <3>3 DEF PendingOK, NocClear
    <3>5. pc' = "idle"
      BY <1>6, <2>3 DEF UpdateNOC, Ready, AbandonPendingUpdate, ControlOK
    <3> QED
      BY <2>3, <3>1, <3>2, <3>3, <3>4, <3>5 DEF CertsOK, StrayNoc
  <2> QED
    BY <1>6, <2>1, <2>2, <2>3 DEF UpdateNOC
<1>7. ASSUME NEW a \in Accessing, NEW l \in Labels, UpdateFabricLabel(a, l) PROVE CertsOK'
  <2>1. pc = "idle" /\ committing = 0
    BY <1>7, LabelKeepsNocs DEF ControlOK
  <2> QED
    BY <1>7, <2>1, LabelKeepsNocs DEF CertsOK, StrayNoc
<1>8. ASSUME NEW a \in Accessing, CommissioningComplete(a) PROVE CertsOK'
  BY <1>8 DEF CommissioningComplete, Ready, IsFailSafeArmed, NocCommandHasBeenInvoked,
       CommitPendingFabricData, Reverted, OnlyNewRoot, InvalidState, Disarmed, TypeOK,
       ControlOK, CertsOK, StrayNoc, Deleting, Writing, CommitSteps, DeleteSteps, Handlers,
       NoKey, NoCerts
<1>9. ASSUME NEW f \in Indices, RemoveFabric(f) PROVE CertsOK'
  BY <1>9 DEF RemoveFabric, Ready, Delete, Reverted, TypeOK, ControlOK, CertsOK, StrayNoc,
       Deleting, Writing, CommitSteps, DeleteSteps, Handlers, NoKey, NoCerts
<1>10. CASE FailSafeTimerExpired
  BY <1>10 DEF FailSafeTimerExpired, Ready, ScheduleFailSafeCleanup, TypeOK, ControlOK,
       CertsOK, StrayNoc, Deleting, Writing, CommitSteps, DeleteSteps, Handlers, NoKey,
       NoCerts
<1>11. CASE FailSafeCleanup
  BY <1>11 DEF FailSafeCleanup, RevertPendingFabricData, RevertPendingOpCertsExceptRoot,
       TypeOK, ControlOK, CertsOK, StrayNoc, Deleting, Writing, CommitSteps, DeleteSteps,
       Handlers, NoKey, NoCerts
<1>12. CASE HandleDisarmFailSafe
  BY <1>12 DEF HandleDisarmFailSafe, Disarmed, TypeOK, ControlOK, CertsOK, StrayNoc, Deleting,
       Writing, CommitSteps, DeleteSteps, Handlers, NoKey, NoCerts
<1>13. CASE ClearMarkerAfterCleanup
  BY <1>13 DEF ClearMarkerAfterCleanup, TypeOK, ControlOK, CertsOK, StrayNoc, Deleting,
       Writing, CommitSteps, DeleteSteps, Handlers, NoKey, NoCerts
<1>14. CASE CommandReturns
  BY <1>14 DEF CommandReturns, Return, Finished, TypeOK, ControlOK, CertsOK, StrayNoc,
       Deleting, Writing, CommitSteps, DeleteSteps, Handlers, NoKey, NoCerts
<1>15. CASE CommissioningCompleteReturns
  BY <1>15 DEF CommissioningCompleteReturns, Return, Finished, Disarmed, TypeOK, ControlOK,
       CertsOK, StrayNoc, Deleting, Writing, CommitSteps, DeleteSteps, Handlers, NoKey,
       NoCerts
<1>16. CASE CleanupReverted
  BY <1>16 DEF CleanupReverted, Return, Finished, Delete, Reverted, TypeOK, ControlOK,
       CertsOK, StrayNoc, Deleting, Writing, CommitSteps, DeleteSteps, Handlers, NoKey,
       NoCerts
<1>17. CASE CleanupReturns
  BY <1>17 DEF CleanupReturns, Return, Finished, TypeOK, ControlOK, CertsOK, StrayNoc,
       Deleting, Writing, CommitSteps, DeleteSteps, Handlers, NoKey, NoCerts
<1>18. CASE ServerInitReturns
  BY <1>18 DEF ServerInitReturns, Return, Finished, TypeOK, FailSafes, ControlOK, CertsOK,
       StrayNoc, Deleting, Writing, CommitSteps, DeleteSteps, Handlers, NoKey, NoCerts
<1>19. CASE Crash
  BY <1>19 DEF Crash, TableRestart, Reverted, Disarmed, TypeOK, ControlOK, CertsOK, StrayNoc,
       Deleting, Writing, CommitSteps, DeleteSteps, Handlers, NoKey, NoCerts
<1>20. CASE DeleteMetadataFromStorage /\ UNCHANGED <<failSafe, queue, handler, crashes, overlapped>>
  BY <1>20 DEF DeleteMetadataFromStorage, Step, TypeOK, ControlOK, CertsOK, StrayNoc,
       Deleting, Writing, CommitSteps, DeleteSteps, Handlers, NoKey, NoCerts
<1>21. CASE RemoveOpKeypairForFabric /\ UNCHANGED <<failSafe, queue, handler, crashes, overlapped>>
  BY <1>21 DEF RemoveOpKeypairForFabric, Step, TypeOK, ControlOK, CertsOK, StrayNoc, Deleting,
       Writing, CommitSteps, DeleteSteps, Handlers, NoKey, NoCerts
<1>22. CASE RemoveOpCertsForFabric /\ UNCHANGED <<failSafe, queue, handler, crashes, overlapped>>
  BY <1>22 DEF RemoveOpCertsForFabric, Step, TypeOK, ControlOK, CertsOK, StrayNoc, Deleting,
       Writing, CommitSteps, DeleteSteps, Handlers, NoKey, NoCerts
<1>23. CASE DeleteIcac /\ UNCHANGED <<failSafe, queue, handler, crashes, overlapped>>
  BY <1>23 DEF DeleteIcac, Step, TypeOK, ControlOK, CertsOK, StrayNoc, Deleting, Writing,
       CommitSteps, DeleteSteps, Handlers, NoKey, NoCerts
<1>24. CASE DeleteRcac /\ UNCHANGED <<failSafe, queue, handler, crashes, overlapped>>
  BY <1>24 DEF DeleteRcac, Step, TypeOK, ControlOK, CertsOK, StrayNoc, Deleting, Writing,
       CommitSteps, DeleteSteps, Handlers, NoKey, NoCerts
<1>25. CASE DeleteFromTable /\ UNCHANGED <<failSafe, queue, handler, crashes, overlapped>>
  BY <1>25 DEF DeleteFromTable, Step, TypeOK, ControlOK, CertsOK, StrayNoc, Deleting, Writing,
       CommitSteps, DeleteSteps, Handlers, NoKey, NoCerts
<1>26. CASE ExceptRootRest /\ UNCHANGED <<failSafe, queue, handler, crashes, overlapped>>
  BY <1>26 DEF PendingOK, ExceptRootRest, Step, TypeOK, ControlOK, CertsOK, StrayNoc,
       Deleting, Writing, CommitSteps, DeleteSteps, Handlers, NoKey, NoCerts
<1>27. CASE RevertRest /\ UNCHANGED <<failSafe, queue, handler, crashes, overlapped>>
  BY <1>27 DEF RevertRest, Step, Reverted, TypeOK, ControlOK, CertsOK, StrayNoc, Deleting,
       Writing, CommitSteps, DeleteSteps, Handlers, NoKey, NoCerts
<1>28. CASE StoreCommitMarker /\ UNCHANGED <<failSafe, queue, handler, crashes, overlapped>>
  BY <1>28 DEF StoreCommitMarker, Step, TypeOK, ControlOK, CertsOK, StrayNoc, Deleting,
       Writing, CommitSteps, DeleteSteps, Handlers, NoKey, NoCerts
<1>29. CASE StoreFabricMetadata /\ UNCHANGED <<failSafe, queue, handler, crashes, overlapped>>
  BY <1>29 DEF StoreFabricMetadata, Step, TypeOK, ControlOK, CertsOK, StrayNoc, Deleting,
       Writing, CommitSteps, DeleteSteps, Handlers, NoKey, NoCerts
<1>30. CASE CommitOpKeypairForFabric /\ UNCHANGED <<failSafe, queue, handler, crashes, overlapped>>
  BY <1>30 DEF CommitOpKeypairForFabric, Step, TypeOK, ControlOK, CertsOK, StrayNoc, Deleting,
       Writing, CommitSteps, DeleteSteps, Handlers, NoKey, NoCerts
<1>31. CASE CommitNoc /\ UNCHANGED <<failSafe, queue, handler, crashes, overlapped>>
  BY <1>31 DEF CommitNoc, Step, TypeOK, ControlOK, CertsOK, StrayNoc, Deleting, Writing,
       CommitSteps, DeleteSteps, Handlers, NoKey, NoCerts
<1>32. CASE CommitIcac /\ UNCHANGED <<failSafe, queue, handler, crashes, overlapped>>
  BY <1>32 DEF CommitIcac, Step, TypeOK, ControlOK, CertsOK, StrayNoc, Deleting, Writing,
       CommitSteps, DeleteSteps, Handlers, NoKey, NoCerts
<1>33. CASE CommitRcac /\ UNCHANGED <<failSafe, queue, handler, crashes, overlapped>>
  BY <1>33 DEF CommitRcac, Step, TypeOK, ControlOK, CertsOK, StrayNoc, Deleting, Writing,
       CommitSteps, DeleteSteps, Handlers, NoKey, NoCerts
<1>34. CASE CommitFabricIndexInfo /\ UNCHANGED <<failSafe, queue, handler, crashes, overlapped>>
  BY <1>34 DEF CommitFabricIndexInfo, Step, TypeOK, ControlOK, CertsOK, StrayNoc, Deleting,
       Writing, CommitSteps, DeleteSteps, Handlers, NoKey, NoCerts
<1>35. CASE CommitFinish /\ UNCHANGED <<failSafe, queue, handler, crashes, overlapped>>
  BY <1>35 DEF CommitFinish, Step, TypeOK, ControlOK, CertsOK, StrayNoc, Deleting, Writing,
       CommitSteps, DeleteSteps, Handlers, NoKey, NoCerts
<1>36. CASE CommitFailed /\ UNCHANGED <<failSafe, queue, handler, crashes, overlapped>>
  BY <1>36 DEF CommitFailed, Step, Reverted, TypeOK, ControlOK, CertsOK, StrayNoc, Deleting,
       Writing, CommitSteps, DeleteSteps, Handlers, NoKey, NoCerts
<1>37. CASE ClearCommitMarker /\ UNCHANGED <<failSafe, queue, handler, crashes, overlapped>>
  BY <1>37 DEF ClearCommitMarker, Step, TypeOK, ControlOK, CertsOK, StrayNoc, Deleting,
       Writing, CommitSteps, DeleteSteps, Handlers, NoKey, NoCerts
<1> QED
  BY <1>1, <1>2, <1>3, <1>4, <1>5, <1>6, <1>7, <1>8, <1>9, <1>10, <1>11, <1>12, <1>13, <1>14,
       <1>15, <1>16, <1>17, <1>18, <1>19, <1>20, <1>21, <1>22, <1>23, <1>24, <1>25, <1>26,
       <1>27, <1>28, <1>29, <1>30, <1>31, <1>32, <1>33, <1>34, <1>35, <1>36, <1>37 DEF Next,
       Command, PostedWork, HandlerReturns, TableRuns, TableStep

\* Every step of a commit leaves behind what the steps after it rely on.
LEMMA CommitStep ==
    ASSUME TypeOK, ControlOK, MarkerOK, QueueOK, PendingOK, CertsOK, StorageOK, CommitOK, Next
    PROVE  CommitOK'
<1> USE FabricAssumption DEF memory, storage, control, tableVars
<1>1. ASSUME NEW a \in Accessing, ArmFailSafe(a) PROVE CommitOK'
  BY <1>1 DEF ArmFailSafe, Ready, TypeOK, ControlOK, CommitOK, CommitStarts, CommitSources,
       CommitWritten, CommitUndone, Unlisted, Deleting, Handlers, NoKey, NoCerts, Writing,
       CommitSteps, DeleteSteps, Complete, InUse, Gone
<1>2. ASSUME NEW a \in Accessing, NEW u \in BOOLEAN, CSRRequest(a, u) PROVE CommitOK'
  BY <1>2 DEF CSRRequest, Ready, IsFailSafeArmed, NocCommandHasBeenInvoked,
       AllocatePendingOperationalKey, CanSetPendingIndex, TypeOK, ControlOK, CommitOK,
       CommitStarts, CommitSources, CommitWritten, CommitUndone, Unlisted, Deleting, Handlers,
       NoKey, NoCerts, Writing, CommitSteps, DeleteSteps, Complete, InUse, Gone
<1>3. ASSUME NEW a \in Accessing, NEW r \in Roots, AddTrustedRootCertificate(a, r) PROVE CommitOK'
  BY <1>3 DEF AddTrustedRootCertificate, Ready, IsFailSafeArmed, NocCommandHasBeenInvoked,
       AddNewPendingTrustedRootCert, TrustedRootAccepted, CanSetPendingIndex, TypeOK,
       ControlOK, CommitOK, CommitStarts, CommitSources, CommitWritten, CommitUndone,
       Unlisted, Deleting, Handlers, NoKey, NoCerts, Writing, CommitSteps, DeleteSteps,
       Complete, InUse, Gone
<1>4. ASSUME NEW a \in Accessing, NEW noc \in Nocs, AddNOC(a, noc) PROVE CommitOK'
  BY <1>4 DEF AddNOC, Ready, IsFailSafeArmed, NocCommandHasBeenInvoked, CanAddNOC,
       AddNewPendingFabric, CanAddFabric, CanSetPendingIndex, Activated, TypeOK, ControlOK,
       CommitOK, CommitStarts, CommitSources, CommitWritten, CommitUndone, Unlisted, Deleting,
       Handlers, NoKey, NoCerts, Writing, CommitSteps, DeleteSteps, Complete, InUse, Gone
<1>5. ASSUME NEW a \in Accessing, NEW noc \in Nocs, AddNOCUndone(a, noc) PROVE CommitOK'
  BY <1>5 DEF AddNOCUndone, Ready, IsFailSafeArmed, NocCommandHasBeenInvoked, CanAddNOC,
       CanAddFabric, CanSetPendingIndex, Activated, TypeOK, ControlOK, CommitOK, CommitStarts,
       CommitSources, CommitWritten, CommitUndone, Unlisted, Deleting, Handlers, NoKey,
       NoCerts, Writing, CommitSteps, DeleteSteps, Complete, InUse, Gone
<1>6. ASSUME NEW a \in Accessing, NEW noc \in Nocs, UpdateNOC(a, noc) PROVE CommitOK'
  BY <1>6 DEF UpdateNOC, Ready, IsFailSafeArmed, NocCommandHasBeenInvoked,
       UpdatePendingFabric, CanUpdateFabric, RefusePendingUpdate, AbandonPendingUpdate,
       CanSetPendingIndex, Activated, TypeOK, ControlOK, CommitOK, CommitStarts,
       CommitSources, CommitWritten, CommitUndone, Unlisted, Deleting, Handlers, NoKey,
       NoCerts, Writing, CommitSteps, DeleteSteps, Complete, InUse, Gone
<1>7. ASSUME NEW a \in Accessing, NEW l \in Labels, UpdateFabricLabel(a, l) PROVE CommitOK'
  BY <1>7 DEF UpdateFabricLabel, Ready, IsFailSafeArmed, NocCommandHasBeenInvoked,
       SetFabricLabel, FindFabricWithIndex, HasPendingFabricUpdate, TypeOK, ControlOK,
       CommitOK, CommitStarts, CommitSources, CommitWritten, CommitUndone, Unlisted, Deleting,
       Handlers, NoKey, NoCerts, Writing, CommitSteps, DeleteSteps, Complete, InUse, Gone
<1>8. ASSUME NEW a \in Accessing, CommissioningComplete(a) PROVE CommitOK'
  <2>1. pc = "idle" /\ a \in Indices \cup {0}
    BY <1>8 DEF CommissioningComplete, Ready, ControlOK, Accessing, Live
  <2>2. pc' \in {"idle", "returned", "marker"}
    BY <1>8, <2>1 DEF CommissioningComplete, CommitPendingFabricData
  <2>3. CommitStarts'
    <3> SUFFICES ASSUME pc' = "marker"
                 PROVE  CommitStarts'
      BY DEF CommitStarts
    <3>1. /\ "kIsPendingFabricDataPresent" \in flags /\ ~OnlyNewRoot /\ ~InvalidState
          /\ UNCHANGED <<states, stored, pendingFabric, opKey, flags, pendingIndex>>
      BY <1>8, <2>1 DEF CommissioningComplete, CommitPendingFabricData
    <3>2. /\ pendingIndex # 0
          /\ ("kIsAddPending" \in flags) # ("kIsUpdatePending" \in flags)
          /\ "kIsUpdatePending" \in flags => pendingFabric # None
          /\ FindFabricWithIndex(pendingIndex) # None
          /\ HasOpKeypairForFabric(pendingIndex)
      BY <3>1 DEF InvalidState
    <3> QED
      BY <3>1, <3>2 DEF CommitStarts, FindFabricWithIndex, HasPendingFabricUpdate,
           HasOpKeypairForFabric, TypeOK
  <2> QED
    BY <2>2, <2>3 DEF CommitOK, CommitSources, CommitWritten, CommitUndone, Writing,
         CommitSteps, DeleteSteps
<1>9. ASSUME NEW f \in Indices, RemoveFabric(f) PROVE CommitOK'
  BY <1>9 DEF RemoveFabric, Ready, Delete, Reverted, TypeOK, ControlOK, CommitOK,
       CommitStarts, CommitSources, CommitWritten, CommitUndone, Unlisted, Deleting, Handlers,
       NoKey, NoCerts, Writing, CommitSteps, DeleteSteps, Complete, InUse, Gone
<1>10. CASE FailSafeTimerExpired
  BY <1>10 DEF FailSafeTimerExpired, Ready, ScheduleFailSafeCleanup, TypeOK, ControlOK,
       CommitOK, CommitStarts, CommitSources, CommitWritten, CommitUndone, Unlisted, Deleting,
       Handlers, NoKey, NoCerts, Writing, CommitSteps, DeleteSteps, Complete, InUse, Gone
<1>11. CASE FailSafeCleanup
  BY <1>11 DEF FailSafeCleanup, RevertPendingFabricData, RevertPendingOpCertsExceptRoot,
       TypeOK, ControlOK, CommitOK, CommitStarts, CommitSources, CommitWritten, CommitUndone,
       Unlisted, Deleting, Handlers, NoKey, NoCerts, Writing, CommitSteps, DeleteSteps,
       Complete, InUse, Gone
<1>12. CASE HandleDisarmFailSafe
  BY <1>12 DEF HandleDisarmFailSafe, Disarmed, TypeOK, ControlOK, CommitOK, CommitStarts,
       CommitSources, CommitWritten, CommitUndone, Unlisted, Deleting, Handlers, NoKey,
       NoCerts, Writing, CommitSteps, DeleteSteps, Complete, InUse, Gone
<1>13. CASE ClearMarkerAfterCleanup
  BY <1>13 DEF ClearMarkerAfterCleanup, TypeOK, ControlOK, CommitOK, CommitStarts,
       CommitSources, CommitWritten, CommitUndone, Unlisted, Deleting, Handlers, NoKey,
       NoCerts, Writing, CommitSteps, DeleteSteps, Complete, InUse, Gone
<1>14. CASE CommandReturns
  BY <1>14 DEF CommandReturns, Return, Finished, TypeOK, ControlOK, CommitOK, CommitStarts,
       CommitSources, CommitWritten, CommitUndone, Unlisted, Deleting, Handlers, NoKey,
       NoCerts, Writing, CommitSteps, DeleteSteps, Complete, InUse, Gone
<1>15. CASE CommissioningCompleteReturns
  BY <1>15 DEF CommissioningCompleteReturns, Return, Finished, Disarmed, TypeOK, ControlOK,
       CommitOK, CommitStarts, CommitSources, CommitWritten, CommitUndone, Unlisted, Deleting,
       Handlers, NoKey, NoCerts, Writing, CommitSteps, DeleteSteps, Complete, InUse, Gone
<1>16. CASE CleanupReverted
  BY <1>16 DEF CleanupReverted, Return, Finished, Delete, Reverted, TypeOK, ControlOK,
       CommitOK, CommitStarts, CommitSources, CommitWritten, CommitUndone, Unlisted, Deleting,
       Handlers, NoKey, NoCerts, Writing, CommitSteps, DeleteSteps, Complete, InUse, Gone
<1>17. CASE CleanupReturns
  BY <1>17 DEF CleanupReturns, Return, Finished, TypeOK, ControlOK, CommitOK, CommitStarts,
       CommitSources, CommitWritten, CommitUndone, Unlisted, Deleting, Handlers, NoKey,
       NoCerts, Writing, CommitSteps, DeleteSteps, Complete, InUse, Gone
<1>18. CASE ServerInitReturns
  BY <1>18 DEF ServerInitReturns, Return, Finished, TypeOK, ControlOK, CommitOK, CommitStarts,
       CommitSources, CommitWritten, CommitUndone, Unlisted, Deleting, Handlers, NoKey,
       NoCerts, Writing, CommitSteps, DeleteSteps, Complete, InUse, Gone
<1>19. CASE Crash
  BY <1>19 DEF Crash, TableRestart, Reverted, Disarmed, TypeOK, ControlOK, CommitOK,
       CommitStarts, CommitSources, CommitWritten, CommitUndone, Unlisted, Deleting, Handlers,
       NoKey, NoCerts, Writing, CommitSteps, DeleteSteps, Complete, InUse, Gone
<1>20. CASE DeleteMetadataFromStorage /\ UNCHANGED <<failSafe, queue, handler, crashes, overlapped>>
  BY <1>20 DEF DeleteMetadataFromStorage, Step, TypeOK, ControlOK, CommitOK, CommitStarts,
       CommitSources, CommitWritten, CommitUndone, Unlisted, Deleting, Handlers, NoKey,
       NoCerts, Writing, CommitSteps, DeleteSteps, Complete, InUse, Gone
<1>21. CASE RemoveOpKeypairForFabric /\ UNCHANGED <<failSafe, queue, handler, crashes, overlapped>>
  BY <1>21 DEF RemoveOpKeypairForFabric, Step, TypeOK, ControlOK, CommitOK, CommitStarts,
       CommitSources, CommitWritten, CommitUndone, Unlisted, Deleting, Handlers, NoKey,
       NoCerts, Writing, CommitSteps, DeleteSteps, Complete, InUse, Gone
<1>22. CASE RemoveOpCertsForFabric /\ UNCHANGED <<failSafe, queue, handler, crashes, overlapped>>
  BY <1>22 DEF RemoveOpCertsForFabric, Step, TypeOK, ControlOK, CommitOK, CommitStarts,
       CommitSources, CommitWritten, CommitUndone, Unlisted, Deleting, Handlers, NoKey,
       NoCerts, Writing, CommitSteps, DeleteSteps, Complete, InUse, Gone
<1>23. CASE DeleteIcac /\ UNCHANGED <<failSafe, queue, handler, crashes, overlapped>>
  BY <1>23 DEF DeleteIcac, Step, TypeOK, ControlOK, CommitOK, CommitStarts, CommitSources,
       CommitWritten, CommitUndone, Unlisted, Deleting, Handlers, NoKey, NoCerts, Writing,
       CommitSteps, DeleteSteps, Complete, InUse, Gone
<1>24. CASE DeleteRcac /\ UNCHANGED <<failSafe, queue, handler, crashes, overlapped>>
  BY <1>24 DEF DeleteRcac, Step, TypeOK, ControlOK, CommitOK, CommitStarts, CommitSources,
       CommitWritten, CommitUndone, Unlisted, Deleting, Handlers, NoKey, NoCerts, Writing,
       CommitSteps, DeleteSteps, Complete, InUse, Gone
<1>25. CASE DeleteFromTable /\ UNCHANGED <<failSafe, queue, handler, crashes, overlapped>>
  <2>1. victim \in Indices /\ Deleting /\ stored[victim].meta = None
    BY <1>25 DEF DeleteFromTable, ControlOK, StorageOK, Deleting, DeleteSteps
  <2>2. pc' \in {"returned", "commitFailed", "revertRest", "exceptRootRest"} /\ states'[victim] = None
    BY <1>25, <2>1 DEF DeleteFromTable, TypeOK, Live
  <2>3. pc' = "commitFailed" => victim = committing
    BY <1>25, <2>1 DEF DeleteFromTable, ControlOK, TypeOK, Handlers
  <2>4. UNCHANGED <<stored, committing>>
    BY <1>25 DEF DeleteFromTable
  <2>5. CommitStarts' /\ CommitSources'
    BY <2>2 DEF CommitStarts, CommitSources, Writing, CommitSteps, DeleteSteps
  <2>6. CommitWritten'
    <3>1. pc' = "commitFailed" => failed'
      BY <1>25, <2>1 DEF DeleteFromTable, ControlOK, TypeOK, Handlers
    <3> QED
      BY <2>2, <3>1 DEF CommitWritten, Writing, CommitSteps, DeleteSteps
  <2>7. CommitUndone'
    BY <2>1, <2>2, <2>3, <2>4 DEF CommitUndone, Gone
  <2> QED
    BY <2>5, <2>6, <2>7 DEF CommitOK
<1>26. CASE ExceptRootRest /\ UNCHANGED <<failSafe, queue, handler, crashes, overlapped>>
  BY <1>26 DEF ExceptRootRest, Step, TypeOK, ControlOK, CommitOK, CommitStarts, CommitSources,
       CommitWritten, CommitUndone, Unlisted, Deleting, Handlers, NoKey, NoCerts, Writing,
       CommitSteps, DeleteSteps, Complete, InUse, Gone
<1>27. CASE RevertRest /\ UNCHANGED <<failSafe, queue, handler, crashes, overlapped>>
  BY <1>27 DEF RevertRest, Step, Reverted, TypeOK, ControlOK, CommitOK, CommitStarts,
       CommitSources, CommitWritten, CommitUndone, Unlisted, Deleting, Handlers, NoKey,
       NoCerts, Writing, CommitSteps, DeleteSteps, Complete, InUse, Gone
<1>28. CASE StoreCommitMarker /\ UNCHANGED <<failSafe, queue, handler, crashes, overlapped>>
  <2>0. handler = "complete"
    BY <1>28 DEF StoreCommitMarker, Step, TypeOK, ControlOK, CommitOK, CommitStarts,
         CommitSources, CommitWritten, CommitUndone, Unlisted, Deleting, Handlers, NoKey,
         NoCerts, Writing, CommitSteps, DeleteSteps
  <2>1. /\ pendingIndex \in Indices
        /\ ("kIsAddPending" \in flags) # ("kIsUpdatePending" \in flags)
        /\ FindFabricWithIndex(pendingIndex) # None
        /\ "kIsUpdatePending" \in flags => pendingFabric # None
        /\ HasOpKeypairForFabric(pendingIndex)
    BY <1>28, <2>0 DEF StoreCommitMarker, Step, CommitOK, CommitStarts
  <2>2. CommitStarts' /\ CommitUndone'
    BY <1>28 DEF StoreCommitMarker, Step, CommitStarts, CommitUndone
  <2>3. states'[pendingIndex] # None
    BY <1>28, <2>1 DEF StoreCommitMarker, FindFabricWithIndex, HasPendingFabricUpdate, TypeOK
  <2>4. CommitSources'
    BY <1>28, <2>1, <2>3 DEF StoreCommitMarker, Step, CommitSources, HasOpKeypairForFabric
  <2>5. CommitWritten'
    <3>1. SUFFICES ASSUME opCerts.index = pendingIndex, opCerts.noc # None, "kIsAddPending" \notin flags
                   PROVE  pendingIndex \in indexInfo.list
      BY <1>28 DEF StoreCommitMarker, Step, CommitWritten, Unlisted
    <3>2. stored[pendingIndex].noc # None /\ stored[pendingIndex].rcac # None /\ pendingIndex \in Live
      BY <2>1, <3>1, NocFields DEF CertsOK, StrayNoc, TypeOK, PendingCerts, Live
    <3>3. InDoubt = 0
      BY <1>28, <2>0 DEF InDoubt, MarkerOK, StoreCommitMarker, Step, ControlOK, Writing,
           CommitSteps, DeleteSteps
    <3>4. ~Deleting
      BY <1>28 DEF StoreCommitMarker, Step, Deleting, DeleteSteps
    <3> QED
      BY <2>1, <3>2, <3>3, <3>4 DEF StorageOK, Loadable, Indices
  <2> QED
    BY <2>2, <2>4, <2>5 DEF CommitOK
<1>29. CASE StoreFabricMetadata /\ UNCHANGED <<failSafe, queue, handler, crashes, overlapped>>
  <2>0. committing \in Indices /\ handler = "complete"
    BY <1>29, CommitIndex DEF StoreFabricMetadata, Step, Writing, CommitSteps, DeleteSteps
  <2>1. CommitStarts' /\ CommitUndone'
    BY <1>29 DEF StoreFabricMetadata, Step, CommitStarts, CommitUndone
  <2>2. CommitSources'
    BY <1>29, <2>0 DEF StoreFabricMetadata, Step, CommitOK, CommitSources,
         HasOpKeypairForFabric, TypeOK, StoredFabrics, Writing, CommitSteps, DeleteSteps
  <2>3. CommitWritten'
    <3>1. states[committing].label # None
      BY <1>29, <2>0, EntryFields DEF StoreFabricMetadata, Step, CommitOK, CommitSources,
           TypeOK, Writing, CommitSteps, DeleteSteps
    <3>2. failed' \/ stored'[committing].meta # None
      <4>1. PICK ok \in Outcome("metadata") :
               /\ stored' = IF ok THEN [stored EXCEPT ![committing].meta = states[committing].label] ELSE stored
               /\ failed' = (failed \/ ~ok)
        BY <1>29 DEF StoreFabricMetadata
      <4>2. CASE ok
        BY <2>0, <3>1, <4>1, <4>2 DEF TypeOK, StoredFabrics
      <4> QED
        BY <4>1, <4>2
    <3> QED
      BY <1>29, <3>2 DEF StoreFabricMetadata, Step, CommitOK, CommitWritten, Unlisted,
           Writing, CommitSteps, DeleteSteps
  <2> QED
    BY <2>1, <2>2, <2>3 DEF CommitOK
<1>30. CASE CommitOpKeypairForFabric /\ UNCHANGED <<failSafe, queue, handler, crashes, overlapped>>
  <2>0. committing \in Indices /\ handler = "complete"
    BY <1>30, CommitIndex DEF CommitOpKeypairForFabric, Step, Writing, CommitSteps, DeleteSteps
  <2>1. CommitStarts' /\ CommitUndone'
    BY <1>30 DEF CommitOpKeypairForFabric, Step, CommitStarts, CommitUndone
  <2>2. CommitSources'
    BY <1>30, <2>0 DEF CommitOpKeypairForFabric, Step, CommitOK, CommitSources, Writing,
         CommitSteps, DeleteSteps
  <2>3. CommitWritten'
    <3> SUFFICES ASSUME ~failed'
                 PROVE  CommitWritten'
      BY DEF CommitWritten
    <3>1. HasOpKeypairForFabric(committing)
      BY <1>30 DEF CommitOpKeypairForFabric, Step, CommitOK, CommitSources
    <3>2. /\ opCerts.index = committing /\ opCerts.noc # None /\ pc' = "noc" /\ ~failed
          /\ stored'[committing].key # None /\ stored'[committing].meta = stored[committing].meta
      <4>1. PICK ok \in Outcome("key") :
               LET pending == HasOpKeypairForFabric(committing) /\ opKey.key # None
                   legal   == opKey.index = committing /\ opKey.active
                   chain   == opCerts.index = committing /\ opCerts.noc # None
               IN  /\ stored' = IF pending /\ legal /\ ok
                                THEN [stored EXCEPT ![committing].key = opKey.key] ELSE stored
                   /\ failed' = (failed \/ (pending /\ ~(legal /\ ok)) \/ ~chain)
        BY <1>30 DEF CommitOpKeypairForFabric
      <4>2. opCerts.index = committing /\ opCerts.noc # None /\ ~failed
        BY <4>1
      <4>3. pc' = "noc"
        BY <1>30, <4>2 DEF CommitOpKeypairForFabric, Step
      <4>4. CASE opKey.key # None
        <5>1. stored' = [stored EXCEPT ![committing].key = opKey.key]
          BY <3>1, <4>1, <4>4
        <5> QED
          BY <2>0, <4>2, <4>3, <4>4, <5>1 DEF TypeOK, StoredFabrics
      <4>5. CASE opKey.key = None
        BY <3>1, <4>1, <4>2, <4>3, <4>5 DEF HasOpKeypairForFabric
      <4> QED
        BY <4>4, <4>5
    <3> QED
      BY <1>30, <2>0, <3>2 DEF CommitOpKeypairForFabric, Step, CommitOK, CommitWritten,
           Unlisted, Writing, CommitSteps, DeleteSteps
  <2> QED
    BY <2>1, <2>2, <2>3 DEF CommitOK
<1>31. CASE CommitNoc /\ UNCHANGED <<failSafe, queue, handler, crashes, overlapped>>
  <2>0. committing \in Indices /\ handler = "complete"
    BY <1>31, CommitIndex DEF CommitNoc, Step, Writing, CommitSteps, DeleteSteps
  <2>1. CommitStarts' /\ CommitUndone'
    BY <1>31 DEF CommitNoc, Step, CommitStarts, CommitUndone
  <2>2. CommitSources'
    BY <1>31, <2>0 DEF CommitNoc, Step, CommitOK, CommitSources, Writing, CommitSteps, DeleteSteps
  <2>3. CommitWritten'
    <3>1. failed' \/ (stored'[committing].noc = opCerts.noc /\ ~failed)
      <4>1. PICK ok \in Outcome("noc") :
               /\ stored' = IF ok THEN [stored EXCEPT ![committing].noc = opCerts.noc] ELSE stored
               /\ failed' = (failed \/ ~ok)
        BY <1>31 DEF CommitNoc
      <4>2. CASE ok
        BY <2>0, <4>1, <4>2 DEF TypeOK, StoredFabrics
      <4> QED
        BY <4>1, <4>2
    <3>2. stored'[committing].key = stored[committing].key /\ stored'[committing].meta = stored[committing].meta
      BY <1>31, <2>0 DEF CommitNoc, TypeOK, StoredFabrics
    <3> QED
      BY <1>31, <2>0, <3>1, <3>2 DEF CommitNoc, Step, CommitOK, CommitWritten, Unlisted,
           Writing, CommitSteps, DeleteSteps
  <2> QED
    BY <2>1, <2>2, <2>3 DEF CommitOK
<1>32. CASE CommitIcac /\ UNCHANGED <<failSafe, queue, handler, crashes, overlapped>>
  <2>0. committing \in Indices /\ handler = "complete"
    BY <1>32, CommitIndex DEF CommitIcac, Step, Writing, CommitSteps, DeleteSteps
  <2>1. CommitStarts' /\ CommitUndone'
    BY <1>32 DEF CommitIcac, Step, CommitStarts, CommitUndone
  <2>2. CommitSources'
    BY <1>32, <2>0 DEF CommitIcac, Step, CommitOK, CommitSources, Writing, CommitSteps,
         DeleteSteps
  <2>3. CommitWritten'
    <3>1. failed' \/ (stored'[committing].icac = IcacOf(opCerts.noc) /\ ~failed)
      <4>1. PICK ok \in Outcome("icac") :
               /\ stored' = IF ok THEN [stored EXCEPT ![committing].icac = IcacOf(opCerts.noc)] ELSE stored
               /\ failed' = (failed \/ ~ok)
        BY <1>32 DEF CommitIcac, IcacOf
      <4>2. CASE ok
        BY <2>0, <4>1, <4>2 DEF TypeOK, StoredFabrics
      <4> QED
        BY <4>1, <4>2
    <3>2. /\ stored'[committing].key = stored[committing].key
          /\ stored'[committing].meta = stored[committing].meta
          /\ stored'[committing].noc = stored[committing].noc
      BY <1>32, <2>0 DEF CommitIcac, TypeOK, StoredFabrics
    <3> QED
      BY <1>32, <2>0, <3>1, <3>2 DEF CommitIcac, Step, CommitOK, CommitWritten, Unlisted,
           Writing, CommitSteps, DeleteSteps
  <2> QED
    BY <2>1, <2>2, <2>3 DEF CommitOK
<1>33. CASE CommitRcac /\ UNCHANGED <<failSafe, queue, handler, crashes, overlapped>>
  <2>0. committing \in Indices /\ handler = "complete"
    BY <1>33, CommitIndex DEF CommitRcac, Step, Writing, CommitSteps, DeleteSteps
  <2>1. CommitStarts' /\ CommitUndone'
    BY <1>33 DEF CommitRcac, Step, CommitStarts, CommitUndone
  <2>2. CommitSources'
    BY <1>33, <2>0 DEF CommitRcac, Step, CommitOK, CommitSources, Writing, CommitSteps,
         DeleteSteps
  <2>3. CommitWritten'
    <3> SUFFICES ASSUME ~failed'
                 PROVE  CommitWritten'
      BY DEF CommitWritten
    <3>1. /\ ~failed /\ opCerts.index = committing /\ opCerts.noc \in Nocs /\ opCerts.rcac \in Roots \cup {None}
          /\ pendingIndex = committing
          /\ stored[committing].noc = opCerts.noc /\ stored[committing].icac = IcacOf(opCerts.noc)
          /\ stored[committing].meta # None /\ stored[committing].key # None
          /\ Unlisted \/ committing \in indexInfo.list
      BY <1>33 DEF CommitRcac, Step, CommitOK, CommitWritten, CommitSources, TypeOK,
           PendingCerts, Writing, CommitSteps, DeleteSteps
    <3>2. (stored[committing].icac # None) = opCerts.noc.ica
      BY <3>1, NocFields DEF IcacOf
    <3>3. /\ stored'[committing].noc = opCerts.noc /\ stored'[committing].icac = stored[committing].icac
          /\ stored'[committing].meta = stored[committing].meta /\ stored'[committing].key = stored[committing].key
          /\ stored'[committing].rcac = opCerts.noc.root
      <4>1. CASE opCerts.rcac = None
        BY <1>33, <2>0, <3>1, <4>1 DEF CommitRcac, CertsOK, StrayNoc, TypeOK
      <4>2. CASE opCerts.rcac # None
        <5>1. stored' = [stored EXCEPT ![committing] = [stored[committing] EXCEPT !.rcac = opCerts.rcac]]
          BY <1>33, <2>0, <3>1, <3>2, <4>2 DEF CommitRcac
        <5>2. opCerts.noc.root = opCerts.rcac
          BY <3>1, <4>2, NocFields DEF CertsOK, StrayNoc
        <5> QED
          BY <2>0, <3>1, <5>1, <5>2 DEF TypeOK, StoredFabrics
      <4> QED
        BY <4>1, <4>2
    <3>4. states[committing] # None /\ states[committing].noc = opCerts.noc
      BY <2>0, <3>1, NocFields, FabricAssumption DEF CertsOK, StrayNoc, Indices
    <3> QED
      BY <1>33, <2>0, <3>1, <3>3, <3>4, NocFields
      DEF CommitRcac, Step, CommitWritten, Unlisted, Complete, InUse, Writing,
           CommitSteps, DeleteSteps
  <2> QED
    BY <2>1, <2>2, <2>3 DEF CommitOK
<1>34. CASE CommitFabricIndexInfo /\ UNCHANGED <<failSafe, queue, handler, crashes, overlapped>>
  <2>0. committing \in Indices /\ handler = "complete"
    BY <1>34, CommitIndex DEF CommitFabricIndexInfo, Step, Writing, CommitSteps, DeleteSteps
  <2>1. CommitStarts' /\ CommitUndone'
    BY <1>34 DEF CommitFabricIndexInfo, Step, CommitStarts, CommitUndone
  <2>2. CommitSources'
    BY <1>34, <2>0 DEF CommitFabricIndexInfo, Step, CommitOK, CommitSources, Writing,
         CommitSteps, DeleteSteps
  <2>3. CommitWritten'
    <3>1. committing \in Live
      BY <1>34, <2>0 DEF CommitFabricIndexInfo, Step, CommitOK, CommitSources, Live,
           Writing, CommitSteps, DeleteSteps
    <3>2. /\ failed \/ (Complete(committing) /\ InUse(committing) /\ stored[committing].noc # None)
          /\ failed \/ (stored[committing].meta # None /\ stored[committing].key # None)
          /\ failed \/ "kIsAddPending" \in flags \/ committing \in indexInfo.list
      BY <1>34 DEF CommitFabricIndexInfo, Step, CommitOK, CommitWritten, Unlisted,
           Writing, CommitSteps, DeleteSteps
    <3>3. failed' \/ (~failed /\ committing \in indexInfo'.list)
      <4>1. CASE "kIsAddPending" \notin flags
        BY <1>34, <3>2, <4>1 DEF CommitFabricIndexInfo
      <4>2. CASE "kIsAddPending" \in flags
        <5>1. PICK ok \in Outcome("index") :
                 /\ indexInfo' = IF ok THEN [next |-> nextIndex', list |-> Live] ELSE indexInfo
                 /\ failed' = (failed \/ ~ok)
          BY <1>34, <4>2 DEF CommitFabricIndexInfo
        <5> QED
          BY <3>1, <5>1
      <4> QED
        BY <4>1, <4>2
    <3>4. UNCHANGED <<stored, states, committing>> /\ pc' = "finish"
      BY <1>34 DEF CommitFabricIndexInfo, Step
    <3> QED
      BY <3>2, <3>3, <3>4 DEF CommitWritten, Complete, InUse
  <2> QED
    BY <2>1, <2>2, <2>3 DEF CommitOK
<1>35. CASE CommitFinish /\ UNCHANGED <<failSafe, queue, handler, crashes, overlapped>>
  BY <1>35 DEF CommitFinish, Step, TypeOK, ControlOK, CommitOK, CommitStarts, CommitSources,
       CommitWritten, CommitUndone, Unlisted, Deleting, Handlers, NoKey, NoCerts, Writing,
       CommitSteps, DeleteSteps, Complete, InUse, Gone
<1>36. CASE CommitFailed /\ UNCHANGED <<failSafe, queue, handler, crashes, overlapped>>
  BY <1>36 DEF CommitFailed, Step, Reverted, TypeOK, ControlOK, CommitOK, CommitStarts,
       CommitSources, CommitWritten, CommitUndone, Unlisted, Deleting, Handlers, NoKey,
       NoCerts, Writing, CommitSteps, DeleteSteps, Complete, InUse, Gone
<1>37. CASE ClearCommitMarker /\ UNCHANGED <<failSafe, queue, handler, crashes, overlapped>>
  BY <1>37 DEF ClearCommitMarker, Step, TypeOK, ControlOK, CommitOK, CommitStarts,
       CommitSources, CommitWritten, CommitUndone, Unlisted, Deleting, Handlers, NoKey,
       NoCerts, Writing, CommitSteps, DeleteSteps, Complete, InUse, Gone
<1> QED
  BY <1>1, <1>2, <1>3, <1>4, <1>5, <1>6, <1>7, <1>8, <1>9, <1>10, <1>11, <1>12, <1>13, <1>14,
       <1>15, <1>16, <1>17, <1>18, <1>19, <1>20, <1>21, <1>22, <1>23, <1>24, <1>25, <1>26,
       <1>27, <1>28, <1>29, <1>30, <1>31, <1>32, <1>33, <1>34, <1>35, <1>36, <1>37 DEF Next,
       Command, PostedWork, HandlerReturns, TableRuns, TableStep

\* Every step keeps the table and its storage together, but for the index in doubt.
LEMMA StorageStep ==
    ASSUME TypeOK, ControlOK, MarkerOK, QueueOK, PendingOK, CertsOK, StorageOK, CommitOK, Next
    PROVE  StorageOK'
<1> USE FabricAssumption DEF memory, storage, control, tableVars
<1>1. ASSUME NEW a \in Accessing, ArmFailSafe(a) PROVE StorageOK'
  BY <1>1 DEF ArmFailSafe, Ready, TypeOK, ControlOK, Deleting, Handlers, Writing, CommitSteps,
       DeleteSteps, StorageOK, Loadable, Complete, InUse, Gone, InDoubt, Live
<1>2. ASSUME NEW a \in Accessing, NEW u \in BOOLEAN, CSRRequest(a, u) PROVE StorageOK'
  BY <1>2 DEF CSRRequest, Ready, IsFailSafeArmed, NocCommandHasBeenInvoked,
       AllocatePendingOperationalKey, CanSetPendingIndex, TypeOK, ControlOK, Deleting,
       Handlers, Writing, CommitSteps, DeleteSteps, StorageOK, Loadable, Complete, InUse,
       Gone, InDoubt, Live
<1>3. ASSUME NEW a \in Accessing, NEW r \in Roots, AddTrustedRootCertificate(a, r) PROVE StorageOK'
  BY <1>3 DEF AddTrustedRootCertificate, Ready, IsFailSafeArmed, NocCommandHasBeenInvoked,
       AddNewPendingTrustedRootCert, TrustedRootAccepted, CanSetPendingIndex, TypeOK,
       ControlOK, Deleting, Handlers, Writing, CommitSteps, DeleteSteps, StorageOK, Loadable,
       Complete, InUse, Gone, InDoubt, Live
<1>4. ASSUME NEW a \in Accessing, NEW noc \in Nocs, AddNOC(a, noc) PROVE StorageOK'
  <2> DEFINE g == EnsuredNext(nextIndex, Live)
  <2>1. g \in Indices /\ stored[g].noc = None
    BY <1>4, EnsuredNextRange DEF AddNOC, AddNewPendingFabric, CanAddFabric, TypeOK
  <2>2. handler = "idle" /\ queue = <<>> /\ pc = "idle" /\ committing = 0
    BY <1>4 DEF AddNOC, AddNewPendingFabric, CanAddNOC, Ready, IsFailSafeArmed, QueueOK, ControlOK
  <2>3. marker = 0
    BY <2>2, NothingPosted
  <2>4. /\ states' = [states EXCEPT ![g] = [noc |-> noc, label |-> EmptyLabel]]
        /\ UNCHANGED <<stored, indexInfo, marker, committing>>
        /\ pc' \in {"idle", "delMetadata"}
    BY <1>4, <2>2 DEF AddNOC, AddNewPendingFabric
  <2> HIDE DEF g
  <2> QED
    BY <2>1, <2>2, <2>3, <2>4 DEF TypeOK, Deleting, DeleteSteps, StorageOK, Loadable,
         Complete, InUse, Gone, InDoubt, Live
<1>5. ASSUME NEW a \in Accessing, NEW noc \in Nocs, AddNOCUndone(a, noc) PROVE StorageOK'
  <2> DEFINE g == EnsuredNext(nextIndex, Live)
  <2>1. g \in Indices /\ stored[g].noc = None
    BY <1>5, EnsuredNextRange DEF AddNOCUndone, CanAddFabric, TypeOK
  <2>2. handler = "idle" /\ queue = <<>> /\ pc = "idle" /\ committing = 0
    BY <1>5 DEF AddNOCUndone, CanAddNOC, Ready, IsFailSafeArmed, QueueOK, ControlOK
  <2>3. marker = 0
    BY <2>2, NothingPosted
  <2>4. /\ states' = [states EXCEPT ![g] = [noc |-> noc, label |-> EmptyLabel]]
        /\ UNCHANGED <<stored, indexInfo, marker, committing>>
        /\ pc' \in {"idle", "delMetadata"}
    BY <1>5, <2>2 DEF AddNOCUndone
  <2> HIDE DEF g
  <2> QED
    BY <2>1, <2>2, <2>3, <2>4 DEF TypeOK, Deleting, DeleteSteps, StorageOK, Loadable,
         Complete, InUse, Gone, InDoubt, Live
<1>6. ASSUME NEW a \in Accessing, NEW noc \in Nocs, UpdateNOC(a, noc) PROVE StorageOK'
  BY <1>6 DEF UpdateNOC, Ready, IsFailSafeArmed, NocCommandHasBeenInvoked,
       UpdatePendingFabric, CanUpdateFabric, RefusePendingUpdate, AbandonPendingUpdate,
       CanSetPendingIndex, Activated, TypeOK, ControlOK, Deleting, Handlers, Writing,
       CommitSteps, DeleteSteps, StorageOK, Loadable, Complete, InUse, Gone, InDoubt, Live
<1>7. ASSUME NEW a \in Accessing, NEW l \in Labels, UpdateFabricLabel(a, l) PROVE StorageOK'
  <2>1. pc = "idle" /\ ~Deleting /\ committing = 0
    BY <1>7, LabelKeepsNocs DEF ControlOK, Deleting, DeleteSteps
  <2>2. a \in Live
    BY <1>7 DEF UpdateFabricLabel, Accessing
  <2>3. a # InDoubt /\ stored[a].noc # None /\ stored[a].rcac # None => Loadable(a)
    BY <2>1, <2>2 DEF StorageOK
  <2>4. \A f \in Indices \ {InDoubt} : Loadable(f)' => Loadable(f)
    BY <1>7, <2>3, LabelKeepsNocs DEF Loadable
  <2>5. \A f \in Indices : Loadable(f) => Loadable(f)'
    BY <1>7, LabelKeepsNocs DEF Loadable
  <2>6. \A f \in Indices : Complete(f) /\ InUse(f) => Complete(f)' /\ InUse(f)'
    BY <1>7, LabelKeepsNocs DEF Complete, InUse
  <2>7. \A f \in Indices : Gone(f) => Gone(f)'
    BY <1>7, <2>2, LabelKeepsNocs DEF Gone, Live
  <2>8. InDoubt' = InDoubt /\ pc' = pc /\ ~Deleting' /\ Live' = Live
    BY <1>7, <2>1, LabelKeepsNocs DEF InDoubt, control, Deleting, Live
  <2> QED
    BY <1>7, <2>1, <2>4, <2>5, <2>6, <2>7, <2>8, LabelKeepsNocs DEF StorageOK, TypeOK, Live,
         DeleteSteps
<1>8. ASSUME NEW a \in Accessing, CommissioningComplete(a) PROVE StorageOK'
  BY <1>8 DEF CommissioningComplete, Ready, IsFailSafeArmed, NocCommandHasBeenInvoked,
       CommitPendingFabricData, Reverted, OnlyNewRoot, InvalidState, Disarmed, TypeOK,
       ControlOK, Deleting, Handlers, Writing, CommitSteps, DeleteSteps, StorageOK, Loadable,
       Complete, InUse, Gone, InDoubt, Live
<1>9. ASSUME NEW f \in Indices, RemoveFabric(f) PROVE StorageOK'
  BY <1>9 DEF RemoveFabric, Ready, Delete, Reverted, TypeOK, ControlOK, Deleting, Handlers,
       Writing, CommitSteps, DeleteSteps, StorageOK, Loadable, Complete, InUse, Gone, InDoubt,
       Live
<1>10. CASE FailSafeTimerExpired
  BY <1>10 DEF FailSafeTimerExpired, Ready, ScheduleFailSafeCleanup, TypeOK, ControlOK,
       Deleting, Handlers, Writing, CommitSteps, DeleteSteps, StorageOK, Loadable, Complete,
       InUse, Gone, InDoubt, Live
<1>11. CASE FailSafeCleanup
  BY <1>11 DEF FailSafeCleanup, RevertPendingFabricData, RevertPendingOpCertsExceptRoot,
       TypeOK, ControlOK, Deleting, Handlers, Writing, CommitSteps, DeleteSteps, StorageOK,
       Loadable, Complete, InUse, Gone, InDoubt, Live
<1>12. CASE HandleDisarmFailSafe
  BY <1>12 DEF HandleDisarmFailSafe, Disarmed, TypeOK, ControlOK, Deleting, Handlers, Writing,
       CommitSteps, DeleteSteps, StorageOK, Loadable, Complete, InUse, Gone, InDoubt, Live
<1>13. CASE ClearMarkerAfterCleanup
  BY <1>13 DEF ClearMarkerAfterCleanup, TypeOK, ControlOK, Deleting, Handlers, Writing,
       CommitSteps, DeleteSteps, StorageOK, Loadable, Complete, InUse, Gone, InDoubt, Live
<1>14. CASE CommandReturns
  BY <1>14 DEF CommandReturns, Return, Finished, TypeOK, ControlOK, Deleting, Handlers,
       Writing, CommitSteps, DeleteSteps, StorageOK, Loadable, Complete, InUse, Gone, InDoubt,
       Live
<1>15. CASE CommissioningCompleteReturns
  BY <1>15 DEF CommissioningCompleteReturns, Return, Finished, Disarmed, TypeOK, ControlOK,
       Deleting, Handlers, Writing, CommitSteps, DeleteSteps, StorageOK, Loadable, Complete,
       InUse, Gone, InDoubt, Live
<1>16. CASE CleanupReverted
  BY <1>16 DEF CleanupReverted, Return, Finished, Delete, Reverted, TypeOK, ControlOK,
       Deleting, Handlers, Writing, CommitSteps, DeleteSteps, StorageOK, Loadable, Complete,
       InUse, Gone, InDoubt, Live
<1>17. CASE CleanupReturns
  BY <1>17 DEF CleanupReturns, Return, Finished, TypeOK, ControlOK, Deleting, Handlers,
       Writing, CommitSteps, DeleteSteps, StorageOK, Loadable, Complete, InUse, Gone, InDoubt,
       Live
<1>18. CASE ServerInitReturns
  BY <1>18 DEF ServerInitReturns, Return, Finished, TypeOK, ControlOK, Deleting, Handlers,
       Writing, CommitSteps, DeleteSteps, StorageOK, Loadable, Complete, InUse, Gone, InDoubt,
       Live
<1>19. CASE Crash
  <2>1. InDoubt = marker /\ InDoubt' = marker
    BY <1>19 DEF Crash, TableRestart, InDoubt
  <2>2. UNCHANGED <<stored, indexInfo, marker>> /\ handler' = "boot" /\ committing' = 0
    BY <1>19 DEF Crash, TableRestart
  <2>3. \A f \in Indices : /\ Loadable(f) => states'[f] = [noc |-> stored[f].noc, label |-> stored[f].meta]
                           /\ ~Loadable(f) => states'[f] = None
    BY <1>19 DEF Crash, TableRestart
  <2>4. \A f \in Indices : Loadable(f)' <=> Loadable(f)
    BY <2>2 DEF Loadable
  <2>5. \A f \in Indices : Loadable(f) => InUse(f)'
    <3> SUFFICES ASSUME NEW f \in Indices, Loadable(f)
                 PROVE  InUse(f)'
      OBVIOUS
    <3>1. [noc |-> stored[f].noc, label |-> stored[f].meta] \in Entries
      BY DEF Loadable, TypeOK, StoredFabrics, Entries
    <3>2. states'[f] = [noc |-> stored[f].noc, label |-> stored[f].meta]
      BY <2>3
    <3>3. states'[f] # None /\ states'[f].noc = stored[f].noc
      BY <3>1, <3>2, EntryFields
    <3> QED
      BY <2>2, <3>3 DEF InUse
  <2>6. \A f \in Indices : Complete(f) => Complete(f)'
    BY <2>2 DEF Complete
  <2>7. Live' \subseteq {f \in Indices : Loadable(f)}
    BY <2>3 DEF Live
  <2>8. pc' \in {"returned", "delMetadata"} /\ (pc' = "returned" => marker = 0)
    BY <1>19 DEF Crash, TableRestart
  <2> QED
    BY <2>1, <2>2, <2>4, <2>5, <2>6, <2>7, <2>8 DEF StorageOK, DeleteSteps
<1>20. CASE DeleteMetadataFromStorage /\ UNCHANGED <<failSafe, queue, handler, crashes, overlapped>>
  BY <1>20 DEF DeleteMetadataFromStorage, Step, TypeOK, ControlOK, Deleting, Handlers,
       Writing, CommitSteps, DeleteSteps, StorageOK, Loadable, Complete, InUse, Gone, InDoubt,
       Live
<1>21. CASE RemoveOpKeypairForFabric /\ UNCHANGED <<failSafe, queue, handler, crashes, overlapped>>
  BY <1>21 DEF RemoveOpKeypairForFabric, Step, TypeOK, ControlOK, Deleting, Handlers, Writing,
       CommitSteps, DeleteSteps, StorageOK, Loadable, Complete, InUse, Gone, InDoubt, Live
<1>22. CASE RemoveOpCertsForFabric /\ UNCHANGED <<failSafe, queue, handler, crashes, overlapped>>
  BY <1>22 DEF RemoveOpCertsForFabric, Step, TypeOK, ControlOK, Deleting, Handlers, Writing,
       CommitSteps, DeleteSteps, StorageOK, Loadable, Complete, InUse, Gone, InDoubt, Live
<1>23. CASE DeleteIcac /\ UNCHANGED <<failSafe, queue, handler, crashes, overlapped>>
  BY <1>23 DEF DeleteIcac, Step, TypeOK, ControlOK, Deleting, Handlers, Writing, CommitSteps,
       DeleteSteps, StorageOK, Loadable, Complete, InUse, Gone, InDoubt, Live
<1>24. CASE DeleteRcac /\ UNCHANGED <<failSafe, queue, handler, crashes, overlapped>>
  BY <1>24 DEF DeleteRcac, Step, TypeOK, ControlOK, Deleting, Handlers, Writing, CommitSteps,
       DeleteSteps, StorageOK, Loadable, Complete, InUse, Gone, InDoubt, Live
<1>25. CASE DeleteFromTable /\ UNCHANGED <<failSafe, queue, handler, crashes, overlapped>>
  <2>1. victim \in Indices /\ Deleting /\ stored[victim].meta = None
    BY <1>25 DEF DeleteFromTable, ControlOK, StorageOK, Deleting, DeleteSteps
  <2>2. UNCHANGED <<stored, marker, committing, handler, victim>>
    BY <1>25 DEF DeleteFromTable
  <2>3. ~Deleting' /\ pc' \notin DeleteSteps
    BY <1>25 DEF DeleteFromTable, TypeOK, Deleting, DeleteSteps
  <2>4. InDoubt' = InDoubt
    BY <2>2 DEF InDoubt
  <2>5. \A f \in Indices : states'[f] = IF f = victim THEN None ELSE states[f]
    BY <1>25, <2>1 DEF DeleteFromTable, Live, TypeOK
  <2>6. indexInfo'.list = indexInfo.list \/ indexInfo'.list = Live \ {victim}
    BY <1>25 DEF DeleteFromTable
  <2>7. \A f \in Indices \ {InDoubt} : Loadable(f)' => Loadable(f) /\ f # victim
    BY <2>1, <2>2, <2>6 DEF StorageOK, Loadable
  <2>8. \A f \in Live \ {InDoubt, victim} : stored[f].noc # None /\ stored[f].rcac # None => Loadable(f)'
    BY <2>2, <2>6 DEF StorageOK, Loadable
  <2>9. \A f \in Indices \ {victim} : Complete(f) /\ InUse(f) => Complete(f)' /\ InUse(f)'
    BY <2>2, <2>5 DEF Complete, InUse
  <2>10. Live' = Live \ {victim}
    BY <2>5 DEF Live
  <2>11. marker # 0 /\ committing = 0 /\ (handler # "boot" \/ pc' = "returned") => Gone(marker)'
    <3>1. handler = "boot" => marker = victim
      BY DEF MarkerOK
    <3> QED
      BY <2>1, <2>2, <2>5, <3>1 DEF StorageOK, Gone, TypeOK
  <2> QED
    BY <2>1, <2>2, <2>3, <2>4, <2>7, <2>8, <2>9, <2>10, <2>11 DEF StorageOK
<1>26. CASE ExceptRootRest /\ UNCHANGED <<failSafe, queue, handler, crashes, overlapped>>
  BY <1>26 DEF ExceptRootRest, Step, TypeOK, ControlOK, Deleting, Handlers, Writing,
       CommitSteps, DeleteSteps, StorageOK, Loadable, Complete, InUse, Gone, InDoubt, Live
<1>27. CASE RevertRest /\ UNCHANGED <<failSafe, queue, handler, crashes, overlapped>>
  BY <1>27 DEF RevertRest, Step, Reverted, TypeOK, ControlOK, Deleting, Handlers, Writing,
       CommitSteps, DeleteSteps, StorageOK, Loadable, Complete, InUse, Gone, InDoubt, Live
<1>28. CASE StoreCommitMarker /\ UNCHANGED <<failSafe, queue, handler, crashes, overlapped>>
  <2>0. handler = "complete" /\ pc = "marker" /\ pc' = "metadata" /\ committing = 0
    BY <1>28 DEF StoreCommitMarker, Step, TypeOK, ControlOK, Handlers, Writing, CommitSteps,
         DeleteSteps
  <2>1. pendingIndex \in Indices /\ committing' = pendingIndex /\ UNCHANGED <<stored, indexInfo>>
    BY <1>28, <2>0 DEF StoreCommitMarker, CommitOK, CommitStarts
  <2>2. InDoubt = 0 /\ InDoubt' = pendingIndex
    BY <2>0, <2>1 DEF InDoubt, MarkerOK, Indices
  <2>3. \A f \in Indices \ {pendingIndex} : states'[f] = states[f]
    BY <1>28 DEF StoreCommitMarker, TypeOK
  <2> QED
    BY <2>0, <2>1, <2>2, <2>3 DEF StorageOK, Loadable, Complete, InUse, Gone, Live,
         Deleting, DeleteSteps, Indices
<1>29. CASE StoreFabricMetadata /\ UNCHANGED <<failSafe, queue, handler, crashes, overlapped>>
  BY <1>29 DEF StoreFabricMetadata, Step, TypeOK, ControlOK, Deleting, Handlers, Writing,
       CommitSteps, DeleteSteps, StorageOK, Loadable, Complete, InUse, Gone, InDoubt, Live
<1>30. CASE CommitOpKeypairForFabric /\ UNCHANGED <<failSafe, queue, handler, crashes, overlapped>>
  BY <1>30 DEF CommitOpKeypairForFabric, Step, TypeOK, ControlOK, Deleting, Handlers, Writing,
       CommitSteps, DeleteSteps, StorageOK, Loadable, Complete, InUse, Gone, InDoubt, Live
<1>31. CASE CommitNoc /\ UNCHANGED <<failSafe, queue, handler, crashes, overlapped>>
  BY <1>31 DEF CommitNoc, Step, TypeOK, ControlOK, Deleting, Handlers, Writing, CommitSteps,
       DeleteSteps, StorageOK, Loadable, Complete, InUse, Gone, InDoubt, Live
<1>32. CASE CommitIcac /\ UNCHANGED <<failSafe, queue, handler, crashes, overlapped>>
  BY <1>32 DEF CommitIcac, Step, TypeOK, ControlOK, Deleting, Handlers, Writing, CommitSteps,
       DeleteSteps, StorageOK, Loadable, Complete, InUse, Gone, InDoubt, Live
<1>33. CASE CommitRcac /\ UNCHANGED <<failSafe, queue, handler, crashes, overlapped>>
  BY <1>33 DEF CommitRcac, Step, TypeOK, ControlOK, Deleting, Handlers, Writing, CommitSteps,
       DeleteSteps, StorageOK, Loadable, Complete, InUse, Gone, InDoubt, Live
<1>34. CASE CommitFabricIndexInfo /\ UNCHANGED <<failSafe, queue, handler, crashes, overlapped>>
  BY <1>34 DEF CommitFabricIndexInfo, Step, TypeOK, ControlOK, Deleting, Handlers, Writing,
       CommitSteps, DeleteSteps, StorageOK, Loadable, Complete, InUse, Gone, InDoubt, Live
<1>35. CASE CommitFinish /\ UNCHANGED <<failSafe, queue, handler, crashes, overlapped>>
  BY <1>35 DEF CommitFinish, Step, TypeOK, ControlOK, Deleting, Handlers, Writing,
       CommitSteps, DeleteSteps, StorageOK, Loadable, Complete, InUse, Gone, InDoubt, Live
<1>36. CASE CommitFailed /\ UNCHANGED <<failSafe, queue, handler, crashes, overlapped>>
  BY <1>36 DEF CommitFailed, Step, Reverted, TypeOK, ControlOK, Deleting, Handlers, Writing,
       CommitSteps, DeleteSteps, StorageOK, Loadable, Complete, InUse, Gone, InDoubt, Live
<1>37. CASE ClearCommitMarker /\ UNCHANGED <<failSafe, queue, handler, crashes, overlapped>>
  <2>0. committing \in Indices /\ handler = "complete"
    BY <1>37, CommitIndex DEF ClearCommitMarker, Step, Writing, CommitSteps, DeleteSteps
  <2>1. pc = "clearMarker" /\ pc' = "returned" /\ UNCHANGED <<states, stored, indexInfo>>
    BY <1>37 DEF ClearCommitMarker, Step
  <2>2. InDoubt = committing /\ InDoubt' = 0 /\ marker' = 0 /\ ~Deleting
    BY <1>37, <2>0, <2>1 DEF ClearCommitMarker, InDoubt, Indices, Deleting, DeleteSteps
  <2>3. \/ Gone(committing)
        \/ Complete(committing) /\ InUse(committing) /\ Loadable(committing)
    <3>1. CASE failed
      BY <2>1, <3>1 DEF CommitOK, CommitUndone
    <3>2. CASE ~failed
      <4>1. /\ Complete(committing) /\ InUse(committing) /\ stored[committing].noc # None
            /\ stored[committing].meta # None /\ committing \in indexInfo.list
        BY <2>1, <3>2 DEF CommitOK, CommitWritten, Unlisted, Writing, CommitSteps, DeleteSteps
      <4>2. stored[committing].rcac # None
        BY <2>0, <4>1, NocFields DEF Complete, TypeOK, StoredFabrics
      <4> QED
        BY <4>1, <4>2 DEF Loadable
    <3> QED
      BY <3>1, <3>2
  <2> QED
    BY <2>0, <2>1, <2>2, <2>3 DEF StorageOK, Loadable, Complete, InUse, Gone, Live,
         Deleting, DeleteSteps
<1> QED
  BY <1>1, <1>2, <1>3, <1>4, <1>5, <1>6, <1>7, <1>8, <1>9, <1>10, <1>11, <1>12, <1>13, <1>14,
       <1>15, <1>16, <1>17, <1>18, <1>19, <1>20, <1>21, <1>22, <1>23, <1>24, <1>25, <1>26,
       <1>27, <1>28, <1>29, <1>30, <1>31, <1>32, <1>33, <1>34, <1>35, <1>36, <1>37 DEF Next,
       Command, PostedWork, HandlerReturns, TableRuns, TableStep

\* No step but the end of a commit makes a restart keep one more index.
LEMMA KeptStep ==
    ASSUME TypeOK, ControlOK, MarkerOK, QueueOK, CertsOK, StorageOK, CommitOK, Next
    PROVE  KeptShrinks
<1> USE FabricAssumption DEF memory, storage, control, tableVars
<1>1. ASSUME NEW a \in Accessing, ArmFailSafe(a) PROVE KeptShrinks
  BY <1>1 DEF ArmFailSafe, Ready, TypeOK, ControlOK, Deleting, Handlers, Writing, CommitSteps,
       DeleteSteps, StorageOK, KeptShrinks, Kept, Loadable, InDoubt
<1>2. ASSUME NEW a \in Accessing, NEW u \in BOOLEAN, CSRRequest(a, u) PROVE KeptShrinks
  BY <1>2 DEF CSRRequest, Ready, IsFailSafeArmed, NocCommandHasBeenInvoked,
       AllocatePendingOperationalKey, CanSetPendingIndex, TypeOK, ControlOK, Deleting,
       Handlers, Writing, CommitSteps, DeleteSteps, StorageOK, KeptShrinks, Kept, Loadable,
       InDoubt
<1>3. ASSUME NEW a \in Accessing, NEW r \in Roots, AddTrustedRootCertificate(a, r) PROVE KeptShrinks
  BY <1>3 DEF AddTrustedRootCertificate, Ready, IsFailSafeArmed, NocCommandHasBeenInvoked,
       AddNewPendingTrustedRootCert, TrustedRootAccepted, CanSetPendingIndex, TypeOK,
       ControlOK, Deleting, Handlers, Writing, CommitSteps, DeleteSteps, StorageOK,
       KeptShrinks, Kept, Loadable, InDoubt
<1>4. ASSUME NEW a \in Accessing, NEW noc \in Nocs, AddNOC(a, noc) PROVE KeptShrinks
  BY <1>4 DEF AddNOC, Ready, IsFailSafeArmed, NocCommandHasBeenInvoked, CanAddNOC,
       AddNewPendingFabric, CanAddFabric, CanSetPendingIndex, Activated, TypeOK, ControlOK,
       Deleting, Handlers, Writing, CommitSteps, DeleteSteps, StorageOK, KeptShrinks, Kept,
       Loadable, InDoubt
<1>5. ASSUME NEW a \in Accessing, NEW noc \in Nocs, AddNOCUndone(a, noc) PROVE KeptShrinks
  BY <1>5 DEF AddNOCUndone, Ready, IsFailSafeArmed, NocCommandHasBeenInvoked, CanAddNOC,
       CanAddFabric, CanSetPendingIndex, Activated, TypeOK, ControlOK, Deleting, Handlers,
       Writing, CommitSteps, DeleteSteps, StorageOK, KeptShrinks, Kept, Loadable, InDoubt
<1>6. ASSUME NEW a \in Accessing, NEW noc \in Nocs, UpdateNOC(a, noc) PROVE KeptShrinks
  BY <1>6 DEF UpdateNOC, Ready, IsFailSafeArmed, NocCommandHasBeenInvoked,
       UpdatePendingFabric, CanUpdateFabric, RefusePendingUpdate, AbandonPendingUpdate,
       CanSetPendingIndex, Activated, TypeOK, ControlOK, Deleting, Handlers, Writing,
       CommitSteps, DeleteSteps, StorageOK, KeptShrinks, Kept, Loadable, InDoubt
<1>7. ASSUME NEW a \in Accessing, NEW l \in Labels, UpdateFabricLabel(a, l) PROVE KeptShrinks
  <2>1. pc = "idle" /\ ~Deleting /\ committing = 0
    BY <1>7, LabelKeepsNocs DEF ControlOK, Deleting, DeleteSteps
  <2>2. a \in Live
    BY <1>7 DEF UpdateFabricLabel, Accessing
  <2>3. a # InDoubt /\ stored[a].noc # None /\ stored[a].rcac # None => Loadable(a)
    BY <2>1, <2>2 DEF StorageOK
  <2>4. InDoubt' = InDoubt
    BY <1>7, LabelKeepsNocs DEF InDoubt, control
  <2> QED
    BY <1>7, <2>3, <2>4, LabelKeepsNocs DEF KeptShrinks, Kept, Loadable
<1>8. ASSUME NEW a \in Accessing, CommissioningComplete(a) PROVE KeptShrinks
  BY <1>8 DEF CommissioningComplete, Ready, IsFailSafeArmed, NocCommandHasBeenInvoked,
       CommitPendingFabricData, Reverted, OnlyNewRoot, InvalidState, Disarmed, TypeOK,
       ControlOK, Deleting, Handlers, Writing, CommitSteps, DeleteSteps, StorageOK,
       KeptShrinks, Kept, Loadable, InDoubt
<1>9. ASSUME NEW f \in Indices, RemoveFabric(f) PROVE KeptShrinks
  BY <1>9 DEF RemoveFabric, Ready, Delete, Reverted, TypeOK, ControlOK, Deleting, Handlers,
       Writing, CommitSteps, DeleteSteps, StorageOK, KeptShrinks, Kept, Loadable, InDoubt
<1>10. CASE FailSafeTimerExpired
  BY <1>10 DEF FailSafeTimerExpired, Ready, ScheduleFailSafeCleanup, TypeOK, ControlOK,
       Deleting, Handlers, Writing, CommitSteps, DeleteSteps, StorageOK, KeptShrinks, Kept,
       Loadable, InDoubt
<1>11. CASE FailSafeCleanup
  BY <1>11 DEF FailSafeCleanup, RevertPendingFabricData, RevertPendingOpCertsExceptRoot,
       TypeOK, ControlOK, Deleting, Handlers, Writing, CommitSteps, DeleteSteps, StorageOK,
       KeptShrinks, Kept, Loadable, InDoubt
<1>12. CASE HandleDisarmFailSafe
  BY <1>12 DEF HandleDisarmFailSafe, Disarmed, TypeOK, ControlOK, Deleting, Handlers, Writing,
       CommitSteps, DeleteSteps, StorageOK, KeptShrinks, Kept, Loadable, InDoubt
<1>13. CASE ClearMarkerAfterCleanup
  <2>1. committing = 0 /\ handler = "idle" /\ marker # 0
    BY <1>13, ClearIsHead DEF ClearMarkerAfterCleanup
  <2>2. Gone(marker)
    BY <2>1 DEF StorageOK
  <2> QED
    BY <1>13, <2>1, <2>2 DEF ClearMarkerAfterCleanup, KeptShrinks, Kept, Loadable, InDoubt, Gone
<1>14. CASE CommandReturns
  BY <1>14 DEF CommandReturns, Return, Finished, TypeOK, ControlOK, Deleting, Handlers,
       Writing, CommitSteps, DeleteSteps, StorageOK, KeptShrinks, Kept, Loadable, InDoubt
<1>15. CASE CommissioningCompleteReturns
  BY <1>15 DEF CommissioningCompleteReturns, Return, Finished, Disarmed, TypeOK, ControlOK,
       Deleting, Handlers, Writing, CommitSteps, DeleteSteps, StorageOK, KeptShrinks, Kept,
       Loadable, InDoubt
<1>16. CASE CleanupReverted
  BY <1>16 DEF CleanupReverted, Return, Finished, Delete, Reverted, TypeOK, ControlOK,
       Deleting, Handlers, Writing, CommitSteps, DeleteSteps, StorageOK, KeptShrinks, Kept,
       Loadable, InDoubt
<1>17. CASE CleanupReturns
  BY <1>17 DEF CleanupReturns, Return, Finished, TypeOK, ControlOK, Deleting, Handlers,
       Writing, CommitSteps, DeleteSteps, StorageOK, KeptShrinks, Kept, Loadable, InDoubt
<1>18. CASE ServerInitReturns
  BY <1>18 DEF ServerInitReturns, Return, Finished, TypeOK, ControlOK, Deleting, Handlers,
       Writing, CommitSteps, DeleteSteps, StorageOK, KeptShrinks, Kept, Loadable, InDoubt
<1>19. CASE Crash
  BY <1>19 DEF Crash, TableRestart, Reverted, Disarmed, TypeOK, ControlOK, Deleting, Handlers,
       Writing, CommitSteps, DeleteSteps, StorageOK, KeptShrinks, Kept, Loadable, InDoubt
<1>20. CASE DeleteMetadataFromStorage /\ UNCHANGED <<failSafe, queue, handler, crashes, overlapped>>
  BY <1>20 DEF DeleteMetadataFromStorage, Step, TypeOK, ControlOK, Deleting, Handlers,
       Writing, CommitSteps, DeleteSteps, StorageOK, KeptShrinks, Kept, Loadable, InDoubt
<1>21. CASE RemoveOpKeypairForFabric /\ UNCHANGED <<failSafe, queue, handler, crashes, overlapped>>
  BY <1>21 DEF RemoveOpKeypairForFabric, Step, TypeOK, ControlOK, Deleting, Handlers, Writing,
       CommitSteps, DeleteSteps, StorageOK, KeptShrinks, Kept, Loadable, InDoubt
<1>22. CASE RemoveOpCertsForFabric /\ UNCHANGED <<failSafe, queue, handler, crashes, overlapped>>
  BY <1>22 DEF RemoveOpCertsForFabric, Step, TypeOK, ControlOK, Deleting, Handlers, Writing,
       CommitSteps, DeleteSteps, StorageOK, KeptShrinks, Kept, Loadable, InDoubt
<1>23. CASE DeleteIcac /\ UNCHANGED <<failSafe, queue, handler, crashes, overlapped>>
  BY <1>23 DEF DeleteIcac, Step, TypeOK, ControlOK, Deleting, Handlers, Writing, CommitSteps,
       DeleteSteps, StorageOK, KeptShrinks, Kept, Loadable, InDoubt
<1>24. CASE DeleteRcac /\ UNCHANGED <<failSafe, queue, handler, crashes, overlapped>>
  BY <1>24 DEF DeleteRcac, Step, TypeOK, ControlOK, Deleting, Handlers, Writing, CommitSteps,
       DeleteSteps, StorageOK, KeptShrinks, Kept, Loadable, InDoubt
<1>25. CASE DeleteFromTable /\ UNCHANGED <<failSafe, queue, handler, crashes, overlapped>>
  BY <1>25 DEF DeleteFromTable, Step, TypeOK, ControlOK, Deleting, Handlers, Writing,
       CommitSteps, DeleteSteps, StorageOK, KeptShrinks, Kept, Loadable, InDoubt
<1>26. CASE ExceptRootRest /\ UNCHANGED <<failSafe, queue, handler, crashes, overlapped>>
  BY <1>26 DEF ExceptRootRest, Step, TypeOK, ControlOK, Deleting, Handlers, Writing,
       CommitSteps, DeleteSteps, StorageOK, KeptShrinks, Kept, Loadable, InDoubt
<1>27. CASE RevertRest /\ UNCHANGED <<failSafe, queue, handler, crashes, overlapped>>
  BY <1>27 DEF RevertRest, Step, Reverted, TypeOK, ControlOK, Deleting, Handlers, Writing,
       CommitSteps, DeleteSteps, StorageOK, KeptShrinks, Kept, Loadable, InDoubt
<1>28. CASE StoreCommitMarker /\ UNCHANGED <<failSafe, queue, handler, crashes, overlapped>>
  <2>1. committing = 0 /\ handler = "complete"
    BY <1>28 DEF StoreCommitMarker, Step, TypeOK, ControlOK, Handlers, Writing, CommitSteps,
         DeleteSteps
  <2>2. InDoubt = 0
    BY <2>1 DEF MarkerOK, InDoubt
  <2> QED
    BY <1>28, <2>2 DEF StoreCommitMarker, KeptShrinks, Kept, Loadable, Indices
<1>29. CASE StoreFabricMetadata /\ UNCHANGED <<failSafe, queue, handler, crashes, overlapped>>
  BY <1>29 DEF StoreFabricMetadata, Step, TypeOK, ControlOK, Deleting, Handlers, Writing,
       CommitSteps, DeleteSteps, StorageOK, KeptShrinks, Kept, Loadable, InDoubt
<1>30. CASE CommitOpKeypairForFabric /\ UNCHANGED <<failSafe, queue, handler, crashes, overlapped>>
  BY <1>30 DEF CommitOpKeypairForFabric, Step, TypeOK, ControlOK, Deleting, Handlers, Writing,
       CommitSteps, DeleteSteps, StorageOK, KeptShrinks, Kept, Loadable, InDoubt
<1>31. CASE CommitNoc /\ UNCHANGED <<failSafe, queue, handler, crashes, overlapped>>
  BY <1>31 DEF CommitNoc, Step, TypeOK, ControlOK, Deleting, Handlers, Writing, CommitSteps,
       DeleteSteps, StorageOK, KeptShrinks, Kept, Loadable, InDoubt
<1>32. CASE CommitIcac /\ UNCHANGED <<failSafe, queue, handler, crashes, overlapped>>
  BY <1>32 DEF CommitIcac, Step, TypeOK, ControlOK, Deleting, Handlers, Writing, CommitSteps,
       DeleteSteps, StorageOK, KeptShrinks, Kept, Loadable, InDoubt
<1>33. CASE CommitRcac /\ UNCHANGED <<failSafe, queue, handler, crashes, overlapped>>
  BY <1>33 DEF CommitRcac, Step, TypeOK, ControlOK, Deleting, Handlers, Writing, CommitSteps,
       DeleteSteps, StorageOK, KeptShrinks, Kept, Loadable, InDoubt
<1>34. CASE CommitFabricIndexInfo /\ UNCHANGED <<failSafe, queue, handler, crashes, overlapped>>
  BY <1>34 DEF CommitFabricIndexInfo, Step, TypeOK, ControlOK, Deleting, Handlers, Writing,
       CommitSteps, DeleteSteps, StorageOK, KeptShrinks, Kept, Loadable, InDoubt
<1>35. CASE CommitFinish /\ UNCHANGED <<failSafe, queue, handler, crashes, overlapped>>
  BY <1>35 DEF CommitFinish, Step, TypeOK, ControlOK, Deleting, Handlers, Writing,
       CommitSteps, DeleteSteps, StorageOK, KeptShrinks, Kept, Loadable, InDoubt
<1>36. CASE CommitFailed /\ UNCHANGED <<failSafe, queue, handler, crashes, overlapped>>
  BY <1>36 DEF CommitFailed, Step, Reverted, TypeOK, ControlOK, Deleting, Handlers, Writing,
       CommitSteps, DeleteSteps, StorageOK, KeptShrinks, Kept, Loadable, InDoubt
<1>37. CASE ClearCommitMarker /\ UNCHANGED <<failSafe, queue, handler, crashes, overlapped>>
  <2>1. committing \in Indices
    BY <1>37, CommitIndex DEF ClearCommitMarker, Step, Writing, CommitSteps, DeleteSteps
  <2>2. failed => Gone(committing)
    BY <1>37 DEF ClearCommitMarker, Step, CommitOK, CommitUndone
  <2>3. InDoubt = committing
    BY <2>1 DEF InDoubt, Indices
  <2> QED
    BY <1>37, <2>2, <2>3 DEF ClearCommitMarker, KeptShrinks, Kept, Loadable, Gone
<1> QED
  BY <1>1, <1>2, <1>3, <1>4, <1>5, <1>6, <1>7, <1>8, <1>9, <1>10, <1>11, <1>12, <1>13, <1>14,
       <1>15, <1>16, <1>17, <1>18, <1>19, <1>20, <1>21, <1>22, <1>23, <1>24, <1>25, <1>26,
       <1>27, <1>28, <1>29, <1>30, <1>31, <1>32, <1>33, <1>34, <1>35, <1>36, <1>37 DEF Next,
       Command, PostedWork, HandlerReturns, TableRuns, TableStep

\* Every step keeps the next index free.
LEMMA NextStep ==
    ASSUME TypeOK, ControlOK, MarkerOK, QueueOK, CertsOK, StorageOK, CommitOK, NextOK, KeptShrinks, Next
    PROVE  NextOK'
<1> USE FabricAssumption DEF memory, storage, control, tableVars
<1>a. nextIndex \in Indices \cup {0} /\ indexInfo.next \in Indices \cup {0} /\ 0 \notin Indices
  BY DEF TypeOK, IndexInfos, Indices
<1>b. \A f \in Indices : Kept(f) => f \in Live
  BY DEF StorageOK, InUse, Kept, Live
<1>c. (handler = "idle" <=> pc = "idle") /\ "idle" \notin Writing /\ "delMetadata" \notin Writing
  BY DEF ControlOK, Writing, CommitSteps, DeleteSteps
<1>1. ASSUME NEW a \in Accessing, ArmFailSafe(a) PROVE NextOK'
  BY <1>1, <1>a, <1>b, <1>c DEF ArmFailSafe, Ready, ControlOK, NextOK, Unlisted, KeptShrinks,
       Writing, CommitSteps, DeleteSteps
<1>2. ASSUME NEW a \in Accessing, NEW u \in BOOLEAN, CSRRequest(a, u) PROVE NextOK'
  <2>1. nextIndex' = EnsuredNext(nextIndex, Live) /\ UNCHANGED indexInfo
    BY <1>2 DEF CSRRequest, AllocatePendingOperationalKey
  <2>2. pc = "idle" /\ pc' \in {"idle", "delMetadata"}
    BY <1>2, <1>c DEF CSRRequest, AllocatePendingOperationalKey, CanAddNOC, Ready
  <2>3. nextIndex' = nextIndex \/ (nextIndex' \notin Live /\ nextIndex' \in Indices \cup {0})
    BY <1>a, <2>1, EnsuredNextRange
  <2>4. \A f \in Indices : Kept(f)' => Kept(f)
    BY <2>2 DEF KeptShrinks, ClearCommitMarker, Step
  <2> QED
    BY <1>a, <1>b, <1>c, <2>1, <2>2, <2>3, <2>4 DEF NextOK
<1>3. ASSUME NEW a \in Accessing, NEW r \in Roots, AddTrustedRootCertificate(a, r) PROVE NextOK'
  <2>1. nextIndex' = EnsuredNext(nextIndex, Live) /\ UNCHANGED indexInfo
    BY <1>3 DEF AddTrustedRootCertificate, AddNewPendingTrustedRootCert
  <2>2. pc = "idle" /\ pc' \in {"idle", "delMetadata"}
    BY <1>3, <1>c DEF AddTrustedRootCertificate, AddNewPendingTrustedRootCert, CanAddNOC, Ready
  <2>3. nextIndex' = nextIndex \/ (nextIndex' \notin Live /\ nextIndex' \in Indices \cup {0})
    BY <1>a, <2>1, EnsuredNextRange
  <2>4. \A f \in Indices : Kept(f)' => Kept(f)
    BY <2>2 DEF KeptShrinks, ClearCommitMarker, Step
  <2> QED
    BY <1>a, <1>b, <1>c, <2>1, <2>2, <2>3, <2>4 DEF NextOK
<1>4. ASSUME NEW a \in Accessing, NEW noc \in Nocs, AddNOC(a, noc) PROVE NextOK'
  <2>1. nextIndex' = EnsuredNext(nextIndex, Live) /\ UNCHANGED indexInfo
    BY <1>4 DEF AddNOC, AddNewPendingFabric
  <2>2. pc = "idle" /\ pc' \in {"idle", "delMetadata"}
    BY <1>4, <1>c DEF AddNOC, AddNewPendingFabric, CanAddNOC, Ready
  <2>3. nextIndex' = nextIndex \/ (nextIndex' \notin Live /\ nextIndex' \in Indices \cup {0})
    BY <1>a, <2>1, EnsuredNextRange
  <2>4. \A f \in Indices : Kept(f)' => Kept(f)
    BY <2>2 DEF KeptShrinks, ClearCommitMarker, Step
  <2> QED
    BY <1>a, <1>b, <1>c, <2>1, <2>2, <2>3, <2>4 DEF NextOK
<1>5. ASSUME NEW a \in Accessing, NEW noc \in Nocs, AddNOCUndone(a, noc) PROVE NextOK'
  <2>1. nextIndex' = EnsuredNext(nextIndex, Live) /\ UNCHANGED indexInfo
    BY <1>5 DEF AddNOCUndone
  <2>2. pc = "idle" /\ pc' \in {"idle", "delMetadata"}
    BY <1>5, <1>c DEF AddNOCUndone, CanAddNOC, Ready
  <2>3. nextIndex' = nextIndex \/ (nextIndex' \notin Live /\ nextIndex' \in Indices \cup {0})
    BY <1>a, <2>1, EnsuredNextRange
  <2>4. \A f \in Indices : Kept(f)' => Kept(f)
    BY <2>2 DEF KeptShrinks, ClearCommitMarker, Step
  <2> QED
    BY <1>a, <1>b, <1>c, <2>1, <2>2, <2>3, <2>4 DEF NextOK
<1>6. ASSUME NEW a \in Accessing, NEW noc \in Nocs, UpdateNOC(a, noc) PROVE NextOK'
  BY <1>6, <1>a, <1>b, <1>c DEF UpdateNOC, Ready, IsFailSafeArmed, NocCommandHasBeenInvoked,
       UpdatePendingFabric, CanUpdateFabric, RefusePendingUpdate, AbandonPendingUpdate,
       CanSetPendingIndex, Activated, ControlOK, NextOK, Unlisted, KeptShrinks, Writing,
       CommitSteps, DeleteSteps
<1>7. ASSUME NEW a \in Accessing, NEW l \in Labels, UpdateFabricLabel(a, l) PROVE NextOK'
  BY <1>7, <1>a, <1>b, <1>c DEF UpdateFabricLabel, Ready, IsFailSafeArmed,
       NocCommandHasBeenInvoked, SetFabricLabel, FindFabricWithIndex, HasPendingFabricUpdate,
       ControlOK, NextOK, Unlisted, KeptShrinks, Writing, CommitSteps, DeleteSteps
<1>8. ASSUME NEW a \in Accessing, CommissioningComplete(a) PROVE NextOK'
  BY <1>8, <1>a, <1>b, <1>c DEF CommissioningComplete, Ready, IsFailSafeArmed,
       NocCommandHasBeenInvoked, CommitPendingFabricData, Reverted, OnlyNewRoot, InvalidState,
       Disarmed, ControlOK, NextOK, Unlisted, KeptShrinks, Writing, CommitSteps, DeleteSteps
<1>9. ASSUME NEW f \in Indices, RemoveFabric(f) PROVE NextOK'
  BY <1>9, <1>a, <1>b, <1>c DEF RemoveFabric, Ready, Delete, Reverted, ControlOK, NextOK,
       Unlisted, KeptShrinks, Writing, CommitSteps, DeleteSteps
<1>10. CASE FailSafeTimerExpired
  BY <1>10, <1>a, <1>b, <1>c DEF FailSafeTimerExpired, Ready, ScheduleFailSafeCleanup,
       ControlOK, NextOK, Unlisted, KeptShrinks, Writing, CommitSteps, DeleteSteps
<1>11. CASE FailSafeCleanup
  BY <1>11, <1>a, <1>b, <1>c DEF FailSafeCleanup, RevertPendingFabricData,
       RevertPendingOpCertsExceptRoot, ControlOK, NextOK, Unlisted, KeptShrinks, Writing,
       CommitSteps, DeleteSteps
<1>12. CASE HandleDisarmFailSafe
  BY <1>12, <1>a, <1>b, <1>c DEF HandleDisarmFailSafe, Disarmed, ControlOK, NextOK, Unlisted,
       KeptShrinks, Writing, CommitSteps, DeleteSteps
<1>13. CASE ClearMarkerAfterCleanup
  BY <1>13, <1>a, <1>b, <1>c DEF ClearMarkerAfterCleanup, ControlOK, NextOK, Unlisted,
       KeptShrinks, Writing, CommitSteps, DeleteSteps
<1>14. CASE CommandReturns
  BY <1>14, <1>a, <1>b, <1>c DEF CommandReturns, Return, Finished, ControlOK, NextOK,
       Unlisted, KeptShrinks, Writing, CommitSteps, DeleteSteps
<1>15. CASE CommissioningCompleteReturns
  BY <1>15, <1>a, <1>b, <1>c DEF CommissioningCompleteReturns, Return, Finished, Disarmed,
       ControlOK, NextOK, Unlisted, KeptShrinks, Writing, CommitSteps, DeleteSteps
<1>16. CASE CleanupReverted
  BY <1>16, <1>a, <1>b, <1>c DEF CleanupReverted, Return, Finished, Delete, Reverted,
       ControlOK, NextOK, Unlisted, KeptShrinks, Writing, CommitSteps, DeleteSteps
<1>17. CASE CleanupReturns
  BY <1>17, <1>a, <1>b, <1>c DEF CleanupReturns, Return, Finished, ControlOK, NextOK,
       Unlisted, KeptShrinks, Writing, CommitSteps, DeleteSteps
<1>18. CASE ServerInitReturns
  BY <1>18, <1>a, <1>b, <1>c DEF ServerInitReturns, Return, Finished, ControlOK, NextOK,
       Unlisted, KeptShrinks, Writing, CommitSteps, DeleteSteps
<1>19. CASE Crash
  <2>1. UNCHANGED <<stored, indexInfo, marker>> /\ InDoubt' = InDoubt
    BY <1>19 DEF Crash, TableRestart, InDoubt
  <2>2. \A f : Kept(f)' <=> Kept(f)
    BY <2>1 DEF Kept, Loadable
  <2>3. nextIndex' = indexInfo.next \/ ~Loadable(nextIndex') \/ nextIndex' = 0
    <3> DEFINE loaded == {f \in Indices : Loadable(f)}
    <3>1. nextIndex' = EnsuredNext(indexInfo.next, loaded)
      BY <1>19 DEF Crash, TableRestart
    <3> HIDE DEF loaded
    <3>2. nextIndex' = indexInfo.next \/ (nextIndex' \notin loaded /\ nextIndex' \in Indices \cup {0})
      BY <1>a, <3>1, EnsuredNextRange
    <3> QED
      BY <3>2 DEF loaded
  <2>4. pc' \notin Writing
    BY <1>19 DEF Crash, TableRestart, Writing, CommitSteps, DeleteSteps
  <2> QED
    BY <1>a, <2>1, <2>2, <2>3, <2>4 DEF NextOK, Kept
<1>20. CASE DeleteMetadataFromStorage /\ UNCHANGED <<failSafe, queue, handler, crashes, overlapped>>
  <2>1. UNCHANGED <<nextIndex, indexInfo>> /\ pc \in DeleteSteps /\ pc' \in DeleteSteps
    BY <1>20 DEF DeleteMetadataFromStorage, Step, DeleteSteps
  <2>2. \A f \in Indices : Kept(f)' => Kept(f)
    BY <2>1 DEF KeptShrinks, ClearCommitMarker, Step, DeleteSteps
  <2> QED
    BY <1>a, <2>1, <2>2 DEF NextOK, Writing, CommitSteps, DeleteSteps
<1>21. CASE RemoveOpKeypairForFabric /\ UNCHANGED <<failSafe, queue, handler, crashes, overlapped>>
  <2>1. UNCHANGED <<nextIndex, indexInfo>> /\ pc \in DeleteSteps /\ pc' \in DeleteSteps
    BY <1>21 DEF RemoveOpKeypairForFabric, Step, DeleteSteps
  <2>2. \A f \in Indices : Kept(f)' => Kept(f)
    BY <2>1 DEF KeptShrinks, ClearCommitMarker, Step, DeleteSteps
  <2> QED
    BY <1>a, <2>1, <2>2 DEF NextOK, Writing, CommitSteps, DeleteSteps
<1>22. CASE RemoveOpCertsForFabric /\ UNCHANGED <<failSafe, queue, handler, crashes, overlapped>>
  <2>1. UNCHANGED <<nextIndex, indexInfo>> /\ pc \in DeleteSteps /\ pc' \in DeleteSteps
    BY <1>22 DEF RemoveOpCertsForFabric, Step, DeleteSteps
  <2>2. \A f \in Indices : Kept(f)' => Kept(f)
    BY <2>1 DEF KeptShrinks, ClearCommitMarker, Step, DeleteSteps
  <2> QED
    BY <1>a, <2>1, <2>2 DEF NextOK, Writing, CommitSteps, DeleteSteps
<1>23. CASE DeleteIcac /\ UNCHANGED <<failSafe, queue, handler, crashes, overlapped>>
  <2>1. UNCHANGED <<nextIndex, indexInfo>> /\ pc \in DeleteSteps /\ pc' \in DeleteSteps
    BY <1>23 DEF DeleteIcac, Step, DeleteSteps
  <2>2. \A f \in Indices : Kept(f)' => Kept(f)
    BY <2>1 DEF KeptShrinks, ClearCommitMarker, Step, DeleteSteps
  <2> QED
    BY <1>a, <2>1, <2>2 DEF NextOK, Writing, CommitSteps, DeleteSteps
<1>24. CASE DeleteRcac /\ UNCHANGED <<failSafe, queue, handler, crashes, overlapped>>
  <2>1. UNCHANGED <<nextIndex, indexInfo>> /\ pc \in DeleteSteps /\ pc' \in DeleteSteps
    BY <1>24 DEF DeleteRcac, Step, DeleteSteps
  <2>2. \A f \in Indices : Kept(f)' => Kept(f)
    BY <2>1 DEF KeptShrinks, ClearCommitMarker, Step, DeleteSteps
  <2> QED
    BY <1>a, <2>1, <2>2 DEF NextOK, Writing, CommitSteps, DeleteSteps
<1>25. CASE DeleteFromTable /\ UNCHANGED <<failSafe, queue, handler, crashes, overlapped>>
  <2>1. victim \in Indices /\ stored[victim].meta = None
    BY <1>25 DEF DeleteFromTable, ControlOK, StorageOK, Deleting, DeleteSteps
  <2>2. ~Kept(victim)' /\ pc' \notin Writing \ {"commitFailed"} /\ victim' = victim
    BY <1>25, <2>1 DEF DeleteFromTable, Kept, Loadable, TypeOK, Writing, CommitSteps, DeleteSteps
  <2>3. \A f \in Indices : Kept(f)' => Kept(f)
    BY <1>25 DEF KeptShrinks, ClearCommitMarker, DeleteFromTable, Step
  <2>4. nextIndex' = nextIndex \/ nextIndex' = victim
    BY <1>25 DEF DeleteFromTable
  <2>5. indexInfo' = indexInfo \/ indexInfo'.next = nextIndex'
    BY <1>25 DEF DeleteFromTable
  <2> QED
    BY <1>a, <2>1, <2>2, <2>3, <2>4, <2>5 DEF NextOK
<1>26. CASE ExceptRootRest /\ UNCHANGED <<failSafe, queue, handler, crashes, overlapped>>
  BY <1>26, <1>a, <1>b, <1>c DEF ExceptRootRest, Step, ControlOK, NextOK, Unlisted,
       KeptShrinks, Writing, CommitSteps, DeleteSteps
<1>27. CASE RevertRest /\ UNCHANGED <<failSafe, queue, handler, crashes, overlapped>>
  BY <1>27, <1>a, <1>b, <1>c DEF RevertRest, Step, Reverted, ControlOK, NextOK, Unlisted,
       KeptShrinks, Writing, CommitSteps, DeleteSteps
<1>28. CASE StoreCommitMarker /\ UNCHANGED <<failSafe, queue, handler, crashes, overlapped>>
  <2>0. handler = "complete" /\ pc = "marker" /\ pc' = "metadata" /\ committing = 0
    BY <1>28 DEF StoreCommitMarker, Step, TypeOK, ControlOK, Handlers, Writing, CommitSteps,
         DeleteSteps
  <2>1. /\ pendingIndex \in Indices /\ committing' = pendingIndex
        /\ UNCHANGED <<nextIndex, indexInfo, opCerts>>
        /\ "kIsAddPending" \in flags' <=> "kIsAddPending" \in flags
    BY <1>28, <2>0 DEF StoreCommitMarker, CommitOK, CommitStarts
  <2>2. InDoubt = 0 /\ ~Deleting
    BY <2>0 DEF InDoubt, MarkerOK, Deleting, DeleteSteps
  <2>3. \A f \in Indices : Kept(f)' => Kept(f)
    BY <2>0 DEF KeptShrinks, ClearCommitMarker, Step
  <2>4. \/ opCerts.index # pendingIndex \/ opCerts.noc = None \/ "kIsAddPending" \in flags
        \/ Kept(pendingIndex)
    <3>1. SUFFICES ASSUME opCerts.index = pendingIndex, opCerts.noc # None, "kIsAddPending" \notin flags
                   PROVE  Kept(pendingIndex)
      OBVIOUS
    <3>2. ("kIsAddPending" \in flags) # ("kIsUpdatePending" \in flags)
      BY <2>0 DEF CommitOK, CommitStarts
    <3>3. stored[pendingIndex].noc # None /\ stored[pendingIndex].rcac # None /\ pendingIndex \in Live
      BY <2>1, <3>1, <3>2, NocFields DEF CertsOK, StrayNoc, TypeOK, PendingCerts, Live
    <3> QED
      BY <1>a, <2>1, <2>2, <3>3 DEF StorageOK, Kept
  <2> QED
    BY <1>a, <2>0, <2>1, <2>3, <2>4 DEF NextOK, Unlisted
<1>29. CASE StoreFabricMetadata /\ UNCHANGED <<failSafe, queue, handler, crashes, overlapped>>
  <2>1. pc \in Writing \ {"commitFailed"} /\ (~failed' => ~failed) /\ UNCHANGED <<nextIndex, indexInfo, committing, flags>>
    BY <1>29 DEF StoreFabricMetadata, Step, Writing, CommitSteps, DeleteSteps
  <2>2. Unlisted \/ failed' => Unlisted' \/ failed'
    BY <1>29 DEF StoreFabricMetadata, Step, Unlisted
  <2>3. \A f \in Indices : Kept(f)' => Kept(f)
    BY <1>29 DEF KeptShrinks, ClearCommitMarker, StoreFabricMetadata, Step
  <2> QED
    BY <1>a, <2>1, <2>2, <2>3 DEF NextOK
<1>30. CASE CommitOpKeypairForFabric /\ UNCHANGED <<failSafe, queue, handler, crashes, overlapped>>
  <2>1. pc \in Writing \ {"commitFailed"} /\ (~failed' => ~failed) /\ UNCHANGED <<nextIndex, indexInfo, committing, flags>>
    BY <1>30 DEF CommitOpKeypairForFabric, Step, Writing, CommitSteps, DeleteSteps
  <2>2. Unlisted \/ failed' => Unlisted' \/ failed'
    BY <1>30 DEF CommitOpKeypairForFabric, Step, Unlisted
  <2>3. \A f \in Indices : Kept(f)' => Kept(f)
    BY <1>30 DEF KeptShrinks, ClearCommitMarker, CommitOpKeypairForFabric, Step
  <2> QED
    BY <1>a, <2>1, <2>2, <2>3 DEF NextOK
<1>31. CASE CommitNoc /\ UNCHANGED <<failSafe, queue, handler, crashes, overlapped>>
  <2>1. pc \in Writing \ {"commitFailed"} /\ (~failed' => ~failed) /\ UNCHANGED <<nextIndex, indexInfo, committing, flags>>
    BY <1>31 DEF CommitNoc, Step, Writing, CommitSteps, DeleteSteps
  <2>2. Unlisted \/ failed' => Unlisted' \/ failed'
    BY <1>31 DEF CommitNoc, Step, Unlisted
  <2>3. \A f \in Indices : Kept(f)' => Kept(f)
    BY <1>31 DEF KeptShrinks, ClearCommitMarker, CommitNoc, Step
  <2> QED
    BY <1>a, <2>1, <2>2, <2>3 DEF NextOK
<1>32. CASE CommitIcac /\ UNCHANGED <<failSafe, queue, handler, crashes, overlapped>>
  <2>1. pc \in Writing \ {"commitFailed"} /\ (~failed' => ~failed) /\ UNCHANGED <<nextIndex, indexInfo, committing, flags>>
    BY <1>32 DEF CommitIcac, Step, Writing, CommitSteps, DeleteSteps
  <2>2. Unlisted \/ failed' => Unlisted' \/ failed'
    BY <1>32 DEF CommitIcac, Step, Unlisted
  <2>3. \A f \in Indices : Kept(f)' => Kept(f)
    BY <1>32 DEF KeptShrinks, ClearCommitMarker, CommitIcac, Step
  <2> QED
    BY <1>a, <2>1, <2>2, <2>3 DEF NextOK
<1>33. CASE CommitRcac /\ UNCHANGED <<failSafe, queue, handler, crashes, overlapped>>
  <2>1. pc \in Writing \ {"commitFailed"} /\ (~failed' => ~failed) /\ UNCHANGED <<nextIndex, indexInfo, committing, flags>>
    BY <1>33 DEF CommitRcac, Step, Writing, CommitSteps, DeleteSteps
  <2>2. Unlisted \/ failed' => Unlisted' \/ failed'
    BY <1>33 DEF CommitRcac, Step, Unlisted
  <2>3. \A f \in Indices : Kept(f)' => Kept(f)
    BY <1>33 DEF KeptShrinks, ClearCommitMarker, CommitRcac, Step
  <2> QED
    BY <1>a, <2>1, <2>2, <2>3 DEF NextOK
<1>34. CASE CommitFabricIndexInfo /\ UNCHANGED <<failSafe, queue, handler, crashes, overlapped>>
  <2>0. committing \in Indices /\ pc = "index" /\ pc' = "finish"
    BY <1>34, CommitIndex DEF CommitFabricIndexInfo, Step, Writing, CommitSteps, DeleteSteps
  <2>1. \A f \in Indices : Kept(f)' => Kept(f)
    BY <2>0 DEF KeptShrinks, ClearCommitMarker, Step
  <2>2. committing \in Live /\ committing' = committing
    BY <1>34, <2>0 DEF CommitFabricIndexInfo, CommitOK, CommitSources, Live, Writing,
         CommitSteps, DeleteSteps
  <2>3. CASE "kIsAddPending" \notin flags
    <3>1. UNCHANGED <<nextIndex, indexInfo, failed>>
      BY <1>34, <2>3 DEF CommitFabricIndexInfo
    <3>2. ~failed => committing \notin {nextIndex, indexInfo.next}
      BY <2>0, <2>3 DEF NextOK, Unlisted, Writing, CommitSteps, DeleteSteps
    <3> QED
      BY <1>a, <2>1, <2>2, <3>1, <3>2 DEF NextOK
  <2>4. CASE "kIsAddPending" \in flags
    <3>1. nextIndex' = NextFree(nextIndex, Live)
      BY <1>34, <2>4 DEF CommitFabricIndexInfo
    <3>2. nextIndex' = 0 \/ (nextIndex' \in Indices /\ nextIndex' \notin Live)
      BY <1>a, <3>1, NextFreeIsFree
    <3>3. (indexInfo' = indexInfo /\ failed') \/ indexInfo'.next = nextIndex'
      <4>1. PICK ok \in Outcome("index") :
               /\ indexInfo' = IF ok THEN [next |-> nextIndex', list |-> Live] ELSE indexInfo
               /\ failed' = (failed \/ ~ok)
        BY <1>34, <2>4 DEF CommitFabricIndexInfo
      <4> QED
        BY <4>1
    <3> QED
      BY <1>a, <1>b, <2>0, <2>1, <2>2, <3>2, <3>3 DEF NextOK
  <2> QED
    BY <2>3, <2>4
<1>35. CASE CommitFinish /\ UNCHANGED <<failSafe, queue, handler, crashes, overlapped>>
  BY <1>35, <1>a, <1>b, <1>c DEF CommitFinish, Step, ControlOK, NextOK, Unlisted, KeptShrinks,
       Writing, CommitSteps, DeleteSteps
<1>36. CASE CommitFailed /\ UNCHANGED <<failSafe, queue, handler, crashes, overlapped>>
  <2>1. failed /\ failed' = failed /\ UNCHANGED <<nextIndex, indexInfo>>
    BY <1>36 DEF CommitFailed, Step, TypeOK, ControlOK, Handlers, Writing, CommitSteps,
         DeleteSteps
  <2>2. \A f \in Indices : Kept(f)' => Kept(f)
    BY <2>1 DEF KeptShrinks
  <2> QED
    BY <1>a, <2>1, <2>2 DEF NextOK
<1>37. CASE ClearCommitMarker /\ UNCHANGED <<failSafe, queue, handler, crashes, overlapped>>
  <2>0. committing \in Indices /\ pc = "clearMarker" /\ pc' = "returned"
    BY <1>37, CommitIndex DEF ClearCommitMarker, Step, Writing, CommitSteps, DeleteSteps
  <2>1. ~failed => committing \notin {nextIndex, indexInfo.next}
    BY <2>0 DEF NextOK, Unlisted, Writing, CommitSteps, DeleteSteps
  <2>2. UNCHANGED <<nextIndex, indexInfo>>
    BY <1>37 DEF ClearCommitMarker
  <2>3. \A f \in Indices : Kept(f)' => Kept(f) \/ (~failed /\ f = committing)
    BY DEF KeptShrinks
  <2> QED
    BY <1>a, <2>0, <2>1, <2>2, <2>3 DEF NextOK, Writing, CommitSteps, DeleteSteps
<1> QED
  BY <1>1, <1>2, <1>3, <1>4, <1>5, <1>6, <1>7, <1>8, <1>9, <1>10, <1>11, <1>12, <1>13, <1>14,
       <1>15, <1>16, <1>17, <1>18, <1>19, <1>20, <1>21, <1>22, <1>23, <1>24, <1>25, <1>26,
       <1>27, <1>28, <1>29, <1>30, <1>31, <1>32, <1>33, <1>34, <1>35, <1>36, <1>37 DEF Next,
       Command, PostedWork, HandlerReturns, TableRuns, TableStep

\* Every step keeps the clean-up away from what is installed.
LEMMA SparesStep ==
    ASSUME TypeOK, ControlOK, MarkerOK, QueueOK, StorageOK, CommitOK, SparesOK, KeptShrinks, Next
    PROVE  SparesOK'
<1> USE FabricAssumption DEF memory, storage, control, tableVars
<1>a. queue # <<>> /\ Head(queue).type = "cleanup" /\ Head(queue).addNoc => Head(queue).fabric \in Indices
  BY CleanupIsHead
<1>b. ClearCommitMarker =>
        /\ pc = "clearMarker" /\ handler = "complete" /\ queue = <<>>
        /\ pc' = "returned" /\ failed' = failed
  BY CommitIndex DEF ClearCommitMarker, Step, QueueOK, Writing, CommitSteps, DeleteSteps
<1>c. \A f \in Indices : Kept(f)' => Kept(f) \/ (pc = "clearMarker" /\ handler = "complete" /\ queue = <<>>
                                               /\ pc' = "returned" /\ ~failed')
  BY <1>b DEF KeptShrinks
<1>d. failSafe \in FailSafes /\ (handler = "idle" <=> pc = "idle")
  BY DEF TypeOK, ControlOK
<1>1. ASSUME NEW a \in Accessing, ArmFailSafe(a) PROVE SparesOK'
  <2>1. queue = <<>> /\ queue' = <<>> /\ handler = "idle" /\ pc = "idle"
    BY <1>1, <1>d DEF ArmFailSafe, Ready, QueueOK
  <2>2. failSafe'.addNoc => failSafe.addNoc /\ failSafe'.fabric = failSafe.fabric
    BY <1>1, FailSafeFields DEF ArmFailSafe, QueueOK, TypeOK, FailSafes
  <2> QED
    BY <1>c, <2>1, <2>2 DEF SparesOK
<1>2. ASSUME NEW a \in Accessing, NEW u \in BOOLEAN, CSRRequest(a, u) PROVE SparesOK'
  BY <1>2, <1>a, <1>c, <1>d DEF CSRRequest, Ready, IsFailSafeArmed, NocCommandHasBeenInvoked,
       AllocatePendingOperationalKey, CanSetPendingIndex, SparesOK
<1>3. ASSUME NEW a \in Accessing, NEW r \in Roots, AddTrustedRootCertificate(a, r) PROVE SparesOK'
  <2>1. queue = <<>> /\ queue' = <<>> /\ handler = "idle" /\ pc = "idle"
    BY <1>3, <1>d DEF AddTrustedRootCertificate, Ready, IsFailSafeArmed, QueueOK
  <2>2. failSafe'.addNoc = failSafe.addNoc /\ failSafe'.fabric = failSafe.fabric
    BY <1>3 DEF AddTrustedRootCertificate, TypeOK, FailSafes
  <2> QED
    BY <1>c, <2>1, <2>2 DEF SparesOK
<1>4. ASSUME NEW a \in Accessing, NEW noc \in Nocs, AddNOC(a, noc) PROVE SparesOK'
  <2> DEFINE g == EnsuredNext(nextIndex, Live)
  <2>1. g \in Indices /\ stored'[g].noc = None
    BY <1>4, EnsuredNextRange DEF AddNOC, AddNewPendingFabric, CanAddFabric, TypeOK
  <2>2. failSafe'.fabric = g
    BY <1>4 DEF AddNOC, AddNewPendingFabric, TypeOK, FailSafes
  <2>3. queue = <<>> /\ queue' = <<>>
    BY <1>4 DEF AddNOC, CanAddNOC, Ready, IsFailSafeArmed, QueueOK
  <2> HIDE DEF g
  <2> QED
    BY <2>1, <2>2, <2>3 DEF SparesOK, Kept, Loadable
<1>5. ASSUME NEW a \in Accessing, NEW noc \in Nocs, AddNOCUndone(a, noc) PROVE SparesOK'
  BY <1>5, <1>a, <1>c, <1>d DEF AddNOCUndone, Ready, IsFailSafeArmed,
       NocCommandHasBeenInvoked, CanAddNOC, CanAddFabric, CanSetPendingIndex, Activated,
       SparesOK
<1>6. ASSUME NEW a \in Accessing, NEW noc \in Nocs, UpdateNOC(a, noc) PROVE SparesOK'
  <2>1. queue = <<>> /\ queue' = <<>> /\ handler = "idle" /\ pc = "idle"
    BY <1>6, <1>d DEF UpdateNOC, Ready, IsFailSafeArmed, QueueOK
  <2>2. failSafe'.addNoc = failSafe.addNoc /\ failSafe'.fabric = failSafe.fabric
    BY <1>6 DEF UpdateNOC, TypeOK, FailSafes
  <2> QED
    BY <1>c, <2>1, <2>2 DEF SparesOK
<1>7. ASSUME NEW a \in Accessing, NEW l \in Labels, UpdateFabricLabel(a, l) PROVE SparesOK'
  BY <1>7, <1>a, <1>c, <1>d DEF UpdateFabricLabel, Ready, IsFailSafeArmed,
       NocCommandHasBeenInvoked, SetFabricLabel, FindFabricWithIndex, HasPendingFabricUpdate,
       SparesOK
<1>8. ASSUME NEW a \in Accessing, CommissioningComplete(a) PROVE SparesOK'
  BY <1>8, <1>a, <1>c, <1>d DEF CommissioningComplete, Ready, IsFailSafeArmed,
       NocCommandHasBeenInvoked, CommitPendingFabricData, Reverted, OnlyNewRoot, InvalidState,
       Disarmed, SparesOK
<1>9. ASSUME NEW f \in Indices, RemoveFabric(f) PROVE SparesOK'
  BY <1>9, <1>a, <1>c, <1>d DEF RemoveFabric, Ready, Delete, Reverted, SparesOK
<1>10. CASE FailSafeTimerExpired
  <2>1. queue = <<>> /\ handler = "idle" /\ pc = "idle"
    BY <1>10, <1>d DEF FailSafeTimerExpired, QueueOK, Ready
  <2>2. queue' = <<CleanupItem(failSafe.fabric, failSafe.addNoc), DisarmItem>>
    BY <1>10, <2>1 DEF FailSafeTimerExpired, ScheduleFailSafeCleanup, CleanupItem, DisarmItem
  <2>3. Head(queue') = CleanupItem(failSafe.fabric, failSafe.addNoc)
    BY <2>2
  <2>4. failSafe'.addNoc = failSafe.addNoc /\ failSafe'.fabric = failSafe.fabric
    BY <1>10 DEF FailSafeTimerExpired, ScheduleFailSafeCleanup, TypeOK, FailSafes
  <2>5. failSafe.addNoc => failSafe.fabric \in Indices /\ ~Kept(failSafe.fabric)'
    BY <1>c, <2>1, <2>4 DEF SparesOK
  <2>6. Head(queue').fabric = failSafe.fabric /\ Head(queue').addNoc = failSafe.addNoc
    BY <2>3, CleanupKind
  <2> QED
    BY <2>4, <2>5, <2>6 DEF SparesOK
<1>11. CASE FailSafeCleanup
  BY <1>11, <1>a, <1>c, <1>d DEF FailSafeCleanup, RevertPendingFabricData,
       RevertPendingOpCertsExceptRoot, SparesOK
<1>12. CASE HandleDisarmFailSafe
  <2>1. queue' = <<>> \/ queue' = <<ClearItem>>
    BY <1>12, DisarmIsHead DEF HandleDisarmFailSafe
  <2>2. queue' # <<>> => Head(queue').type = "clearMarker"
    BY <2>1, ItemKinds
  <2> QED
    BY <1>12, <2>2 DEF HandleDisarmFailSafe, Disarmed, SparesOK
<1>13. CASE ClearMarkerAfterCleanup
  <2>1. queue' = <<>>
    BY <1>13, ClearIsHead DEF ClearMarkerAfterCleanup
  <2> QED
    BY <1>13, <1>c, <1>d, <2>1 DEF ClearMarkerAfterCleanup, SparesOK
<1>14. CASE CommandReturns
  BY <1>14, <1>a, <1>c, <1>d DEF CommandReturns, Return, Finished, SparesOK
<1>15. CASE CommissioningCompleteReturns
  BY <1>15, <1>a, <1>c, <1>d DEF CommissioningCompleteReturns, Return, Finished, Disarmed,
       SparesOK
<1>16. CASE CleanupReverted
  <2>1. queue # <<>> /\ Head(queue).type = "cleanup" /\ handler = "cleanup" /\ pc = "returned"
    BY <1>16 DEF CleanupReverted, Return, QueueOK
  <2>2. queue' = queue \/ Head(queue').type = "disarm"
    <3>1. queue' = queue \/ queue' = <<DisarmItem>> \/ queue' = <<DisarmItem, ClearItem>>
      BY <1>16, <2>1, CleanupIsHead DEF CleanupReverted
    <3> QED
      BY <3>1, ItemKinds
  <2>3. failSafe' = failSafe
    BY <1>16 DEF CleanupReverted
  <2> QED
    BY <1>a, <1>c, <2>1, <2>2, <2>3 DEF SparesOK
<1>17. CASE CleanupReturns
  <2>1. queue # <<>> /\ Head(queue).type = "cleanup" /\ handler = "cleanupDelete" /\ pc = "returned"
    BY <1>17 DEF CleanupReturns, Return, QueueOK
  <2>2. Head(queue').type = "disarm"
    <3>1. queue' = <<DisarmItem>> \/ queue' = <<DisarmItem, ClearItem>>
      BY <1>17, <2>1, CleanupIsHead DEF CleanupReturns
    <3> QED
      BY <3>1, ItemKinds
  <2>3. failSafe' = failSafe
    BY <1>17 DEF CleanupReturns
  <2> QED
    BY <1>c, <2>1, <2>2, <2>3 DEF SparesOK
<1>18. CASE ServerInitReturns
  <2>1. handler = "boot" /\ pc = "returned" /\ victim = marker /\ committing = 0 /\ queue = <<>>
    BY <1>18 DEF ServerInitReturns, Return, MarkerOK, ControlOK, QueueOK, TypeOK
  <2>2. failSafe'.addNoc = failSafe.addNoc /\ failSafe'.fabric = failSafe.fabric
    BY <1>18 DEF ServerInitReturns, TypeOK, FailSafes
  <2>3. queue' # <<>> => Head(queue').fabric = marker
    BY <1>18, <2>1 DEF ServerInitReturns
  <2>4. InDoubt' = marker
    BY <1>18, <2>1 DEF ServerInitReturns, Finished, InDoubt
  <2> QED
    BY <1>c, <2>1, <2>2, <2>3, <2>4 DEF SparesOK, Kept
<1>19. CASE Crash
  BY <1>19, <1>a, <1>c, <1>d DEF Crash, TableRestart, Reverted, Disarmed, SparesOK
<1>20. CASE DeleteMetadataFromStorage /\ UNCHANGED <<failSafe, queue, handler, crashes, overlapped>>
  BY <1>20, <1>a, <1>c, <1>d DEF DeleteMetadataFromStorage, Step, SparesOK
<1>21. CASE RemoveOpKeypairForFabric /\ UNCHANGED <<failSafe, queue, handler, crashes, overlapped>>
  BY <1>21, <1>a, <1>c, <1>d DEF RemoveOpKeypairForFabric, Step, SparesOK
<1>22. CASE RemoveOpCertsForFabric /\ UNCHANGED <<failSafe, queue, handler, crashes, overlapped>>
  BY <1>22, <1>a, <1>c, <1>d DEF RemoveOpCertsForFabric, Step, SparesOK
<1>23. CASE DeleteIcac /\ UNCHANGED <<failSafe, queue, handler, crashes, overlapped>>
  BY <1>23, <1>a, <1>c, <1>d DEF DeleteIcac, Step, SparesOK
<1>24. CASE DeleteRcac /\ UNCHANGED <<failSafe, queue, handler, crashes, overlapped>>
  BY <1>24, <1>a, <1>c, <1>d DEF DeleteRcac, Step, SparesOK
<1>25. CASE DeleteFromTable /\ UNCHANGED <<failSafe, queue, handler, crashes, overlapped>>
  BY <1>25, <1>a, <1>c, <1>d DEF DeleteFromTable, Step, SparesOK
<1>26. CASE ExceptRootRest /\ UNCHANGED <<failSafe, queue, handler, crashes, overlapped>>
  BY <1>26, <1>a, <1>c, <1>d DEF ExceptRootRest, Step, SparesOK
<1>27. CASE RevertRest /\ UNCHANGED <<failSafe, queue, handler, crashes, overlapped>>
  BY <1>27, <1>a, <1>c, <1>d DEF RevertRest, Step, Reverted, SparesOK
<1>28. CASE StoreCommitMarker /\ UNCHANGED <<failSafe, queue, handler, crashes, overlapped>>
  BY <1>28, <1>a, <1>c, <1>d DEF StoreCommitMarker, Step, SparesOK
<1>29. CASE StoreFabricMetadata /\ UNCHANGED <<failSafe, queue, handler, crashes, overlapped>>
  BY <1>29, <1>a, <1>c, <1>d DEF StoreFabricMetadata, Step, SparesOK
<1>30. CASE CommitOpKeypairForFabric /\ UNCHANGED <<failSafe, queue, handler, crashes, overlapped>>
  BY <1>30, <1>a, <1>c, <1>d DEF CommitOpKeypairForFabric, Step, SparesOK
<1>31. CASE CommitNoc /\ UNCHANGED <<failSafe, queue, handler, crashes, overlapped>>
  BY <1>31, <1>a, <1>c, <1>d DEF CommitNoc, Step, SparesOK
<1>32. CASE CommitIcac /\ UNCHANGED <<failSafe, queue, handler, crashes, overlapped>>
  BY <1>32, <1>a, <1>c, <1>d DEF CommitIcac, Step, SparesOK
<1>33. CASE CommitRcac /\ UNCHANGED <<failSafe, queue, handler, crashes, overlapped>>
  BY <1>33, <1>a, <1>c, <1>d DEF CommitRcac, Step, SparesOK
<1>34. CASE CommitFabricIndexInfo /\ UNCHANGED <<failSafe, queue, handler, crashes, overlapped>>
  BY <1>34, <1>a, <1>c, <1>d DEF CommitFabricIndexInfo, Step, SparesOK
<1>35. CASE CommitFinish /\ UNCHANGED <<failSafe, queue, handler, crashes, overlapped>>
  BY <1>35, <1>a, <1>c, <1>d DEF CommitFinish, Step, SparesOK
<1>36. CASE CommitFailed /\ UNCHANGED <<failSafe, queue, handler, crashes, overlapped>>
  BY <1>36, <1>a, <1>c, <1>d DEF CommitFailed, Step, Reverted, SparesOK
<1>37. CASE ClearCommitMarker /\ UNCHANGED <<failSafe, queue, handler, crashes, overlapped>>
  BY <1>37, <1>a, <1>c, <1>d DEF ClearCommitMarker, Step, SparesOK
<1> QED
  BY <1>1, <1>2, <1>3, <1>4, <1>5, <1>6, <1>7, <1>8, <1>9, <1>10, <1>11, <1>12, <1>13, <1>14,
       <1>15, <1>16, <1>17, <1>18, <1>19, <1>20, <1>21, <1>22, <1>23, <1>24, <1>25, <1>26,
       <1>27, <1>28, <1>29, <1>30, <1>31, <1>32, <1>33, <1>34, <1>35, <1>36, <1>37 DEF Next,
       Command, PostedWork, HandlerReturns, TableRuns, TableStep

-----------------------------------------------------------------------------
(* The parts together.                                                     *)

IndInv ==
    /\ TypeOK /\ ControlOK /\ MarkerOK /\ QueueOK /\ PendingOK
    /\ CertsOK /\ StorageOK /\ CommitOK /\ NextOK /\ SparesOK

\* A device without fabrics and without a fail-safe satisfies the invariant.
LEMMA InitIndInv == Init => IndInv
<1> SUFFICES ASSUME Init PROVE IndInv
  OBVIOUS
<1> USE FabricAssumption DEF Init, TableInit
<1>1. 1 \in Indices /\ 0 \notin Indices
  BY DEF Indices
<1>2. \A f \in Indices : stored[f].meta = None /\ states[f] = None
  BY DEF Blank
<1>3. \A f \in Indices : ~Kept(f)
  BY <1>2 DEF Kept, Loadable
<1>4. TypeOK
  <2>1. Blank \in StoredFabrics /\ indexInfo \in IndexInfos
    BY <1>1 DEF Blank, StoredFabrics, IndexInfos
  <2>2. opCerts \in PendingCerts /\ opKey \in PendingKeys /\ failSafe \in FailSafes
    BY EmptyRecords
  <2>3. stored \in [Indices -> StoredFabrics] /\ states \in [Indices -> Entries \cup {None}]
    BY <2>1
  <2>4. queue \in Seq(Items) /\ crashes \in 0..MaxCrashes
    BY CrashAssumption
  <2> QED
    BY <1>1, <2>1, <2>2, <2>3, <2>4 DEF TypeOK, Steps, Handlers
<1>5. ControlOK /\ MarkerOK
  BY DEF ControlOK, MarkerOK, Deleting, DeleteSteps, Writing, CommitSteps
<1>6. QueueOK
  BY DEF QueueOK, Disarmed
<1>7. PendingOK /\ CertsOK
  BY DEF PendingOK, CertsOK, NocClear, StrayNoc, NoKey, NoCerts
<1>8. StorageOK
  BY <1>2 DEF StorageOK, Loadable, Live, Gone, DeleteSteps
<1>9. CommitOK
  BY DEF CommitOK, CommitStarts, CommitSources, CommitWritten, CommitUndone, Writing, CommitSteps
<1>10. NextOK /\ SparesOK
  BY <1>1, <1>3 DEF NextOK, SparesOK, Writing, CommitSteps, Disarmed
<1> QED
  BY <1>4, <1>5, <1>6, <1>7, <1>8, <1>9, <1>10 DEF IndInv

\* Every step preserves the invariant.
LEMMA NextIndInv == IndInv /\ [Next]_vars => IndInv'
<1>1. ASSUME IndInv, Next PROVE IndInv'
  <2>1. TypeOK'
    BY <1>1, TypeStep DEF IndInv
  <2>2. ControlOK' /\ MarkerOK' /\ QueueOK'
    BY <1>1, ControlStep, MarkerStep, QueueStep DEF IndInv
  <2>3. PendingOK' /\ CertsOK'
    BY <1>1, PendingStep, CertsStep DEF IndInv
  <2>4. CommitOK' /\ StorageOK'
    BY <1>1, CommitStep, StorageStep DEF IndInv
  <2>5. NextOK' /\ SparesOK'
    BY <1>1, KeptStep, NextStep, SparesStep DEF IndInv
  <2> QED
    BY <2>1, <2>2, <2>3, <2>4, <2>5 DEF IndInv
<1>2. ASSUME IndInv, UNCHANGED vars PROVE IndInv'
  <2> USE <1>2 DEF IndInv, vars, memory, storage, control
  <2>1. TypeOK'
    BY DEF TypeOK
  <2>2. ControlOK' /\ MarkerOK'
    BY DEF ControlOK, MarkerOK, Deleting
  <2>3. QueueOK'
    BY DEF QueueOK, ExpiryWork, RecoveryWork, RecoveryItem
  <2>4. PendingOK' /\ CertsOK'
    BY DEF PendingOK, CertsOK, NocClear, StrayNoc
  <2>5. StorageOK'
    BY DEF StorageOK, InDoubt, Loadable, Complete, InUse, Gone, Live, Deleting
  <2>6. CommitOK'
    BY DEF CommitOK, CommitStarts, CommitSources, CommitWritten, CommitUndone, Unlisted, Gone,
           Complete, InUse, FindFabricWithIndex, HasPendingFabricUpdate, HasOpKeypairForFabric
  <2>7. NextOK' /\ SparesOK'
    BY DEF NextOK, SparesOK, Kept, InDoubt, Loadable, Unlisted
  <2> QED
    BY <2>1, <2>2, <2>3, <2>4, <2>5, <2>6, <2>7
<1> QED
  BY <1>1, <1>2

\* The invariant holds in every reachable state.
THEOREM Invariance == Spec => []IndInv
  BY InitIndInv, NextIndInv, PTL DEF Spec
=============================================================================
