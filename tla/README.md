# TLA+ models of the Matter SDK and its fuzzer

This directory is a verification development for the repository beside it: a
fork of the Matter SDK (connectedhomeip, C++) that adds a grammar-free fuzzer of
Matter devices to `chip-tool`. It holds TLA+ modules translated from the code,
TLC configurations that check them on small instances, and TLAPS proofs for all
values of the constants. `PROJECT.json` lists the components, the runs, the
lines each definition models, the hazards the properties are aimed at, and the
theorems.

SDK paths below are relative to `src/src/`; `fuzzing/` abbreviates
`src/examples/chip-tool/commands/fuzzing/`.

## 1. Inventory

| Part | State | Operations | What makes it correct |
|---|---|---|---|
| Persisted counter (`lib/support/PersistedCounter.h`) | value in RAM, `mNextEpoch` in RAM, start of the next epoch in flash | `Init`, `Advance`, `AdvanceBy` | no value is used twice over reboots and failed writes |
| Event numbers (`app/EventManagement.cpp`) | `mLastEventNumber`, circular buffers | `Init`, `LogEvent`, `VendEventNumber`, fetch | numbers of events grow over all boots |
| Check-In counter (`protocols/secure_channel/CheckInCounter.cpp`, users in `app/icd/server/ICDManager.cpp`) | a persisted counter that may roll over | send, invalidate half or all values | no value is sent twice before a rollover |
| Group message counters (`transport/GroupPeerMessageCounter.cpp`) | a control and a data counter in RAM, a reservation for each in flash | `Init`, `IncrementCounter` | no value is used twice over reboots and failed writes |
| Peer message counter (`transport/PeerMessageCounter.h`) | highest counter, bitmap of the 32 below it | verify, commit; three modes | no message accepted twice, none refused that is new and in the window |
| Exchange layer, MRP (`messaging/`) | pool of exchange contexts, retransmission table, ack and response timers | send, receive, ack, retransmit, time out, close, abort | at-most-once delivery, truthful acks, contexts released once and in the end |
| Secure session (`transport/SecureSession.cpp`), session table, holders | state of a session, its local counter | mark defunct/active, evict, shift | nobody uses a session that is gone |
| Session manager (`transport/SessionManager.cpp`) | sessions, group and unauthenticated peers | prepare, send, receive | counter checks are made in the right order |
| Session establishment (`CASESession`, `PASESession`, `CASEServer`, `OperationalSessionSetup`) | handshake states, retries | handshake steps | both ends agree, a busy responder recovers |
| Fabrics (`credentials/FabricTable.cpp`, `PersistentStorageOpCertStore.cpp`, `crypto/PersistentStorageOperationalKeystore.cpp`) | fabrics in use, pending key, root and NOC; keys, certificates, metadata, index list and commit marker in flash | add, update, commit, revert, delete, load | a restart between any two writes leaves a complete credential or none |
| Fail-safe and commissioning (`app/FailSafeContext.cpp`, the Operational Credentials and General Commissioning clusters, `app/server/Server.cpp`) | the armed fail-safe and what was done under it, posted clean-up | arm, expire, CSR, root, AddNOC, UpdateNOC, remove, complete | whatever is pending is committed or undone, and only that |
| Interaction model server (`app/ReadHandler.cpp`, `app/reporting/`, `app/InteractionModelEngine.cpp`) | pool of read handlers with their generations and iterators, set of dirty paths, reports in flight, timers; command, write and timed handlers | read, subscribe, report in chunks, confirm, evict, mark dirty, log urgent events; invoke, write | every change is reported, within the intervals, coherently per cluster |
| Interaction model client (`app/ReadClient.cpp`, `CommandSender.cpp`, `WriteClient.cpp`) | requests under way, subscriptions | send, receive, resubscribe | one end for every request |
| ICD management (`app/icd/`) | operating mode, keep-active bits, registrations | mode changes, check-ins | stays active while needed |
| BDX (`protocols/bdx/`) | transfer session | negotiate, blocks, end | blocks in order |
| Fuzzer: contexts and the test loop (`fuzzing/ContextManager.cpp`, `FuzzingCommands.cpp`, `commands/common/CHIPCommand.cpp`, `commands/clusters/ClusterCommand.h`) | current `FuzzerContext`, the command object's status, senders and wait flag, the event loop's queue | run command, wait, clean up, wait for reports, close; callbacks of senders and subscriptions | an answer is recorded for the command that caused it, no command hangs |
| Fuzzer: statistics (`fuzzing/StatsMonitor.cpp`) | subscription timeouts per path, tallies | count, reset, silence a path | a path without reports stops costing time |
| Fuzzer: tuner, device state tracker, generators, logs | message order, copy of the data model, random input, files | - | see section 8 |
| Crypto, transports, platforms, clusters, generated code, examples | - | - | outside the development |

How the parts interact. A message that arrives at `SessionManager` is decrypted,
verified against the peer message counter of its session, marked as a duplicate
or committed, and handed to `ExchangeManager`, which finds or creates an
`ExchangeContext`. That context treats the acks the message carries and asks for
(`ReliableMessageContext`), and gives a new message to the application, whose
answer takes the same way back through `ExchangeMessageDispatch`,
`ReliableMessageMgr` and the session's own message counter. Timers of
`ReliableMessageMgr` and of the context run between messages on the same event
loop. A session that is evicted tells its exchanges through
`SessionHolder::SessionReleased`. The event counter and the Check-In counter are
independent clients of `PersistedCounter` and meet only storage. The cluster
commands of a commissioning change the fabric table under a fail-safe whose
expiry posts its clean-up to the event loop; the table writes flash in several
steps, and `Server::Init` finishes what a restart cut off. A change of an
attribute, from any cluster, marks paths dirty in the reporting engine, which
asks the scheduler when each subscription may report and is posted to the event
loop to build the reports. The fuzzer is a
client at the other end of this stack: a command thread that queues work on the
event loop and blocks on a condition variable, and callbacks on the event loop
that fill the context the command thread opened.

What is hard here. Most of the SDK runs on one event loop, so the difficulties
are order and failure rather than preemption: loss, duplication and reordering
of messages, acks that race the last retransmission, sessions that vanish while
an application is about to send, pools at their limit, counters at the end of
their range, reboots between two writes, data that changes between two chunks of
a report, work that was posted under circumstances that no longer hold. The fuzzer does have two threads: its
waits time out independently of the senders they wait for, and late callbacks
meet whatever context happens to be open. `PROJECT.json` lists these hazards one
by one, at the line where each bites.

## 2. Modules

| Module | Models | Extends |
|---|---|---|
| `PersistedCounter` | `PersistedCounter<T>` and the counter below it | |
| `EventNumbers` | the event counter and its user `EventManagement` | `PersistedCounter` |
| `CheckInNumbers` | the Check-In counter and its users in `ICDManager` | `PersistedCounter` |
| `GroupOutgoingCounters` | the counters of group messages and their user `SessionManager` | |
| `PeerMessageCounter` | the replay window, as operators on a record | |
| `ReplayWindow` | one such window against a reference that forgets nothing | `PeerMessageCounter` |
| `DeviceCounters` | the four counters side by side, for TLC | the three clients, `ReplayWindow` |
| `ExchangeContext` | exchanges and MRP of one node, as operators on its state | `PeerMessageCounter` |
| `Conversation` | abstract: the ends of an exchange take turns | |
| `ReliableMessaging` | two nodes, their session, applications, timers and a network; implements `Conversation` | `ExchangeContext` |
| `MCMessaging` | application scenarios for TLC | `ReliableMessaging` |
| `FabricDirectory` | abstract: a directory of complete credentials, and one index in doubt | |
| `FabricTable` | the fabric table with its key and certificate stores, one step per write | |
| `Commissioning` | fail-safe, cluster commands, restarts; implements `FabricDirectory` | `FabricTable` |
| `Reporting` | read handlers, reporting engine, report scheduler | |
| `MCReporting` | a data model and requests for TLC | `Reporting` |
| `FuzzerContext` | the test loop, the command object, `ContextManager`, `StatsMonitor` | |
| `CommissioningInvariant` | the inductive invariant of `Commissioning` and its proof | `Commissioning`, `TLAPS` |
| `*Proofs` | theorems about the module of that name | that module, `TLAPS` |

No module uses `RECURSIVE`, so all of them can be proved about.

### Persisted counters

`storage` is the value in flash, `mCounterValue` and `mNextEpoch` are the
members of the class, `up` says that `Init()` succeeded in this boot. Every
operator takes the outcome `ok` of its storage write: as in the code,
`mNextEpoch` changes in RAM before the write is tried and stays changed if it
fails. All additions are modulo `MaxValue + 1`. `LosePower` may happen between
any two calls; a write is atomic, so a crash during one is either before or
after it. The histories `wrapped`, `unwritten` and `lostEpoch` name the two
circumstances under which the class promises nothing: an addition past the end
of the range, and a reboot inside an epoch whose start could not be written.

`EventNumbers` has `Boot`, `LogEvent` and `Reboot`. `LogEvent` is the successful
path of `LogEventPrivate`: the event gets `mLastEventNumber`, then
`VendEventNumber` advances the counter and ignores its error. A `LogEvent` that
fails earlier changes nothing. `CheckInNumbers` has `Boot`, `SendCheckInMsgs`
(the messages of one round carry value + 1, then the counter advances),
`InvalidateHalfCheckInCounterValues`, `InvalidateAllCheckInCounterValues` and
`Reboot`.

`GroupOutgoingCounters` has a discipline of its own: storage is written again
only when the counter equals the stored reservation, so a write that fails is not
repeated before the next boot. `groupLate` and `groupReused` name the one case in
which values repeat: a reboot after such a failure. The model stops at the
rollover (`groupWrapped`), from where on nothing is promised.

### Replay window

A counter's state is `synced`, `mMaxCounter` and `mWindow`, the set of bits that
are on (bit b stands for `mMaxCounter - (b + 1)`). Classification, verification
and commit are separate operators, as they are separate methods. `ReplayWindow`
runs them in the three combinations `SessionManager` uses: secure unicast
(no rollover), group (trust first, rollover), unencrypted (rollover, and a
counter below the window means that the peer restarted). Beside them it keeps
`seen`, the set of all accepted counters as integers without modulus.

### Messaging

A node's state while a handler runs is one record `s`; every method is an
operator from such a record to the next, and a handler is the composition of the
calls it makes, in their order. `ReliableMessaging` turns the handlers into
actions:

| Action | Code |
|---|---|
| `StartExchange` | `ExchangeManager::NewContext` |
| `AppSend`, `AppRelease`, `AppClose` | an application that announced a message sends it, drops its `ExchangeHolder`, or closes |
| `Receive` | `SecureUnicastMessageDispatch`, `ExchangeManager::OnMessageReceived`, `HandleMessage` and the application's reaction, in one step as on the event loop |
| `AckTimeout`, `RetransTimeout` | the two halves of `ReliableMessageMgr::ExecuteActions`, for one exchange |
| `ResponseTimeout` | `ExchangeContext::HandleResponseTimeout` |
| `EvictSession` | `SecureSession::MarkForEviction` from outside an exchange |
| `AbortAllOtherCommunicationOnFabric` | the same from inside a handler, sparing its exchange |
| `InterfaceChange` | the transport starts or stops refusing messages with a non-critical error |

A context has one reference `refs` of its own, released by `Close()` or
`Abort()`, and one more while it has an `entry` in the retransmission table; at
the end of a handler contexts without both are returned to the pool. A context
created only to acknowledge lives inside one handler and is therefore never seen
between steps.

Abstractions. `net` is the set of all messages ever sent and messages are never
taken out, so loss, delay, duplication and reordering are all covered (a full
system buffer is a loss). Timers fire at any moment while armed: back-off and
delays are left out, so nothing is claimed about time. Decryption is assumed to
accept exactly the packets the peer sent. There is one session; once evicted it
is gone when no exchange holds it. An application only sends on an exchange it
announced a message on, as `ExchangeHolder` and the delegates do. Refusing a
message, answering at once, announcing a later answer and doing nothing are all
possible reactions to every message.

Refinement. `Conversation` says what an exchange promises the applications at its
ends: they take turns. Its state is who announced a message on an exchange and
which message is still to be heard; losses, copies, acks and retransmissions are
no steps of it, and an exchange may end at any time. The mapping takes the first
from the contexts and the second from `net` and the replay window of the receiver:
a message is heard once its counter no longer verifies. `ConversationSpec` checks
that every step of `ReliableMessaging` is a step of a conversation.

### Fabrics and commissioning

`FabricTable` keeps what the three C++ classes keep: `states`, `pendingFabric`,
`flags`, `pendingIndex` and `nextIndex` of the table, the pending certificates
and the pending key of the two stores, and in flash `stored` (metadata, key, NOC,
ICAC, RCAC of every index), `indexInfo` and the commit `marker`. Commit and
deletion are sequences of writes; `pc` is the next one, so a restart can come
between any two, and the writes of `MayFail` may fail. `Commissioning` adds the
fail-safe, the event loop's queue and the commands:

| Action | Code |
|---|---|
| `ArmFailSafe`, `FailSafeTimerExpired` | `FailSafeContext`; the expiry posts clean-up and disarming |
| `CSRRequest`, `AddTrustedRootCertificate`, `AddNOC`, `UpdateNOC`, `UpdateFabricLabel`, `RemoveFabric` | the commands of the Operational Credentials cluster, with their checks and error paths |
| `CommissioningComplete` | commit, then disarm if it succeeded |
| `FailSafeCleanup`, `HandleDisarmFailSafe` | the posted work |
| `Crash`, `ServerInitReturns`, `ClearMarkerAfterCleanup` | restart: memory is lost, the table is loaded, the fabric of a marker deleted, the marker cleared by posted work |

A command is handled to its end before the next begins (one event loop); between
the expiry and its posted clean-up other commands may run. A NOC is its key, its
root and whether it needs an ICAC. Chain validation is assumed to accept exactly
matching chains.

An update has three outcomes. `UpdatePendingFabric` is the successful one;
`RefusePendingUpdate` takes the certificates back because the chain does not fit
the key. `AbandonPendingUpdate` is the error path of `FabricTable.cpp:1835`: the
NOC is already with the certificate store when `SetPendingDataFabricIndex` finds
that another index is pending, and nothing takes it back. A `CSRRequest` for a
new fabric, one for an update that fails, and an `UpdateNOC` lead there. This
stray NOC outlives `CommissioningComplete`. It goes with the next revert, expiry,
`RemoveFabric` or restart; until then `AddTrustedRootCertificate` and `UpdateNOC`
are refused, and `FetchNOCCert` would serve it for its fabric.

Refinement. `FabricDirectory` says what an administrator may rely on: for each
index a complete credential or nothing; a commit puts its index in doubt and
settles it; nothing else changes but by removal; a restart is not a step. The
mapping reads flash only: an index is `Installed` if a restart would load it and
neither marker nor running commit names it. `DirectorySpec` checks that every
write, failure and restart of `Commissioning` is a step of the directory or none.

### Reporting

A path is the set of attributes it stands for, in the order of expansion, so
`IsAttributePathSupersetOf` is inclusion and `Intersects` a common element.
Everything runs on the Matter thread. `Engine::Run` is posted (`mRunScheduled`),
then visits handlers one by one: `Run`, `SkipHandler`,
`BuildAndSendSingleReportData` or `SendFails` per handler, `RunEnds`; no other
action happens in between (`toVisit`). How much fits into a message is a choice
of `Contents`: a prefix of the due attributes and of the events, so every split
into chunks occurs, including one into which nothing fits.

| Action | Code |
|---|---|
| `OnReadInitialRequest` | a read or subscribe request gets a handler |
| `OnStatusResponse`, `OnResponseTimeout` | the answer to a report or chunk: next chunk, subscribe response, next interval; or none |
| `EvictHandler` | closed for another client, by a new subscription or with its fabric |
| `SetDirty` | an attribute or an endpoint changes: generations, iterators, dirty set |
| `UrgentEventGenerated` | an event that subscriptions call urgent is logged |
| `TimerFired`, `Tick` | the scheduler's timers; time |

A handler's record has the members of `ReadHandler` and of its `ReadHandlerNode`
(timestamps and timer count down). `unsent` is a history: the attributes whose
present value is in no report of the handler. `missed` is another: the handlers
that the run of the engine has not visited yet or, between runs, left out. A third
is `early`: since its last report, a timer of the handler fired before its time.

Timers are late as well as early. `ReportScheduler.h:84` and `:114` give clock
adjustments as the reason for `EngineRunScheduled`: a handler whose timer fires
reports whatever its timestamps say. `TimerFired` is therefore enabled as long as
a timer is armed, and sets `early` when its time has not come.

Abstractions. One path per request, with a wildcard attribute; no data version
filters and no chunks of lists; all events are urgent; attributes do not change
while a report is being built; generations do not wrap (2^32 changes within one
report). A tick is long compared with the delay of a posted run. The maximum
interval is at least 1; `ReadHandler.cpp:765` would also accept 0 for both
intervals, with which `OnSubscriptionReportSent` finds the next report due at once
and schedules a run from within the run. The negative
timeout that `CalculateNextReportTimeout` can compute after the maximum interval
wraps to seven weeks and counts as no timer.

### Fuzzer

One action is one critical section of `ContextManager`'s mutex, or one access to
the members of the command object that no mutex protects (`mCommandExitStatus`,
`mError`). The command thread goes through `StartWaiting` (initialise the
context, schedule the command), `ResponseNotified` or `ResponseTimedOut`,
`SetTimeoutStatus`, `ReadStatus`, `ScheduleCleanup`, `CleanupNotified`, then
`OnResponseTimeout`, `CommandFailed` or the wait for reports (`EnterReportWait`,
`ReportNotified`, `ReportTimedOut`), and `Close`. The event loop runs its queue
(`RunQueuedCommand`, `RunCommandCleanup`) and the callbacks: `OnDeviceConnected`
and `OnDeviceConnectionFailure`, `OnResponse`/`OnError`, then
`RequireSubscriptionReport`, `OnDone` and `NotifyResponse` of the same handler as
steps of their own, since the command thread may act between them;
`OnSubscriptionReport` comes whenever the device likes.

`mCommandSender` is the vector of senders, oldest first: `OnDone` removes the
first one, whichever finished, as the code does. `mContext.responses` records for
which command each answer was sent, which the code cannot know; it is what
`CallbacksMeetTheirContext` compares. `waitOutlastsSender` is chosen at the
start: with it, the fuzzer's `--timeout` exceeds the sender's own response
timeout, so that the wait cannot give up first. With the default of 20 s and the
usual MRP or TCP round trip times either may be longer, so both cases are
explored. Dereferencing a null `mContext`, and `VerifyOrDie`, end the process
(`alive = FALSE`).

Assumed: `ScheduleWork` does not fail (it does not on POSIX), every invoke gets
at most one well-formed answer, `CHIP_ERROR_INVALID_ARGUMENT` comes only from
parsing, one command object serves all tests ("any command-by-id"). The two-hour
deadline of the cleanup is not an action: `CommandEnds` shows that it is not
needed.

## 3. Runs

| Run | Distinct states | Properties |
|---|---|---|
| `device_counters` | 2 097 385 | `ClientInvariant`, `FreshEventNumber`, `FreshCheckInValue`, `VerifyNeverFails`, `FreshGroupCounter`, `WindowExact` |
| `messaging_faults` | 127 853 | `TypeOK`, `AtMostOnceDelivery`, `AnswerCarriesAck`, `ExchangeLifetime`, `RetransEntryHasSession`, `PendingSendKeepsContext`, `ConversationSpec` |
| `messaging_window` | 147 303 | `AckMeansReceived` |
| `messaging_ends` | 77 312 | `EveryExchangeEnds` |
| `fabric_commit` | 898 922 | `TypeOK`, `StorageIsInUse`, `UndisturbedFabricsSurviveRestart`, `NothingToCommitWhenDisarmed`, `CleanupSparesCommitted`, `NextIndexIsFree`, `DirectorySpec`, `DoubtIsSettled`, `PendingIsResolved` |
| `fabric_removal` | violation | `FabricsSurviveRestart` |
| `reporting` | 213 327 | `TypeOK`, `InFlightIsAwaiting`, `ChangesStayDirty`, `ClustersAreCoherent`, `NotBeforeMinInterval`, `SomeoneWakesTheEngine`, `EveryChangeIsReported` |
| `reporting_urgent` | violation | `UrgentEventsStayDirty` |
| `reporting_round_robin` | violation | `RunVisitsAll` |
| `fuzzer_loop` | 682 834 | `TypeOK`, `SilencedAtLimit`, `ReportsFollowResponse`, `CallbacksMeetTheirContext`, `TerminatedContextIsFrozen`, `CommandEnds` |
| `fuzzer_cleanup` | violation | `CleanupReleasesSenders` |
| `fuzzer_report_wait` | violation | `ReportWakesSender` |

Run one with `tlc -config Reporting.cfg MCReporting`; module and configuration of
each run are named in `PROJECT.json`.

What they show.

* **Counters.** Numbers are never reused although `VendEventNumber` ignores
  errors and any write may fail, short of a rollover or of a reboot inside an
  unwritten epoch. Both exceptions are needed: without either, TLC finds a
  reused number. The self-check of `PersistAndVerifyNextEpochStart` never fails
  below the rollover. Group counters stay fresh over reboots and failed writes,
  except after a reboot that follows a failed reservation, which no later
  increment repairs (`GroupPeerMessageCounter.cpp:349`).
* **Replay window.** The bitmap decides every counter exactly as a memory of all
  accepted counters would, over jumps of any size and (group, unencrypted) over
  the rollover.
* **Messaging.** A message reaches the application at most once. An ack means
  that the peer received the message, with one exception the run had to be told
  of: a message overtaken by more than a window of others counts as a duplicate
  and is acknowledged unseen. `HandleMessage` drops an answer that lacks the ack
  its receiver waits for; `AnswerCarriesAck` shows that a peer running this code
  never sends one, whatever was lost or repeated. The ends of an exchange speak in
  turn and answer a message at most once. Evicting the session at any
  point leaves contexts, references and the retransmission table consistent, and
  never frees a context that an application still points to. Every context
  returns to the pool, also if the interface fails and the session is evicted.
* **Fabrics.** Restarts between any two writes, also during the clean-up after a
  restart, and failed writes leave every index with a complete credential or
  none, and other indices alone. At rest flash holds nothing that is not in use.
  What is in use is in flash too, unless a fabric was removed while another was
  being commissioned (see below). The clean-up posted by an expiry never deletes
  a committed fabric, although it identifies it by index only. Every interrupted
  commit and every pending NOC is settled. When no fail-safe is armed there is
  nothing to commit: no addition, no update, no activated key. The certificate
  store alone may hold a stray NOC, without a root and with another index pending,
  so that no later fail-safe commits it.
* **Reporting.** No change is lost over chunks, merges of the dirty set and its
  clearing at the end of a run; within a cluster a chunked report is coherent;
  a fired timer overrides the timestamps, but lets a report begin before the
  minimum interval only if it fired early itself, after the last report; slots for reports in flight are neither lost nor returned
  twice; and every change is reported in the end. The last two statements about
  waking the engine except the handlers a run leaves out (`missed`), which the
  code really does in two situations although the comment at `Engine.cpp:908`
  wants "to go through all of them". A report that fails ends the whole run
  (`:926`); and the round-robin index may skip a handler (see the findings). A
  handler left out whose timer had fired has neither a timer nor a scheduled run
  and waits until something else schedules one.
* **Fuzzer.** Whatever arrives late, a terminated context is frozen, reports
  count only after an answer, and the silencing of a path is consistent and
  final; no command hangs. Answers are attributed to the right command, no
  callback meets a null context and no observation is made twice, provided that
  the wait outlasts the sender.

### Findings

Five runs end in a counterexample to something the repository says.

* `fabric_removal`: `RemoveOpCertsForFabric(f)` drops the pending certificates of
  whatever fabric is being commissioned (`PersistentStorageOpCertStore.cpp:563`),
  against `OperationalCertificateStore.h:216`. After a failed and a repeated
  `CommissioningComplete` the fabric is in use and not in flash, against
  `FabricTable.h:976`.
* `reporting_urgent`: an urgent event logged between two chunks of a report is
  not part of it (`CheckEventClean` stops at a snapshot), but the last chunk
  clears the flag the event set (`ReadHandler.cpp:362`). It is sent with the next
  change or at the maximum interval, not "once reporting is not blocked by the
  min interval" (`Engine.cpp:1229`).
* `reporting_round_robin`: `Engine::Run` takes its index modulo the number of
  handlers (`Engine.cpp:914`) but does not reduce it. With three handlers and two
  reports allowed in flight, a first run leaves the index at 2. The next one
  serves the third handler, then closes the first (a read that is done), and
  3 mod 2 is the second of the remaining two once more: the other is not visited,
  although `Engine.h:113` says that decrementing "will do the right thing" and
  `Engine.cpp:908` wants to go through all handlers.
* `fuzzer_cleanup`: `ClusterCommand` clears its senders neither in `Shutdown()`
  nor in `Cleanup()`, which `CHIPCommand.h:140` says guarantees it. The sender of
  a command that timed out then calls back into a later command's context or
  into none. This is the case `CallbacksMeetTheirContext` excludes by its premise.
* `fuzzer_report_wait`: a report that arrives between
  `RequireSubscriptionReport()` and `WaitForSubscriptionReport()` clears
  `waitingForReport`, the wait is skipped, and the report is neither observed nor
  counted; `ContextManager.cpp:360` assumes that the sender is already waiting.

Four remarks without a run: an ack that arrives after the last retransmission was
given up does not clear `kFlagWaitingForResponseOrAck`
(`ReliableMessageContext.cpp:92`), against the flag's description in
`ReliableMessageContext.h:185`, and the response timeout then marks a working
session defunct; near the end of the range `mNextEpoch` has wrapped
and the counter has not, so each `Advance()` takes itself for late, writes flash
and returns `CHIP_ERROR_INTERNAL` until the counter rolls over too, although
`CheckInCounter.cpp:32` allows it to (hence "below the rollover" above);
`StatsMonitor.h:43` speaks of three timeouts in a row where the constant (`:56`)
is 15; `PersistedCounter.h:73` says values start at a multiple of the epoch after
a reboot, which no longer holds after an `AdvanceBy`, whose epoch is counted from
the new value.

## 4. Bounds

* `DeviceCounters.cfg`: persisted counters have range 0..10, epoch 2 and two
  initial values (0 and one inside the range, for the random start): five
  epochs, a partial one and the rollover; jumps of half and all of the range land
  in every position of an epoch, and after a jump of half of it there is room for
  a reboot, more values and another reboot before the rollover. Group counters
  have range 0..9 and reservations of 2: after a renewal at run time the counter
  can be used up to the next one and the device rebooted several times below the
  rollover. These state spaces are finite without further bounds, since the ranges
  are. The replay window has size 3 and modulus 8: window and half modulus are
  different and each has an inside, an edge and an outside; `MaxTop = 15` lets a
  rolling counter go once around the modulus and on.
* Messaging: counters up to 3 (`MaxCounter`) allow a request, a response and a
  closing ack in each direction, with the exhaustion of the counter as a case
  that happens; one retransmission; tables and pools of one, so that "full" is
  met. One exchange suffices for what a single context goes through;
  `MessagingWindow.cfg` has three exchanges, two contexts and window 1, so that a
  message can be overtaken by more than the window. One node initiates and the
  roles differ, so no symmetry is used. The session is evicted at the responder
  in `MessagingFaults.cfg`; `MessagingEnds.cfg` has eviction and a failing
  interface together, with fewer reactions of the applications: all at once
  multiplies the states without new interactions. The flag `noAutoRequestAck` is covered by the proofs
  only.
* `FabricCommit.cfg`: two indices and two slots, so that additions wrap around and
  the table is full; two roots; three keys, one with an ICAC, so that a fabric is
  updated while another is installed; the ICAC write and the index write may fail,
  one in the certificate store (which undoes its own writes) and one after it.
  One restart at any point (`MaxCrashes`), and any number of further ones while
  the marker found by it is still there, so that the clean-up is itself cut.
* `Reporting.cfg`: one subscription, one read, one report in flight, a dirty set
  of two paths; two clusters on one endpoint and one on another, so that every
  kind of merge happens; four inputs (requests, changes, events): a subscription
  and three changes, or a read of one attribute in its way. Minimum interval 1, maximum 2. The
  round-robin index has modulus 4 instead of 2^32 and does wrap.
  `ReportingRoundRobin.cfg` has three handlers and two reports in flight, the
  least with which the index skips a handler, a read of two attributes, which may
  take two messages, and an index that does not wrap.
* Fuzzer: two paths, three commands, one report, limits 2 and 1. Three commands
  are what it takes for an answer of the first to come in the third; two timeouts
  silence a path. With one report, reports that overtake, meet or miss the wait
  are all reached.

Deadlock checking is off where the system may stop: a session whose counters are
used up and whose exchanges are over, a fuzzer at the end of its tests, and a
replay window or a counter at its bound.

## 5. Fairness

* `ReliableMessaging!FairSpec`: weak fairness, per node and exchange, of "one of
  the armed timers fires, or the application lets go of an exchange it announced
  a message on". The event loop runs every expired timer, and the API requires a
  delegate that called `WillSendMessage` to send or to release. There is no
  fairness of delivery: everything may be lost.
* `Commissioning!FairSpec`: weak fairness of the steps of a running operation and
  of its handler; strong fairness of the posted work and of the expiry. The event
  loop runs what is posted in the order of posting, and the fail-safe's timer is
  bounded by the maximum cumulative time, so commands that keep arriving, or keep
  re-arming, postpone neither for ever. Nothing is assumed about administrators.
  Restarts come to an end: a device that restarts in every clean-up never finishes
  one (TLC then refutes `DoubtIsSettled`).
* `Reporting!FairSpec`: weak fairness of the engine's run, of time, of each
  handler's expired timer (a timer owes nothing before its time), and of "a response or its timeout". Clients owe
  nothing: not answering is covered by the timeout.
* `FuzzerContext!FairSpec`: weak fairness of the command thread and of the event
  loop. Both are threads of the host. Waits have deadlines, so a waiting command
  thread always has a step in the end. Nothing is assumed about the device:
  answers, errors and timeouts of a sender are alternatives of one fair step (a
  sender always ends by its own response timeout), reports are not fair. A device
  that reports without end can keep the thread in `WaitForSubscriptionReport`,
  because each report restarts the wait; `MaxReports` excludes that.

## 6. Proofs

Run `tlapm <Module>Proofs.tla`.

| Theorem | Statement | Invariant used |
|---|---|---|
| `EventNumbersAreFresh`, `EventNumbersVerify` | `Spec => []FreshEventNumber`, `[]VerifyNeverFails` | `EventNumbers!IndInv` |
| `CheckInValuesAreFresh`, `CheckInValuesVerify` | the same for Check-In values | `CheckInIndInv` |
| `GroupCountersAreFresh` | `GroupSpec => []FreshGroupCounter` | `GroupIndInv` |
| `ReplayWindowIsExact` | `WindowSpec => []WindowExact` | `WindowIndInv` |
| `EveryClientKeepsItsInvariant` | `CountersSpec => []ClientInvariant` | the four above |
| `MessagingTypeOK` | `Spec => []TypeOK` | `Inv` |
| `ExchangeLifetimeHolds`, `RetransEntryHasSessionHolds` | lifetime of contexts, sessions of table entries | `PoolInv` |
| `AtMostOnceDeliveryHolds` | `Spec => []AtMostOnceDelivery` | `OnceInv` |
| `AckMeansReceivedHolds` | `Spec => []AckMeansReceived` | `AckInv` |
| `AnswerCarriesAckHolds` | `Spec => []AnswerCarriesAck` | `TurnInv` |
| `OneEndSpeaks` | one end of an exchange at a time may send an application message | `TurnInv` |
| `ConversationHolds` | `Spec => ConversationSpec`: `ReliableMessaging` implements `Conversation` | `Inv`, `TurnInv` |
| `PendingSendKeepsContextHolds` | `Spec => PendingSendKeepsContext` (action property) | `Inv` |
| `CommissioningProofs!TypeCorrect` | `Spec => []TypeOK` | `IndInv` |
| `RestartRevivesNothing` | `Spec => []StorageIsInUse` | `StorageOK` |
| `DisarmedIsClear` | `Spec => []NothingToCommitWhenDisarmed` | `PendingOK` |
| `CleanupIsSafe` | `Spec => []CleanupSparesCommitted` | `SparesOK` |
| `NextIndexNeverReused` | `Spec => []NextIndexIsFree` | `NextOK` |
| `UndisturbedFabricsSurvive` | `Spec => []UndisturbedFabricsSurviveRestart` | `IndInv`, and `Undisturbed` while `~overlapped` |
| `CommitIsAtomic` | `Spec => DirectorySpec`: `Commissioning` implements `FabricDirectory` | `IndInv` |
| `ReportingProofs!TypeCorrect` | `Spec => []TypeOK` | `IndInv` |
| `InFlightCounted` | `Spec => []InFlightIsAwaiting` | `InFlightIsAwaiting` |
| `ChangesAreKept` | `Spec => []ChangesStayDirty` | `DirtyOK`, `StaysDirty` |
| `ReportsAreCoherent` | `Spec => []ClustersAreCoherent` | `Coherent` |
| `MinIntervalIsKept` | `Spec => []NotBeforeMinInterval` | `TimerOK` |
| `NobodyIsForgotten` | `Spec => []SomeoneWakesTheEngine` | `TimerOK` |
| `FuzzerTypeOK`, `SilencedAtLimitHolds`, `ReportsFollowResponseHolds` | the three invariants | `IInv` |
| `TerminatedContextIsFrozenHolds` | the action property | `IInv` |
| `CallbacksMeetTheirContextHolds` | `Spec => []CallbacksMeetTheirContext` | `OutlastInv` |

Assumptions are those of the modules, and TLC evaluates each: ranges are naturals,
an epoch or a reservation fits into its range (`GroupCounterAssumption`), windows
fit into half of the counter's range, flags and reactions are of their types, a
session has two ends (`TwoEnds`, needed for acks and turns only), there is at
least one index and one slot (`FabricAssumption`), no fabric is not a credential
(`CredentialAssumption`), clusters and endpoints partition the
attributes and a cluster's attributes are expanded one after the other
(`ReportingAssumption`). All limits, numbers of restarts, of handlers, of commands
and so on are otherwise arbitrary.

* **Counters.** Freshness is about a value in RAM, but after a reboot the value
  comes from flash, so freshness alone is not inductive. `IndInv` adds that
  storage equals `mNextEpoch` unless the last write failed, that the counter is
  below `mNextEpoch` before a rollover, and `StorageAhead`: what a reboot will
  resume from is above everything handed out. A jump (`AdvanceBy`) needs that the
  epoch is counted from the new value. Group counters need the same of their
  reservation, `Reserved`: storage is above the counter unless a write of a
  reservation failed.
* **Replay window.** `WindowTracksSeen` says what each bit means in terms of
  `seen`, and `TopMatches` ties `mMaxCounter` to the unwrapped maximum. The proof
  is arithmetic about `%`: `PositionMeaning` translates the classification into
  distances from `top`, `CommitMeaning` the shift of the window, by jumps shorter
  than, equal to and longer than the window.
* **Messaging.** `ExchangeContextProofs` has one lemma per method saying what it
  preserves: `Local` (type, other exchanges, nothing delivered), `Quiet` (the life
  of its own context as well), `Sound` (a context between two calls of a handler)
  and `Settled` (at its end, where an open context has somebody who will end it).
  The weaker `Sound` is needed because `ExchangeLifetime` does not hold in the
  middle of a handler. `ReliableMessagingProofs` composes them per action.
  `OnceInv` is stronger than `AtMostOnceDelivery`: a delivered counter no longer
  verifies against the window, which is what keeps its next copy out.
  For acks, `AckInv` follows a counter from the window of its receiver to the
  sender that sees it acknowledged: whatever a context has yet to acknowledge
  (`Truthful`), every ack in the network and every ack taken belongs to `Known`,
  the counters that arrived or that the window has left behind; and the window
  refuses nothing else (`RefusedKnown`). An announced send (`WillSendMessage`)
  keeps its context because a context with an entry in the retransmission table
  has a session and no announced send (part of `Sound`), so the one timer that
  releases contexts never finds an announced one, and because only an eviction
  takes the session away (`SessionInv`).
  That an answer carries the ack its receiver waits for is about both ends and all
  messages between them. `TurnInv` makes the right to speak on an exchange a token:
  it is with the application that announced a message or on its way with a message
  nobody has heard (`OneTurn`). `AnswerOwed` says what travels with it: if a node
  waits for an ack, the token is its own message, or an answer that carries the ack,
  or it is with a peer that has that ack pending (or whose counter is exhausted, so
  that it sends nothing any more). `WaitsForOwn` says what the retransmission table
  holds, and `Unused` that a new exchange starts without a token. At the level of
  the operations, `Silent` is what neither takes nor passes a turn (timers, acks,
  retransmissions, evictions, duplicates), `Speaks` and `TakesTurn` what does.
  A failed send is why this needs care: the code puts the pending ack back for the
  next try, and only then does the node still owe it.
  The refinement of `Conversation` comes out of the same induction: a silent step
  adds no speaker and nothing unheard (`FadesOn`), a step that takes the turn has it
  (`HasTurnOn`: a new exchange, an announcement, or an unheard message of the peer)
  and leaves one announcement, one message or nothing (`UsesTurn`).
* **Fabrics.** None of the properties is inductive: what flash holds is explained
  only by how far the running operation has come. `ControlOK` says for every `pc`
  which flags, marker and victim go with it, `CommitOK` which of the writes have
  been made or undone and where their values come from (`CommitStarts`,
  `CommitSources`, `CommitWritten`, `CommitUndone`), `MarkerOK` what the commit
  marker names, `QueueOK` which callbacks can be posted together, `PendingOK` and
  `CertsOK` what flags, table and certificate store agree on (with `StrayNoc`, the
  NOC of an abandoned update, which no root, no addition and no update may join),
  `StorageOK` which
  entries flash may hold, `NextOK` and `SparesOK` that the next index and the
  index of a posted clean-up are nobody's. `CommissioningInvariant` has the parts
  and a lemma per part with a step per action; `CommissioningProofs` draws the
  theorems. For the refinement, an action is `Doubt` when a commit starts, `Settle`
  when the marker is cleared after it or after its clean-up, `Remove` when an
  index loses its metadata, and a stutter otherwise; `CommitWritten` and
  `CommitUndone` show that a settled index holds all of a credential or nothing.
  The converse of `RestartRevivesNothing`, that everything in use is in flash, holds
  only while no removal came between (the findings show why), so its invariant
  `Undisturbed` is carried under `~overlapped`. `TableStored` says that a fabric
  of the table has its certificates in flash, or is in doubt, being deleted, or still
  to be committed. It is not inductive alone: a commit that reverts for an invalid
  state would forget an addition and leave it in the table. `AdditionPending` shows
  that the checks of `CommitPendingFabricData` never fail for an addition,
  `AdditionUndone` that an addition is deleted before it is forgotten, and
  `FlagsCleared` that whatever else deletes a fabric finds nothing pending.
  `KeyPending` and `KeyWritten` follow the key from `CSRRequest` to flash: the chain
  that is pending is for the key that is pending, also after an `AddNOC` that was
  undone, where the flags still announce a key and a root that are gone. `KeysMatch`,
  that a kept credential has the key of its NOC, then follows from the refinement:
  only the end of a commit installs anything.
* **Reporting.** `StaysDirty` says where a change that is in no report will be
  found: ahead in the running report, or under an entry of the dirty set that is
  newer than the report's begin (`Since`). Merging and clearing entries keeps this
  (`Keeps`), and the dirty set stays within its pool (`DirtyOK`). `Coherent` says
  that a report in the middle of a cluster has nothing of it behind itself;
  `TimerOK` ties the timestamps, a fired timer and the request for a run together:
  an armed timer is not set for a time before the minimum interval, so a request
  for a run before it comes from a timer that fired early.
  `PoolOK` counts handlers, for which the handler at the position a run visits has
  to be shown to exist. `HandlersOK` holds all this of every handler.
* **Fuzzer.** `SilencedAtLimit` needs `WaitsBelowLimit` (a wait in progress
  concerns a path below the limit, so that counting cannot run past it);
  `ReportsFollowResponse` needs `AnsweredStatus`; the frozen context needs
  `TerminatedIsClosing` (the command thread has nothing left to do but `Close`).
  `OutlastInv` says that, if the wait outlasts the sender, the two threads take
  turns: at each `pc` of the command thread it is known what the event loop still
  owes (the command, an answer and its notification, the clean-up) and that it
  owes one thing at a time (`TakeTurns`), hence at most one sender exists.

The first four invariants are themselves checked by TLC, as `ClientInvariant`;
`PoolInv` is `ExchangeLifetime` and `RetransEntryHasSession` with the shape of free
slots. TLC confirms the others on the instances of the runs too (a module that
extends the proofs and a run's module, with the invariant as INVARIANT).

## 7. Model-checked only

* `EveryExchangeEnds`, `CommandEnds`, `DoubtIsSettled`, `PendingIsResolved` and
  `EveryChangeIsReported`: liveness under fairness is out of the
  prover's reach, as is `ENABLED`. Every invariant, action property and
  refinement of the passing runs has a theorem.
* What recursive definitions compute for all inputs cannot be proved by this
  prover (no induction over data); none is used so far.

The properties of the runs that expect a violation do not hold and have no
theorem.

## 8. Not modelled

* Event buffers: the circular buffers, eviction by priority and fetching.
* Message counter synchronisation (`SyncStarting`, `VerifyChallenge`): only
  `MessageCounterManager` uses it, and no receive path of `SessionManager` starts
  a synchronisation in this version.
* Messaging: group and unauthenticated exchanges, sessions over TCP or BLE
  (no MRP), an exchange with a zero response timeout, back-off times, ICD
  keep-active notifications, solicited versus unsolicited handler lookup beyond
  "handled or refused".
* Fuzzer: acquisition phase, tuning mode and `Tuner`, recovery of a lost
  subscription, several command objects (whose mutexes differ), the tallies of
  `StatsMonitor`; `DeviceStateTracker`, the visitors and generators are data.
* Fabrics: the commissioning window, VID verification statements, last known good
  time, terms and conditions, failures of deletions, externally owned keys.
* Reporting: see the abstractions in section 2; also the quotas that choose the
  handler to evict, resumption of subscriptions after a restart, the synchronized
  scheduler, `ScheduleUrgentEventDeliverySync`, and the command, write and timed
  handlers.
* `GroupPeerTable`, session table, PASE/CASE, interaction model clients, ICD
  modes, BDX: planned below.
* Crypto, transports, platform code, clusters, generated code, sample
  applications: primitives, I/O, or logic of single devices.

## 9. Plan

Done: counters, replay window, exchanges and MRP, fabrics and fail-safe, both with
their abstract specification, reads and subscriptions, the fuzzer's test loop.

Every safety property of the passing runs is proved; what is left are models.

Models, in order of value:

1. Session table and holders (choice of the session to evict, shifting), then
   CASE and `OperationalSessionSetup` as message protocols.
2. The fuzzer's acquisition phase and tuning mode with `Tuner`.
3. Resumption of subscriptions and `ReadClient`, composed with `Reporting`.
4. BDX transfer session, ICD modes.
