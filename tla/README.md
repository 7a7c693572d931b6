# TLA+ specifications of rs-iec61850

This directory specifies the IEC 61850 stack of this repository: the server and
its control blocks, the MMS client and the ACSI client on top of it, GOOSE, the
routable session and its key distribution, the octets of an association, the
loading of an SCL document and the terminal client `iedx`. TLC checks small
instances of every module; TLAPS proves what matters most for every value of
the constants. `PROJECT.json` maps each definition to the lines it models and
lists components, runs, mutants, hazards, findings and theorems.

    tlc -workers 2 -config Report_window.cfg MCReport     # one run
    tlapm ControlProofs.tla                               # the proofs of a module

Paths below are relative to `src/src/`.

## 1. The system and its parts

| Part | State | Modules |
|---|---|---|
| Report engine `server/reporting.rs`, `server/rcb.rs` | per block: settings, holder, reservation, buffer, open window, three timer tasks with generations | `ReportControl` |
| Server association `mms/server_conn.rs` | held and queued PDUs, pump, writer mutex, deferred requests | `ServerConn` |
| Control `server/select.rs`, `server/control.rs`, `control_write` of `server/handler.rs` | reservations, operates and their terminations | `Control` |
| Server objects `server/server.rs`, `server/handler.rs`, `server/settinggroup.rs`, `server/journal.rs`, `server/svcb.rs`, `server/tracking.rs` | connection table and slots, setting groups, data sets, logs, sampled-value blocks, tracking objects | `Device` over `SettingGroups`, `DataSets`, `Journal`, `SvControl`, `Files` |
| File store `server/file.rs`, `server/services_ext.rs` | files, open files, the transfers of each client | `Files` |
| Served model `server/access.rs`, `model/` | the tree and its flat names | `Access`, `Directory` |
| SCL `scl/` | none while running: document to model | `Scl`, `SclBuild` |
| MMS client connection `mms/conn.rs` | life cycle, response and cancel slots, reader | `Association`, `ClientConn` |
| ACSI client `client/` | control sequences, subscriptions, calls under way | `ClientControl`, `Subscription`, `Directory` |
| Encodings and OSI stack `asn1/`, `mms/`, `osi/` | two ends of a handshake and of confirmed requests | `Ber`, `MmsCodec`, `Osi`, `Wire` |
| GOOSE `goose/` | counters, retransmission tasks, sequence tracker, supervision | `Goose` |
| Routable session `rsession/` | SPDU numbers, replay windows, key store | `ReplayWindow`, `RSession` |
| Key distribution `gdoi/` | the group's keys, keepers with activation and expiry tasks, exchanges | `KeyKeeper`, `Gdoi`, `GroupKeys` |
| Terminal client `bin/iedx/` | panels, dialogs, background tasks, messages | `Widgets`, `Iedx` |

What is hard here, and hardly reached by a test:

* timers are tasks that may already have woken when they are aborted; the code
  tells an outdated one by a generation, where it does;
* the end of an association is a sequence of steps, each under another lock,
  while requests of other associations go on;
* bounded queues refuse PDUs in the middle of a batch;
* one asynchronous writer mutex is shared by a loop, the futures the loop
  polls, and a task;
* futures are dropped at their await points, and what they had registered stays
  or goes depending on the point;
* clients make several requests for one answer (pages, a list and its values, a
  block's attributes) while other clients change the server;
* counters wrap, frames and datagrams are lost, repeated and overtaken.

`PROJECT.json` lists these as hazards, at the line where each bites, with the
properties that would catch it. Where the code allows what the hazard describes,
the note says so and names the definition that states the contrary (section 5).

## 2. Modules

A definition keeps the name of the function it models. Ghost variables and
fields record what was delivered, lost or promised; no guard reads them. A
definition whose name ends in `_Something` is a mutant: a plausible mistake in
the definition it stands before.

**ReportControl.** One block. The functions of the engine (`take`, `release`,
`purge`, `emit`, `transmit_buffered`, `event`, ...) are operators on the record
`rcb`; the actions are the handlers that call them under the model lock. A timer
task is `"sleeping"`, `"woken"` or `"stale"`: aborting a task that has woken
does not stop it, only its generation does. Each action takes the set of reports
the queue refuses. A value is the number of the update that wrote it.

**ServerConn.** The serve loop, the deferred requests it polls,
`pump_unconfirmed` and the threads that post. `writer` lists the futures at the
mutex in order of arrival. A deferred request is a future of the serve task: it
moves only while the loop waits in its `select!`. Every await is a step.

**Control.** A request is a small process, because `control_write` takes the
reservation lock several times and calls the application between. It carries the
time it began with, as `now` does in the code.

**Device.** The server's objects under concurrent associations. A Write request
takes the model lock once for each variable, once more to report what changed,
and delivers sampled-value events without it. Tracking has an object for the
writes of ActSG, EditSG and CnfEdit, and of log control blocks. `Journal` also
has the client that reads the log by pages.

**Files.** Each system call of a file service is a step, because the store takes
no lock over a request. A listing reads the directory and then the metadata of
each entry: an entry removed in between is listed, left out, or fails the whole
listing.

**Access, Directory.** The tree, its flat names, the reads and writes under
them, and a client that browses, rebuilds the model and reads data sets in
several requests while another writes leaves (within the writable functional
constraints and the application's verdict) and defines and deletes data sets. A
leaf of an unknown basic type reads as an error.

**Scl, SclBuild.** From XML events to the tree, the typed document and the
model, with diagnostics. A text is known by what it reads as. Paths are
sequences of names: the values recorded for setting groups are found again by
their path, and diagnostics are compared by it.

**ClientConn, Association.** `Association` is what a user of `mms::Conn` may rely
on: one end for one cause, at most one outcome per request, and the cause once it
has ended. `ClientConn` has the steps of `conn.rs`; `Implements` is the
refinement.

**ClientControl, Subscription.** The requests of a control call and the table of
diagnoses and waiters; reading, reserving, configuring (one setting per request)
and enabling a block against another client, and decoding its reports.

**Ber, MmsCodec, Osi, Wire.** Functions from octets to octets, and the two ends
that use them, packet by packet. Integers have 3 octets and narrow ones 2
(`IntOctets`, `NarrowOctets`) instead of 8 and 4, so that all widths differ. A
presentation context list is accepted or refused by every element of it. The
path of a partial read is decoded with the client's decoder: the server of this
crate does not select by a path.

**Goose.** Time passes in ticks between steps; a timer fires up to `late` ticks
late. The task slot and the state lock are separate, as in the code. `since`
records what happened to the frames before each delivered one.

**ReplayWindow, RSession, KeyKeeper, Gdoi, GroupKeys.** The window over a
wrapping counter; senders, reader queue and checks of a session; the keepers'
tasks over the group's list of keys, where a registration takes the snapshot in
one step and installs it, or fails, in a later one; both ends of a registration
over a network that loses, repeats and reorders, while the group's keys rotate.
`GroupKeys` chooses one of these parts in `Init`.

**Widgets, Iedx.** Handlers are functions of the user interface; tasks post their
results without saying which request they answer. Of the layout only the first
row of each list is kept, since clicks are resolved against it.

The `MC` modules declare model values, scenarios and plans. No `.cfg` replaces a
definition.

## 3. Runs

| Run | Checks | Instance |
|---|---|---|
| `Report_blocks` | `HolderIsServed`: a block is held by an association that is served. `LossAnnounced`: numbering and BufOvfl say what did not arrive. `BufferHolds`: the buffer is the newest entries, and nothing is sent twice. | buffer of 2, 3 updates and 4 reports so that SqNum wraps (modulus 3); 2 clients share a block, or 3 from 2 addresses compete for one |
| `Report_window` | `WindowHolds`: no captured event is overwritten, and the open window has its one timer. `EventsAreEmitted`, `ReservationEnds`. | 2 members, 2 updates, interrogations against a window, both kinds of block |
| `Report_lost` | violation, section 5 | 1 client, 1 update |
| `Conn` | `AnsweredOnce`: one answer, however cancel, time limit and end race. `AnsweredOrBehindDeferred`, `AcceptedIsWritten`. | 2 requests and 2 PDUs over a queue of 1, or a deferred and a confirmed request and a PDU |
| `Conn_stuck` | violation, section 5 | the second instance, without closing |
| `Control` | `OneOperatePerSelect`, `NoOrphanSelection`, `TerminatedOnce`, `NotTaken`: no association takes an object another one holds. `EventuallyTerminated`. | 2 clients, 2 objects of every control model, 2 control numbers, an expiry, 2 operates |
| `Client_calls` | `AnswerIsOwn`, `Implements` (the refinement of `Association`), `CallReturns` | a bounded and a started request, a cancel, every way to end |
| `Device_objects` | `GroupsServed`, `ConfirmStoresTheEdit`, `LogIsFaithful`, `NamedSetExists`, `NothingLeftBehind`, `SlotReturned`, `FilesAreFaithful` | 2 associations with 3 requests, one workload per group of services; log of 2 entries, pages of 1; files of 2 chunks, 3 file requests of 2 clients |
| `Goose_stream` | `WireIsCurrent`, `GapIffLost`, `NoFalseExpiry`, `SilenceNoticed` | a slowing schedule with late timers, 2 threads, a loss and a refused write; a roll-over with a loss and a restart |
| `Network` | `TakenIffNew`, `KeysKept`, `InOrderIsFresh`, `RegistrationHolds`, `DeliveredIntact`, `SetupAgrees` | modulus 7 and 3 bits; 2 members, 2 keys, 2 rotations; 2 registering members, 2 keys, requests repeated once; values, types and paths at the octet boundaries |
| `Acsi` | `CallsAreTold`, `ReportsAreOwn`, `DirectoryIsTrue`, `LoadedAsDeclared` | 2 calls of 2 handles, 1 report of several segments, 2 changes of another client, four devices, documents for each rule of the loader |
| `Iedx_session` | `OnlyConfirmedOperates`, `ScreenIsTrue` | one scenario per tab, dialog and the connection form, 2 tasks under way, lists of 2 rows |

A run covers several configurations by choosing one in `Init`; their state
spaces add up and do not mix. Bounds are named constants. They are enough in the
sense that the interesting cases happen within them (a full queue, a wrapped
counter, an overflown buffer, an expiry between two steps), and that each
property has a mutant in `PROJECT.json` that breaks it there. Deadlock is not
checked: a bound, or an association that ended, ends every behaviour. That
nobody waits for ever is stated as liveness instead.

What a property leaves open, beyond its comment:

* `ReservationEnds` says that a reservation ends, not that it never ends early.
* `NotTaken` protects a reservation from other selects; a cancel may still end
  it (`EndedByOwner`, section 5). An operate may use a reservation that ran out
  while its handler was waiting.
* `AnswerIsOwn` assumes that an invoke identifier does not come round to a
  request the peer has still to answer.
* `CallReturns` rests on the transport accepting what is written: the write at
  `mms/conn.rs:250` is under no time limit. It is about callers; the response
  slot of a call that timed out stays (`SlotReleased`).
* `GapIffLost`: a gap is reported for a lost frame, and also when the publisher
  refreshes or restarts a state from sqNum 0. Within a state a lost frame is
  always reported.
* `GroupsServed` is about documents that declare actSG. The edits of two
  associations mix in the one edit view.
* `LogIsFaithful` excuses a paged read whose continuation entry was discarded,
  and says nothing of the range of an emptied log.
* `FilesAreFaithful` is about readers, not about what SetFile leaves.
* `NothingLeftBehind` is not about the order of events. `SlotReturned` has three
  requests to wait for: an endless stream of changes, which one association would
  go on delivering, is out of its bound.
* `KeysKept` excuses keys that a stale expiry task removed.
* `InOrderIsFresh` is about a network that keeps the order; an SPDU that goes
  out under a withdrawn key is lost as one of an unknown key.
* `CallsAreTold` compares object, number and outcome, not the originator.
* `ReportsAreOwn` excuses a change of DatSet or RptID by the other client
  between reading the block and reserving it.
* `DirectoryIsTrue` excuses a data set redefined between the two requests of a
  read. A leaf of unknown basic type does not read, nor does a structure it is
  directly a member of.
* `LoadedAsDeclared`: no document sets an element of an array of data objects
  for a setting group.
* `ScreenIsTrue` does not compare values, files, setting groups and log pages
  with the device: the panels show whichever answer came last.

### Fairness

* Report engine: tasks that sleep wake up and, woken, take the lock (tokio
  timers; the model lock is never held across an await).
* Server association: the serve loop, the pump and a closer go on when they can;
  a deferred future that can be polled again and again is polled (strong
  fairness: the `select!` picks among its ready branches at random). Transport
  writes end.
* Control: a request goes on, time limits fire, a termination is sent. Nothing is
  assumed of the application.
* Client: registered calls go on, their timeouts fire, the reader runs; once this
  end has shut the transport down, the peer closes its end.
* Device: a request or a clean-up under way goes on. Nothing is assumed of
  clients.
* GOOSE: threads, tasks and time go on, frames that are not lost arrive.

## 4. Theorems

TLAPS proves the following for every value of the constants, from the
assumptions named in the modules (constants have their types, sizes are
positive, the "none" values are not members of their sets; for the client, that
there are fewer requests than invoke identifiers).

| Module | Theorem | Inductive invariant |
|---|---|---|
| `ReportControlProofs` | `TypeCorrect`, `HolderServed` | `Inv`: `rcb` is a record with `next` inside the buffer, and `HolderIsServed`. `TypeOK` alone is not inductive: `transmit_buffered` reads the buffer from `next` on. One lemma per function of the engine. |
| `ControlLemmas`, `ControlProofs` | `ControlTypes`, `SelectServesOnce`, `NoneOrphaned`, `ConcludedOnce`, `HeldIsNotTaken`, `RefusedIsSilent` | `IndInv`: `ReqInv` (a request is of a served association and began in the past), `OpInv` (who may still conclude an operate), `SelInv` (a checked operate owns its reservation, and one that was used is about to be cleared). |
| `ClientProofs` | `ClientTypes`, `AnswersAreOwn`, `AssociationImplemented` | `IndInv`: `LifeInv`, `IdInv` (identifiers are handed out once), `SlotInv`, `PeerInv`, `RxInv` (whose answer each channel holds), `CancelInv`. |
| `ReplayWindowProofs` | `WindowTakesIffNew` | `WindowInv`: the window's top is the highest number taken modulo `Mod`, and its bits are the numbers taken below it. |
| `JournalProofs`, `DeviceLemmas`, `DeviceProofs` | `NothingIsLeft`, `GroupsAreServed`, `OnlyConfirmStores`, `LogsAreFaithful`, `NamedSetsExist` | Types of all objects (`ObjOK`) with, in turn, the count of slots, the edit view and the active group, and `LogInv`: ids increase, what a reader has got agrees with the log, and outdated tasks are recognisable. |

`DeviceLemmas` sorts every step of `Device` by what it does to each object, so
that a theorem about the logs need not look at the other services.
`GroupsAreServed` has the hypothesis `ActiveIsDeclared` (the document declares
its active group) and `NamedSetsExist` has `LogsAreConfigured` (log control
blocks name data sets the document declares): the loader checks neither, and
without them the statements are false.

Only model-checked: liveness (fairness and ENABLED are outside the prover); the
remaining invariants; what the recursive definitions of the codecs, the loader
and the directory compute (induction over data is outside the prover).

## 5. Where the code and its documentation disagree

With a run of its own:

* `Report_lost`: when an association with an open window ends, `disable` flushes
  the window to an association that has already left the table; the entry counts
  as sent and no overflow is announced (`server/reporting.rs:631`).
* `Conn_stuck`: a deferred request that is granted the writer while the loop
  waits for the writer is never polled again, and the association stops
  (`mms/server_conn.rs:607`).

Stated in a module and refuted by TLC when the statement is added to the run:

| Statement | Refuted because | Run |
|---|---|---|
| `ReportControl!BufferIsCurrent` | events collected under the old data set are flushed into the buffer after the DatSet write purged it (`server/reporting.rs:319`) | `Report_lost` with two data sets and `MaxConfRev = 1` |
| `ReportControl!ValuesInOrder` | BufTm is set to 0 under an open window: the next change is reported before the window (`server/reporting.rs:521`) | `Report_lost` with `BufTms = {0, 1}`, 2 updates, buffer of 2 |
| `ServerConn!NoSilentDrop` | held PDUs that do not fit the queue are dropped after their posting succeeded (`mms/server_conn.rs:421`) | `Conn` |
| `ServerConn!TerminationFollowsResponse` | a PDU posted after the handler returned and before the response is written overtakes it (`mms/server_conn.rs:575`) | `Conn`, queue of 2 |
| `ServerConn!ReportsInOrder` | a PDU posted while others are held overtakes them (`mms/server_conn.rs:406`) | `Conn`, queue of 2 |
| `ServerConn!AgreedIsCancelled` | a cancel is agreed to and the request's time limit answers first (`mms/server_conn.rs:52`) | `Conn` |
| `Control!EndedByOwner` | a cancel that found nothing reserved clears the reservation another association made in between (`server/handler.rs:699`) | `Control` |
| `ClientConn!SlotReleased` | a request that times out keeps its response slot (`mms/conn.rs:615`) | `Client_calls` |
| `Goose!RetransmitsUntilReplaced` | one refused write ends retransmission for good (`goose/publisher.rs:105`) | `Goose_stream` |
| `Goose!OneLossIsCovered` | while the schedule slows down, two intervals are longer than twice the first (`goose/publisher.rs:293`) | `Goose_stream` |
| `Journal!EmptyLogHasNoRange` | deleting every entry leaves the ranges as they were (`server/journal.rs:11`) | `Device_objects` |
| `Journal!GapFree` | the entry to continue after was discarded, and entries of its millisecond are passed over (`mms/services.rs:776`) | `Device_objects` |
| `Device!ToldInOrder` | sampled-value events are queued after the model lock is released (`server/server.rs:571`) | `Device_objects` |
| `Device!ServicesLogged` | two tracked services of one request share a log entry (`server/tracking.rs:10`) | `Device_objects` |
| `Files!ListedOnce` | the name to continue after was deleted: the next page is the first again | `Device_objects` |
| `Files!StoredIsWhole`, `Files!FailRemovesOwn` | an association that ends during SetFile leaves part of a file; a SetFile that fails removes what another stored under the name (`server/services_ext.rs:193`) | `Device_objects` |
| `KeyKeeper!ExpiryIsOwn` | an expiry task that had woken, or one of an earlier stay of a withdrawn key, removes the renewed key (`gdoi/keeper.rs:270`) | `Network` |
| `KeyKeeper!HoldsBoth` | delays travel rounded up: a member waits for a key another sends with already (`gdoi/server.rs:31`) | `Network` |
| `Gdoi!CompletesOnRetransmission` | a reply that came twice passes the `accept` of a later step and fails there (`gdoi/tests.rs:458`) | `Network` |
| `ClientControl!RefusalExplained` | another call's diagnosis has replaced this one's (`client/controlreports.rs:69`) | `Acsi` |
| `Subscription!LabelsFollowBlock` | another client changes DatSet before the block is reserved (`client/report.rs:221`) | `Acsi` |
| `Subscription!QuietAfterDisable` | the reader had copied the handlers before | `Acsi` |
| `Directory!LabelsAreTrue` | the data set is redefined between the two requests of a read (`client/dataset.rs:40`) | `Acsi` |
| `Directory!NoMemberLeftOut` | a sub-object without a value is left out of the structure (`server/access.rs:187`), where the comment on `do_value` says a missing member would be read under the wrong name | `Acsi` |
| `SclBuild!GroupElementsKept` | values of array elements for a setting group are not kept (`scl/build.rs:116`) | `Acsi` |
| `Iedx!OneTicker` | a ticker that was being answered when the panel was switched off and on again goes on (`bin/iedx/browse.rs:70`) | `Iedx_session` |
| `Iedx!HeaderNamesDevice` | the address of an attempt to connect that failed stays in the header | `Iedx_session` |

## 6. Not modelled

* Sampled-value publisher and subscriber: one frame per sample and no
  retransmission. Ethernet and socket input and output. TLS policy, X.509 and
  the ciphers and payload encodings of `gdoi/` and `rsession/`: what a receiver
  can tell of a message is all that is kept. Time-stamp conversions. The command-line
  tools other than `iedx`.
* Of the MMS services, status and identify, and the codecs of services the wire
  scenarios do not use. Of GOOSE, the message codec, the schedule from SCL and
  the test and ndsCom flags.
* Servers do not restart, EntryIDs and invoke identifiers do not wrap, and a
  keeper is stopped by `run` returning, not by dropping the `Member`. Keys whose
  algorithm the session does not know (`Skipped`) are left out.
* The recording rules of `server/tx.rs` and the fields of the tracking objects
  beyond service, outcome and count. Of the control structure, what no outcome
  depends on. Common data classes, quality and logical node classes, which are
  tables.
* A document's initial values are not range-checked by the loader, DAI indexes
  are ignored by it and elements beyond its depth limit dropped; the documents
  of `MCAcsi` do not go there.
