------------------------------- MODULE Device -------------------------------
(***************************************************************************)
(* The server's objects under concurrent associations: the connection      *)
(* table and its slots (server/server.rs), the Write service and the       *)
(* control blocks it reaches (server/handler.rs), service tracking         *)
(* (server/tracking.rs), data sets, setting groups, logs and sampled-value *)
(* control blocks and the file store composed.                             *)
(*                                                                         *)
(* A Write request takes the model lock once for each variable, once more  *)
(* to report what changed, and delivers sampled-value events without it;   *)
(* other associations, the process and the timer tasks run in between.     *)
(* Report control blocks are here only as far as data sets and setting up  *)
(* concern them; ReportControl has the rest.                               *)
(***************************************************************************)
EXTENDS SettingGroups, Journal, SvControl, Files

CONSTANTS
  Scenarios,  \* the devices and workloads considered
  CbNamed,    \* data sets the GOOSE and sampled-value control blocks are configured with
  MaxReq      \* bound: requests

Tracked == {"SgcbTrk", "LocbTrk"}

\* A variable of a Write request the handler can decode: what the checks of
\* each kind of block leave to the type of the attribute.
Decoded(w) ==
  /\ w.kind = "se" => w.attr \in Editable /\ w.val \in SVal
  /\ w.kind = "sgcb" /\ w.attr = "CnfEdit" => w.val \in BOOLEAN
  /\ w.kind = "lcb" => /\ w.blk \in LcbSet
                       /\ w.attr \in {"LogEna", "IntgPd"} => w.val \in BOOLEAN
                       /\ w.attr = "TrgOps" => w.val \subseteq Trigger
  /\ w.kind = "svcb" => /\ w.blk \in SvBlk
                        /\ w.attr \in {"SvEna", "Resv"} => w.val \in BOOLEAN
  /\ w.kind = "rcb" /\ w.attr = "RptEna" => w.val \in BOOLEAN

\* The variables the workloads write.
Asked == UNION {{r[i] : i \in DOMAIN r} : r \in UNION {d.requests : d \in Scenarios}}

\* A device as it is configured and the workload it meets.
Scenario ==
  [requests : SUBSET Seq(Asked), tracks : BOOLEAN, hook : SUBSET STRING,
   lcb : [LcbSet -> [ena : BOOLEAN, datSet : DsName \cup {NoDs}, trg : SUBSET Trigger, intgPd : BOOLEAN]],
   data : SUBSET Member, dynamic : SUBSET DsName, deletable_logs : BOOLEAN, reads : BOOLEAN,
   closes : BOOLEAN, files : BOOLEAN, max_conns : Nat, clients : SUBSET Conn,
   documents : SUBSET SgConfig]

ASSUME DeviceAssumption == MaxReq \in Nat /\ Tracked \subseteq Member
                           /\ Scenarios \subseteq Scenario
                           /\ \A w \in Asked : Decoded(w)

VARIABLES
  dev,     \* the scenario: what the model has and what clients ask for
  conn,    \* conn[c]: [pc, todo, changes, evs, ending]
  open,    \* slots taken
  rcb,     \* an unbuffered report control block: [ena, datSet, owner]
  trk,     \* the tracking objects: [svc, err, n]
  nreq     \* requests so far

devVars == <<dev, conn, open, rcb, trk, nreq>>
objVars == <<sgVars, dsets, logVars, svVars, devVars>>
vars == <<objVars, fileVars>>

NoChanges == [m \in Member |-> {}]
NewConn == [pc |-> "none", todo |-> <<>>, changes |-> NoChanges, evs |-> <<>>, ending |-> FALSE]

\* The associations in the connection table.
conns == {c \in Conn : conn[c].pc \in {"idle", "write", "queue", "lock", "flush", "cleanup"}
                       /\ ~conn[c].ending}

DeviceInit ==
  /\ dev \in Scenarios
  /\ \E d \in dev.documents : materialise(d)
  /\ SvInit /\ FilesInit
  /\ dsets = Configured
  /\ entries = <<>> /\ lastId = 0 /\ now = 0 /\ reader = NoReader
  /\ lcb = [l \in LcbSet |-> [ena |-> dev.lcb[l].ena, datSet |-> dev.lcb[l].datSet,
                              trg |-> dev.lcb[l].trg, intgPd |-> dev.lcb[l].intgPd,
                              range |-> NoRange, gen |-> 1]]
  /\ tasks = {[lcb |-> l, gen |-> 1, due |-> FALSE] : l \in {x \in Writing :
                dev.lcb[x].ena /\ dev.lcb[x].intgPd /\ "integrity" \in dev.lcb[x].trg}}
  /\ conn = [c \in Conn |-> NewConn]
  /\ open = 0
  /\ rcb = [ena |-> FALSE, datSet |-> NoDs, owner |-> NoConn]
  /\ trk = [k \in Tracked |-> [svc |-> "none", err |-> "ok", n |-> 0]]
  /\ nreq = 0

-----------------------------------------------------------------------------
(* Connections: serve_transport                                            *)

\* Whether there is a slot left; a limit of 0 is none.
take_slot == dev.max_conns > 0 => open < dev.max_conns

\* A slot is taken before the handshake; a connection past the limit is refused.
TakeSlot(c) ==
  /\ conn[c].pc = "none" /\ c \in dev.clients
  /\ \/ ~take_slot /\ conn' = [conn EXCEPT ![c].pc = "done"] /\ open' = open
     \/ take_slot /\ conn' = [conn EXCEPT ![c].pc = "setup"] /\ open' = open + 1
  /\ UNCHANGED <<sgVars, dsets, logVars, svVars, dev, rcb, trk, nreq>>

\* release_slot never goes below zero.
release_slot == IF open = 0 THEN 0 ELSE open - 1

\* The association is set up and entered in the table, or gives its slot back.
Accept(c) ==
  /\ conn[c].pc = "setup"
  /\ \/ conn' = [conn EXCEPT ![c].pc = "idle"] /\ open' = open
     \/ conn' = [conn EXCEPT ![c].pc = "done"] /\ open' = release_slot
  /\ UNCHANGED <<sgVars, dsets, logVars, svVars, dev, rcb, trk, nreq>>

\* serve returns: the peer went, the association was aborted or closed.
EndServe(c) ==
  /\ conn[c].pc = "idle"
  /\ conn' = [conn EXCEPT ![c].pc = "cleanup"]
  /\ UNCHANGED <<sgVars, dsets, logVars, svVars, dev, open, rcb, trk, nreq>>

\* Under the model lock the association leaves the table and its report
\* subscription and reservations go.
Cleanup(c) ==
  /\ conn[c].pc = "cleanup"
  /\ rcb' = IF rcb.owner = c THEN [rcb EXCEPT !.ena = FALSE, !.owner = NoConn] ELSE rcb
  /\ sv_release(c)
  /\ conn' = [conn EXCEPT ![c].pc = "queue", ![c].ending = TRUE, ![c].evs = sv_released(c)]
  /\ UNCHANGED <<sgVars, dsets, logVars, sv_queue, sv_deliver, told, dev, open, trk, nreq>>

ReleaseSlot(c) ==
  /\ conn[c].pc = "slot"
  /\ open' = release_slot
  /\ conn' = [conn EXCEPT ![c].pc = "done"]
  /\ UNCHANGED <<sgVars, dsets, logVars, svVars, dev, rcb, trk, nreq>>

-----------------------------------------------------------------------------
(* The Write service                                                       *)

Receive(c) ==
  /\ conn[c].pc = "idle" /\ nreq < MaxReq
  /\ \E r \in dev.requests : conn' = [conn EXCEPT ![c].pc = "write", ![c].todo = r]
  /\ nreq' = nreq + 1
  /\ UNCHANGED <<sgVars, dsets, logVars, svVars, dev, open, rcb, trk>>

\* Tracker::track: the tracking object of the block's kind takes the service and
\* its outcome.
track(kind, svc, res) == [trk EXCEPT ![kind] = [svc |-> svc, err |-> res, n |-> @.n + 1]]

\* What the request has changed so far: the object's objRef, which
\* track_cb_write sets last, raises data-update.
raised(changes, kind) == [changes EXCEPT ![kind] = @ \cup {"dupd"}]

\* A variable is written and answered "res", and the write is tracked when the
\* model has the object for it (track_cb_write).
Answered(c, kind, svc, res, evs) ==
  LET tracked == kind \in Tracked /\ dev.tracks
  IN /\ trk' = IF tracked THEN track(kind, svc, res) ELSE trk
     /\ conn' = [conn EXCEPT ![c].todo = Tail(@), ![c].evs = @ \o evs,
                             ![c].changes = IF tracked THEN raised(@, kind) ELSE @]
     /\ UNCHANGED <<dev, open, nreq>>

\* The object for a write to the setting group control block: the services of
\* its other attributes have none.
sgcb_kind(attr) == IF attr \in {"ActSG", "EditSG", "CnfEdit"} THEN "SgcbTrk" ELSE "none"

\* The answer to a write the block's rules gave "check": the application's
\* write hook may refuse what they admit.
hooked(check) == IF check # "ok" THEN {check} ELSE {"ok"} \cup dev.hook

Writing1(c, kind) == /\ conn[c].pc = "write" /\ conn[c].todo # <<>>
                     /\ Head(conn[c].todo).kind = kind

WriteSgcb(c) ==
  LET w == Head(conn[c].todo)
  IN /\ Writing1(c, "sgcb")
     /\ \E res \in hooked(sg_check_write(w.attr, w.val)) :
          /\ IF res = "ok" THEN on_sgcb_write(w.attr, w.val) ELSE UNCHANGED sgVars
          /\ Answered(c, sgcb_kind(w.attr), w.attr, res, <<>>)
     /\ UNCHANGED <<dsets, logVars, svVars, rcb>>

WriteSE(c) ==
  LET w == Head(conn[c].todo)
  IN /\ Writing1(c, "se")
     /\ \E res \in hooked(IF se_permitted THEN "ok" ELSE "TemporarilyUnavailable") :
          /\ IF res = "ok" THEN StoreSE(w.attr, w.val) ELSE UNCHANGED sgVars
          /\ Answered(c, "none", w.attr, res, <<>>)
     /\ UNCHANGED <<dsets, logVars, svVars, rcb>>

WriteLcb(c) ==
  LET w == Head(conn[c].todo)
  IN /\ Writing1(c, "lcb")
     /\ \E res \in hooked(check_lcb_write(w.blk, w.attr, w.val)) :
          /\ IF res = "ok" THEN on_lcb_write(w.blk, w.attr, w.val) ELSE UNCHANGED <<lcb, tasks>>
          /\ Answered(c, "LocbTrk", w.attr, res, <<>>)
     /\ UNCHANGED <<sgVars, dsets, entries, lastId, now, reader, svVars, rcb>>

WriteSvcb(c) ==
  LET w == Head(conn[c].todo)
  IN /\ Writing1(c, "svcb")
     /\ \E res \in hooked(sv_check_write(c, w.blk, w.attr)) :
          IF res = "ok"
          THEN /\ sv_on_write(c, w.blk, w.attr, w.val)
               /\ Answered(c, "SvcbTrk", w.attr, res, sv_events(c, w.blk, w.attr, w.val))
          ELSE UNCHANGED <<svcb, made>> /\ Answered(c, "SvcbTrk", w.attr, res, <<>>)
     /\ UNCHANGED <<sgVars, dsets, logVars, sv_queue, sv_deliver, told, rcb>>

\* check_rcb_write and on_rcb_write, for RptEna and DatSet: the first write
\* reserves the block for the writer.
rcb_check(c, attr, v) ==
  IF rcb.owner \notin {NoConn, c} THEN "TemporarilyUnavailable"
  ELSE IF attr = "RptEna" THEN IF v /\ (rcb.ena \/ ~resolves(rcb.datSet))
                               THEN "TemporarilyUnavailable" ELSE "ok"
  ELSE IF rcb.ena THEN "TemporarilyUnavailable"
  ELSE IF v # NoDs /\ ~resolves(v) THEN "ObjectValueInvalid" ELSE "ok"

WriteRcb(c) ==
  LET w == Head(conn[c].todo)
  IN /\ Writing1(c, "rcb")
     /\ \E res \in hooked(rcb_check(c, w.attr, w.val)) :
          /\ rcb' = IF res # "ok" THEN rcb
                    ELSE IF w.attr = "RptEna" THEN [rcb EXCEPT !.ena = w.val, !.owner = c]
                    ELSE [rcb EXCEPT !.datSet = w.val, !.owner = c]
          /\ Answered(c, "UrcbTrk", w.attr, res, <<>>)
     /\ UNCHANGED <<sgVars, dsets, logVars, svVars>>

\* report_changes, once the request is applied.
ReportChanges(c) ==
  /\ conn[c].pc = "write" /\ conn[c].todo = <<>>
  /\ IF conn[c].changes = NoChanges THEN UNCHANGED <<entries, lastId, lcb>>
     ELSE log_changes(conn[c].changes)
  /\ conn' = [conn EXCEPT ![c].pc = "queue", ![c].changes = NoChanges]
  /\ UNCHANGED <<sgVars, dsets, now, tasks, reader, svVars, dev, open, rcb, trk, nreq>>

\* queue_sv, outside the model lock.
QueueSv(c) ==
  /\ conn[c].pc = "queue"
  /\ queue_sv(conn[c].evs)
  /\ conn' = [conn EXCEPT ![c].pc = "lock", ![c].evs = <<>>]
  /\ UNCHANGED <<sgVars, dsets, logVars, svcb, sv_deliver, told, made, dev, open, rcb, trk, nreq>>

FlushLock(c) ==
  /\ conn[c].pc = "lock"
  /\ flush_lock(c)
  /\ conn' = [conn EXCEPT ![c].pc = "flush"]
  /\ UNCHANGED <<sgVars, dsets, logVars, svcb, sv_queue, told, made, dev, open, rcb, trk, nreq>>

FlushBatch(c) ==
  /\ conn[c].pc = "flush"
  /\ flush_batch
  /\ UNCHANGED <<sgVars, dsets, logVars, svcb, sv_deliver, made, devVars>>

FlushDone(c) ==
  /\ conn[c].pc = "flush"
  /\ flush_done
  /\ conn' = [conn EXCEPT ![c].pc = IF conn[c].ending THEN "slot" ELSE "idle"]
  /\ UNCHANGED <<sgVars, dsets, logVars, svcb, sv_queue, told, made, dev, open, rcb, trk, nreq>>

-----------------------------------------------------------------------------
(* The other services and the process                                      *)

\* Server::update: the process changes a value; the logs have it before the
\* lock is released.
Update ==
  /\ \E m \in dev.data, r \in Reasons :
       log_changes([NoChanges EXCEPT ![m] = {r}])
  /\ UNCHANGED <<sgVars, dsets, now, tasks, reader, svVars, devVars>>

\* The data sets the control blocks name: the report and log control blocks by
\* their current DatSet, the others by their configured one.
data_sets_in_use == {rcb.datSet} \cup {lcb[l].datSet : l \in LcbSet} \cup CbNamed

DefineDataSet(c) ==
  /\ conn[c].pc = "idle"
  /\ \E d \in dev.dynamic : define_nvl(d)
  /\ UNCHANGED <<sgVars, logVars, svVars, devVars>>

DeleteDataSets(c) ==
  /\ conn[c].pc = "idle" /\ dev.dynamic # {}
  /\ \E ds \in SUBSET (dev.dynamic \cup Configured) : delete_nvl(ds, data_sets_in_use)
  /\ UNCHANGED <<sgVars, logVars, svVars, devVars>>

InitializeJournal(c) ==
  /\ conn[c].pc = "idle" /\ dev.deletable_logs /\ entries # <<>>
  /\ \/ initialize_journal(MaxNow + 1, 0)
     \/ \E t \in 0 .. now, e \in {0} \cup {entries[i].id : i \in 1 .. Len(entries)} :
          initialize_journal(t, e)
  /\ UNCHANGED <<sgVars, svVars, devVars>>

ReadJournal ==
  /\ dev.reads
  /\ ReadPage \/ \E end \in 0 .. MaxNow : BeginRead(end)
  /\ UNCHANGED <<sgVars, svVars, devVars>>

IntegrityTask ==
  /\ \E t \in tasks : IntegrityDue(t) \/ IntegrityLog(t)
  /\ UNCHANGED <<sgVars, svVars, devVars>>

Tick ==
  /\ dev.reads
  /\ ClockTick
  /\ UNCHANGED <<sgVars, svVars, devVars>>

\* Server::close: the report engine and the log tasks stop; the associations
\* of the table end like any other.
CloseServer ==
  /\ dev.closes
  /\ log_close
  /\ rcb' = [rcb EXCEPT !.ena = FALSE]
  /\ dev' = [dev EXCEPT !.closes = FALSE]
  /\ UNCHANGED <<sgVars, dsets, entries, lastId, now, reader, svVars, conn, open, trk, nreq>>

\* An association's task once its request is being handled or it has ended.
Progress(c) ==
  \/ WriteSgcb(c) \/ WriteSE(c) \/ WriteLcb(c) \/ WriteSvcb(c) \/ WriteRcb(c)
  \/ ReportChanges(c) \/ QueueSv(c) \/ FlushLock(c) \/ FlushBatch(c) \/ FlushDone(c)
  \/ Cleanup(c) \/ ReleaseSlot(c)

ObjectNext ==
  \/ \E c \in Conn : \/ Progress(c) \/ TakeSlot(c) \/ Accept(c) \/ EndServe(c) \/ Receive(c)
                     \/ DefineDataSet(c) \/ DeleteDataSets(c) \/ InitializeJournal(c)
  \/ Update \/ ReadJournal \/ IntegrityTask \/ Tick \/ CloseServer

\* The file store is behind no lock of the model's and shares no state with it.
Next ==
  \/ ObjectNext /\ UNCHANGED fileVars
  \/ dev.files /\ FileNext /\ UNCHANGED objVars

Spec == DeviceInit /\ [][Next]_vars /\ \A c \in Conn : WF_vars(Progress(c) /\ UNCHANGED fileVars)

-----------------------------------------------------------------------------
TypeOK == SgTypeOK /\ DsTypeOK /\ LogTypeOK /\ SvTypeOK /\ FileTypeOK
          /\ \A c \in Conn : /\ conn[c].pc \in {"none", "setup", "idle", "write", "queue", "lock",
                                            "flush", "cleanup", "slot", "done"}
                            /\ conn[c].changes \in [Member -> SUBSET Reasons]
                            /\ conn[c].evs \in Seq(SvEvent)

\* The slots taken are those of the connections between take_slot and
\* release_slot, and never more than the limit: no way a setup fails or an
\* association ends loses a slot or gives one back twice.
SlotsCounted ==
  /\ open = Cardinality({c \in Conn : conn[c].pc \notin {"none", "done"}})
  /\ dev.max_conns > 0 => open <= dev.max_conns

\* A data set that a report or log control block names exists: deleting one
\* and naming one, by whichever associations, never cross.
NamedSetExists == \A d \in {rcb.datSet} \cup {lcb[l].datSet : l \in LcbSet} : d # NoDs => d \in dsets

\* A reservation belongs to an association that is in the connection table:
\* no block stays reserved for one that has gone.
ReservedByOpen ==
  /\ \A b \in SvBlk : svcb[b].owner # NoConn => svcb[b].owner \in conns
  /\ rcb.owner # NoConn => rcb.owner \in conns

\* An event waiting for delivery has an association on its way to deliver it:
\* the one that drains the queue last leaves nothing behind.
QueueIsServed ==
  sv_queue # <<>> => \E c \in Conn : conn[c].pc \in {"lock", "flush"}

\* An association that ends leaves nothing behind: no slot, no reservation and
\* no event that nobody delivers.
NothingLeftBehind == SlotsCounted /\ ReservedByOpen /\ QueueIsServed

\* "one call at a time and in the order the changes were made" (on_sv_control):
\* what the application is told of a block last is its latest change.  It may not be: events are queued after the model
\* lock is released, in any order.
ToldInOrder == [][\A b \in SvBlk : told'[b].n >= told[b].n]_vars

\* "a data set holding it reports every service" (tracking.rs): every tracked
\* service of a block reaches the enabled log that has the tracking object.  Two services of one
\* request share an entry.
ServicesLogged ==
  (\A c \in Conn : conn[c].pc = "idle") /\ dev.tracks =>
     Cardinality({i \in 1 .. Len(entries) : "SgcbTrk" \in entries[i].vars}) = trk["SgcbTrk"].n

\* An association that ended gives its slot back, whoever else is delivering
\* events.
SlotReturned == \A c \in Conn : (conn[c].pc = "cleanup") ~> (conn[c].pc = "done")
=============================================================================
