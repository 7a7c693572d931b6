---------------------------- MODULE DeviceProofs ----------------------------
(***************************************************************************)
(* What holds of the server's objects for every model, every number of     *)
(* associations and every workload.                                        *)
(*                                                                         *)
(* Each invariant is about state that several services share, and follows  *)
(* from what the steps of the device do (DeviceLemmas) and, for the logs,  *)
(* from the operations on the log by themselves (JournalProofs).           *)
(***************************************************************************)
EXTENDS DeviceLemmas, JournalProofs

-----------------------------------------------------------------------------
(* What the device starts with and keeps                                   *)

\* SetToSeq lists the elements of a finite set.
LEMMA SetToSeqIsSeq ==
  ASSUME NEW S, IsFiniteSet(S)
  PROVE  SetToSeq(S) \in Seq(S)
<1>1. Cardinality(S) \in Nat
  BY FiniteSize
<1>2. SetToSeq(S) \in [1 .. Cardinality(S) -> S]
  BY FiniteList, Zenon DEF SetToSeq
<1> QED
  BY <1>1, <1>2

\* A slot is taken, given back or kept by each step as the table says.
LEMMA SlotStep ==
  ASSUME DevOK, SlotInv, [Next]_vars
  PROVE  SlotInv'
<1>1. IsFiniteSet(Up) /\ open = Cardinality(Up) /\ Cardinality(Up) \in Nat
  BY FiniteSize DEF SlotInv, SlotsCounted, Up
<1>2. dev'.max_conns = dev.max_conns /\ dev.max_conns \in Nat /\ (dev.max_conns > 0 => open <= dev.max_conns)
  BY DevStep DEF DevOK, Scenario, SlotInv, SlotsCounted
<1>3. ASSUME Up' = Up, open' = open PROVE SlotInv'
  BY <1>1, <1>2, <1>3, Zenon DEF SlotInv, SlotsCounted, Up
<1>4. ASSUME NEW c \in Conn, NEW pc, NEW e, Moved(c, pc, e),
             conn[c].pc \notin {"none", "done"}, pc \notin {"none", "done"}, open' = open
      PROVE  SlotInv'
  BY <1>3, <1>4 DEF Up, Moved
<1>5. ASSUME NEW c \in Conn, NEW e, Moved(c, "done", e),
             conn[c].pc \notin {"none", "done"}, open' = release_slot
      PROVE  SlotInv'
  <2>1. Up' = Up \ {c} /\ c \in Up
    BY <1>5 DEF Up, Moved
  <2>2. IsFiniteSet(Up \ {c}) /\ Cardinality(Up \ {c}) = Cardinality(Up) - 1
    BY <1>1, <2>1, FinitePlus
  <2>3. Cardinality(Up) > 0
    BY <1>1, <2>1, FiniteSize
  <2>4. open' = open - 1
    BY <1>1, <1>5, <2>3 DEF release_slot
  <2>5. IsFiniteSet(Up') /\ open' = Cardinality(Up')
    BY <1>1, <2>1, <2>2, <2>4
  <2> QED
    BY <1>1, <1>2, <2>4, <2>5 DEF SlotInv, SlotsCounted, Up
<1>6. ASSUME NEW c \in Conn, WriteStep(c) PROVE SlotInv'
  <2>1. open' = open /\ \A d \in Conn : conn'[d].pc = conn[d].pc
    BY <1>6, WriteKeeps DEF WriteStep
  <2> QED
    BY <1>3, <2>1 DEF Up
<1>7. ASSUME NEW c \in Conn, RequestStep(c) PROVE SlotInv'
  <2>1. open' = open
    BY <1>7 DEF RequestStep, Receive, ReportChanges, QueueSv, Cleanup
  <2> QED
    BY <1>4, <1>7, <2>1, RequestMoves, Zenon DEF RequestStep
<1>8. ASSUME NEW c \in Conn, LifeStep(c) PROVE SlotInv'
  <2>1. ConnOK
    BY DEF DevOK
  <2>2. CASE TakeSlot(c)
    <3>1. CASE Moved(c, "done", conn[c].ending) /\ open' = open
      <4>1. Up' = Up
        BY <2>1, <2>2, <3>1, LifeMoves, Zenon DEF Up, Moved
      <4> QED
        BY <1>3, <3>1, <4>1
    <3>2. CASE Moved(c, "setup", conn[c].ending) /\ open' = open + 1 /\ take_slot
      <4>1. Up' = Up \cup {c} /\ c \notin Up
        BY <2>1, <2>2, <3>2, LifeMoves, Zenon DEF Up, Moved
      <4>2. IsFiniteSet(Up') /\ Cardinality(Up') = Cardinality(Up) + 1
        BY <1>1, <4>1, FinitePlus
      <4> QED
        BY <1>1, <1>2, <3>2, <4>2 DEF SlotInv, SlotsCounted, Up, take_slot
    <3> QED
      BY <2>1, <2>2, <3>1, <3>2, LifeMoves, Zenon
  <2>3. CASE Accept(c)
    BY <1>4, <1>5, <2>1, <2>3, LifeMoves
  <2>4. CASE ReleaseSlot(c)
    BY <1>5, <2>1, <2>4, LifeMoves, Zenon DEF ReleaseSlot
  <2>5. CASE EndServe(c) \/ FlushLock(c) \/ FlushDone(c)
    <3>1. open' = open
      BY <2>5 DEF EndServe, FlushLock, FlushDone
    <3> QED
      BY <1>4, <2>1, <2>5, <3>1, LifeMoves
  <2> QED
    BY <1>8, <2>2, <2>3, <2>4, <2>5 DEF LifeStep
<1>9. ASSUME OtherStep PROVE SlotInv'
  BY <1>3, <1>9, OthersKeep DEF Up
<1> QED
  BY <1>6, <1>7, <1>8, <1>9, StepsOfNext

\* What the device starts from.
LEMMA DeviceStarts ==
  ASSUME DeviceInit
  PROVE  ObjOK /\ SlotInv /\ ReservedByOpen /\ QueueIsServed
<1>1. dev \in Scenario /\ conn = [c \in Conn |-> NewConn] /\ open = 0 /\ sv_queue = <<>>
      /\ svcb = [b \in SvBlk |-> [owner |-> NoConn, Resv |-> FALSE, SvEna |-> FALSE]]
      /\ made = [b \in SvBlk |-> 0]
      /\ dsets = Configured /\ rcb = [ena |-> FALSE, datSet |-> NoDs, owner |-> NoConn]
  BY DeviceAssumption, Zenon DEF DeviceInit, SvInit
<1>2. NewConn \in ConnRec /\ NewConn.pc = "none" /\ ~NewConn.ending
  <2>1. NoChanges \in [Member -> SUBSET Reasons]
    BY DEF NoChanges
  <2> QED
    BY <2>1 DEF NewConn, ConnRec, Pcs
<1>3. ConnOK
  BY <1>1, <1>2 DEF ConnOK
<1>4. SvOK
  BY <1>1 DEF SvOK, SvRec
<1>5. SvListed
  <2>1. \A bs \in SUBSET SvBlk : IsFiniteSet(bs)
    BY SvAssumption, FinitePart
  <2> QED
    BY <2>1, SetToSeqIsSeq DEF SvListed
<1>6. ObjOK
  BY <1>1, <1>3, <1>4, <1>5, DsAssumption DEF ObjOK, DevOK, DsTypeOK, RcbRec
<1>7. SlotInv
  <2>1. Up = {}
    BY <1>1, <1>2 DEF Up
  <2>2. IsFiniteSet(Up) /\ Cardinality(Up) = 0
    BY <2>1, FiniteSize
  <2> QED
    BY <1>1, <2>2 DEF SlotInv, SlotsCounted, Up, Scenario
<1>8. ReservedByOpen /\ QueueIsServed
  BY <1>1 DEF ReservedByOpen, QueueIsServed
<1> QED
  BY <1>6, <1>7, <1>8

\* An association that ends, at whatever point and whatever others do, leaves
\* no slot taken, no block reserved and no event undelivered by everyone
\* (serve_transport, release_slot, release_conn, flush_sv).
THEOREM NothingIsLeft == Spec => []NothingLeftBehind
<1> DEFINE Inv == ObjOK /\ SlotInv /\ ReservedByOpen /\ QueueIsServed
<1>1. DeviceInit => Inv
  BY DeviceStarts
<1>2. Inv /\ [Next]_vars => Inv'
  <2> SUFFICES ASSUME Inv, [Next]_vars PROVE Inv'
    OBVIOUS
  <2>1. DevOK
    BY DEF ObjOK
  <2> QED
    BY <2>1, ObjStep, SlotStep, ReservedStep, QueueStep
<1>3. Inv => NothingLeftBehind
  BY DEF NothingLeftBehind, SlotInv
<1> QED
  BY <1>1, <1>2, <1>3, PTL DEF Spec

\* The values served under SG are those of the active group, and the edit view
\* holds the edited group's but for what clients wrote into it, whatever
\* associations select, write and confirm in between (settinggroup.rs).
THEOREM GroupsAreServed == ASSUME ActiveIsDeclared PROVE Spec => []GroupsServed
<1> DEFINE Inv == DevOK /\ SgInv /\ ActiveIsServed
<1>1. DeviceInit => Inv
  BY DeviceStarts, GroupsStart DEF ObjOK
<1>2. Inv /\ [Next]_vars => Inv'
  BY DevStep, SgOfNext, SgStepKeeps DEF DevOK
<1>3. Inv => GroupsServed
  BY DEF SgInv, GroupsServed
<1> QED
  BY <1>1, <1>2, <1>3, PTL DEF Spec

\* A group's stored values change only when an edit of that group is confirmed,
\* and only where some client wrote the edit view during it: neither a switch of
\* the active group nor another association's edit reaches them
\* (confirm_edit_sg_values).
THEOREM OnlyConfirmStores == Spec => ConfirmStoresTheEdit
<1> DEFINE Inv == DevOK /\ SgInv
           Stores == \A s \in Setting, g \in 1 .. NumOfSG :
                       groups'[s][g] # groups[s][g] => g = edit_sg /\ s \in touched /\ edit_sg' = 0
<1>1. DeviceInit => Inv
  BY DeviceStarts, GroupsStart DEF ObjOK
<1>2. Inv /\ [Next]_vars => Inv'
  BY DevStep, SgOfNext, SgStepKeeps DEF DevOK
<1>3. Inv /\ [Next]_vars => [Stores]_sgVars
  BY SgOfNext, SgStepStores DEF DevOK
<1> QED
  BY <1>1, <1>2, <1>3, PTL DEF Spec, ConfirmStoresTheEdit

-----------------------------------------------------------------------------
(* The device keeps its logs                                               *)

\* Whatever the device does to the log is one of the log's operations; the
\* blocks come to name no data set but one that exists.
LEMMA LogOfNext ==
  ASSUME LogInv, DsTypeOK, ConnOK, [Next]_vars
  PROVE  LogInv' /\ \A l \in LcbSet : lcb'[l].datSet \in {lcb[l].datSet, NoDs} \cup dsets
<1> DEFINE Kept == LogInv' /\ \A l \in LcbSet : lcb'[l].datSet \in {lcb[l].datSet, NoDs} \cup dsets
<1>0. LogOK
  BY DEF LogInv
<1>1. ASSUME UNCHANGED logVars PROVE Kept
  BY <1>1, Zenon DEF logVars, LogInv, LogOK, LogGood, ReadGood, PagesFollow, TasksGood, IntegrityIsCurrent,
              RangeDescribesLog
<1>2. ASSUME NEW changes, log_changes(changes), UNCHANGED <<now, tasks, reader>> PROVE Kept
  <2>1. PICK vs \in Seq(SUBSET Member) : append(vs)
    BY <1>0, <1>2, ChangesAppend
  <2>2. tasks' = tasks /\ tasks' \subseteq TaskRec
    BY <1>0, <1>2 DEF LogOK
  <2>3. /\ tasks' \subseteq TaskRec => LogOK'
        /\ LogGood(entries, lastId)' /\ ReadGood' /\ RangeDescribesLog'
        /\ tasks' = tasks => TasksGood'
        /\ \A l \in LcbSet : lcb'[l].datSet = lcb[l].datSet
    BY <1>2, <2>1, AppendKeeps, Zenon
  <2> QED
    BY <2>2, <2>3, Zenon DEF LogInv
<1>3. ASSUME NEW c \in Conn, WriteLcb(c) PROVE Kept
  <2> DEFINE w == Head(conn[c].todo)
  <2>1. PICK res \in hooked(check_lcb_write(w.blk, w.attr, w.val)) :
          IF res = "ok" THEN on_lcb_write(w.blk, w.attr, w.val) ELSE UNCHANGED <<lcb, tasks>>
    BY <1>3, Zenon DEF WriteLcb
  <2>2. conn[c].todo # <<>> /\ w.kind = "lcb" /\ UNCHANGED <<entries, lastId, now, reader>>
    BY <1>3, Zenon DEF WriteLcb, Writing1
  <2>3. w.blk \in LcbSet /\ LcbValue(w.attr, w.val)
    BY <2>2, FirstIsDecoded, Zenon DEF Decoded, LcbValue
  <2>4. res = "ok" => check_lcb_write(w.blk, w.attr, w.val) = "ok"
    BY DEF hooked
  <2> HIDE DEF w
  <2>5. CASE res = "ok"
    BY <2>1, <2>2, <2>3, <2>4, <2>5, LcbWriteKeeps, Zenon
  <2>6. CASE res # "ok"
    BY <1>1, <2>1, <2>2, <2>6, Zenon DEF logVars
  <2> QED
    BY <2>5, <2>6
<1>4. ASSUME NEW c \in Conn, WriteSgcb(c) \/ WriteSE(c) \/ WriteSvcb(c) \/ WriteRcb(c) PROVE Kept
  <2>1. UNCHANGED logVars
    BY <1>4, Zenon DEF WriteSgcb, WriteSE, WriteSvcb, WriteRcb
  <2> QED
    BY <1>1, <2>1
<1>5. ASSUME NEW c \in Conn, LifeStep(c) \/ Receive(c) \/ QueueSv(c) \/ Cleanup(c) PROVE Kept
  <2>1. UNCHANGED logVars
    BY <1>5, Zenon DEF LifeStep, TakeSlot, Accept, EndServe, ReleaseSlot, FlushLock, FlushDone, Receive, QueueSv,
                       Cleanup
  <2> QED
    BY <1>1, <2>1
<1>6. ASSUME NEW c \in Conn, ReportChanges(c) PROVE Kept
  <2>1. UNCHANGED <<now, tasks, reader>> /\ (UNCHANGED <<entries, lastId, lcb>> \/ log_changes(conn[c].changes))
    BY <1>6 DEF ReportChanges
  <2> QED
    BY <1>1, <1>2, <2>1 DEF logVars
<1>7. ASSUME Update PROVE Kept
  BY <1>2, <1>7, Zenon DEF Update
<1>8. ASSUME NEW c \in Conn, InitializeJournal(c) PROVE Kept
  BY <1>8, InitializeKeeps DEF InitializeJournal
<1>9. ASSUME ReadJournal PROVE Kept
  <2>1. \A x \in 0 .. MaxNow : x \in Nat
    BY LogAssumption
  <2>2. ReadPage \/ \E x \in Nat : BeginRead(x)
    BY <1>9, <2>1 DEF ReadJournal
  <2> QED
    BY <2>2, PageKeeps, BeginKeeps
<1>10. ASSUME IntegrityTask PROVE Kept
  BY <1>10, DueKeeps, IntegrityLogKeeps DEF IntegrityTask
<1>11. ASSUME Tick PROVE Kept
  BY <1>11, TickKeeps DEF Tick
<1>12. ASSUME CloseServer PROVE Kept
  BY <1>12, CloseKeeps DEF CloseServer
<1>13. ASSUME \/ \E c \in Conn : DefineDataSet(c) \/ DeleteDataSets(c) \/ FlushBatch(c)
              \/ UNCHANGED objVars
       PROVE  Kept
  BY <1>1, <1>13, Zenon DEF DefineDataSet, DeleteDataSets, FlushBatch, objVars
<1> HIDE DEF Kept
<1> QED
  BY <1>3, <1>4, <1>5, <1>6, <1>7, <1>8, <1>9, <1>10, <1>11, <1>12, <1>13, StepsOfNext, Zenon
     DEF WriteStep, RequestStep, OtherStep, Kept

\* The log starts empty, with a task for each block that is configured to log
\* for integrity.
LEMMA LogStarts ==
  ASSUME DeviceInit
  PROVE  LogInv
<1>1. /\ entries = <<>> /\ lastId = 0 /\ now = 0 /\ reader = NoReader /\ dev \in Scenario
      /\ tasks = {[lcb |-> l, gen |-> 1, due |-> FALSE] : l \in {x \in Writing :
                    dev.lcb[x].ena /\ dev.lcb[x].intgPd /\ "integrity" \in dev.lcb[x].trg}}
  BY DeviceAssumption, Zenon DEF DeviceInit
<1> DEFINE r(l) == [ena |-> dev.lcb[l].ena, datSet |-> dev.lcb[l].datSet,
                    trg |-> dev.lcb[l].trg, intgPd |-> dev.lcb[l].intgPd,
                    range |-> NoRange, gen |-> 1]
<1>2. lcb = [l \in LcbSet |-> r(l)]
  BY Zenon DEF DeviceInit
<1>3. ASSUME NEW l \in LcbSet
      PROVE  /\ r(l) \in LcbRec /\ r(l).gen = 1 /\ r(l).ena = dev.lcb[l].ena
             /\ r(l).intgPd = dev.lcb[l].intgPd /\ r(l).trg = dev.lcb[l].trg
  <2>1. dev.lcb[l] \in [ena : BOOLEAN, datSet : DsName \cup {NoDs}, trg : SUBSET Trigger, intgPd : BOOLEAN]
    BY <1>1, Zenon DEF Scenario
  <2>2. NoRange \in [old : Nat, new : Nat]
    BY DEF NoRange
  <2> QED
    BY <2>1, <2>2, Zenon DEF LcbRec
<1> HIDE DEF r
<1>4. lcb \in [LcbSet -> LcbRec] /\ \A l \in LcbSet : lcb[l] = r(l)
  BY <1>2, <1>3
<1> DEFINE new(l) == [lcb |-> l, gen |-> 1, due |-> FALSE]
           asks == {x \in Writing : dev.lcb[x].ena /\ dev.lcb[x].intgPd /\ "integrity" \in dev.lcb[x].trg}
<1>5. \A t \in tasks : /\ t \in TaskRec /\ t.lcb \in LcbSet /\ t.gen = 1 /\ t = new(t.lcb)
                       /\ dev.lcb[t.lcb].ena /\ dev.lcb[t.lcb].intgPd /\ "integrity" \in dev.lcb[t.lcb].trg
  <2> SUFFICES ASSUME NEW t \in tasks
               PROVE  /\ t \in TaskRec /\ t.lcb \in LcbSet /\ t.gen = 1 /\ t = new(t.lcb)
                      /\ dev.lcb[t.lcb].ena /\ dev.lcb[t.lcb].intgPd /\ "integrity" \in dev.lcb[t.lcb].trg
    OBVIOUS
  <2>1. PICK l \in asks : t = new(l)
    BY <1>1, Zenon
  <2>2. new(l).lcb = l /\ new(l).gen = 1 /\ (l \in LcbSet => new(l) \in TaskRec)
    BY DEF TaskRec
  <2>3. l \in LcbSet
    BY LogAssumption
  <2> QED
    BY <2>1, <2>2, <2>3
<1>6. \A t, u \in tasks : t.lcb = u.lcb => t = u
  BY <1>5, Zenon
<1>7. /\ reader \in ReaderRec /\ Len(reader.got) = 0 /\ reader.got = <<>> /\ reader.pc = "idle"
  <2> DEFINE none == <<>>
  <2>1. none \in Seq(EntryRec) /\ Len(none) = 0 /\ none = <<>>
    OBVIOUS
  <2>2. reader = [pc |-> "idle", got |-> none, seen |-> {}, end |-> 0, jumped |-> FALSE]
    BY <1>1 DEF NoReader
  <2> HIDE DEF none
  <2> QED
    BY <2>1, <2>2 DEF ReaderRec
<1>8. entries \in Seq(EntryRec) /\ Len(entries) = 0
  BY <1>1
<1>9. LogOK
  BY <1>1, <1>4, <1>5, <1>7, <1>8 DEF LogOK
<1>10. LogGood(entries, lastId) /\ ReadGood
  <2>1. 1 .. Len(entries) = {} /\ 1 .. Len(reader.got) = {}
    BY <1>7, <1>8
  <2> QED
    BY <1>7, <1>8, <2>1, Zenon DEF LogGood, ReadGood, PagesFollow
<1>11. TasksGood
  BY <1>3, <1>4, <1>5, <1>6 DEF TasksGood, IntegrityIsCurrent
<1> QED
  BY <1>1, <1>9, <1>10, <1>11 DEF LogInv, RangeDescribesLog

\* The blocks' ranges describe the log, an integrity task of an earlier enabling
\* logs nothing however late it gets the lock, and a paged read returns entries
\* in order, none twice, and all that the log still holds unless the entry a
\* page continued after was discarded (journal.rs, read_journal_all).
THEOREM LogsAreFaithful == Spec => []LogIsFaithful
<1> DEFINE Inv == ObjOK /\ LogInv
<1>1. DeviceInit => Inv
  BY DeviceStarts, LogStarts
<1>2. Inv /\ [Next]_vars => Inv'
  BY ObjStep, LogOfNext, Zenon DEF ObjOK, DevOK
<1>3. Inv => LogIsFaithful
  BY DEF LogInv, LogIsFaithful, ReadGood, TasksGood
<1> QED
  BY <1>1, <1>2, <1>3, PTL DEF Spec

\* The documents configure the log control blocks with data sets they declare.
LogsAreConfigured ==
  \A d \in Scenarios, l \in LcbSet : d.lcb[l].datSet \in Configured \cup {NoDs}

\* Naming a data set and deleting one exclude each other.
LEMMA NamedStep ==
  ASSUME ObjOK, LogInv, NamedSetExists, [Next]_vars
  PROVE  NamedSetExists'
<1>1. DsTypeOK /\ ConnOK
  BY DEF ObjOK, DevOK
<1>2. CASE \E c \in Conn : DefineDataSet(c)
  <2>1. dsets \subseteq dsets' /\ rcb' = rcb /\ lcb' = lcb
    BY <1>2 DEF DefineDataSet, define_nvl, devVars, logVars
  <2> QED
    BY <2>1 DEF NamedSetExists
<1>3. CASE \E c \in Conn : DeleteDataSets(c)
  <2>1. PICK ds : dsets' = dsets \ ((ds \ Configured) \ data_sets_in_use) /\ rcb' = rcb /\ lcb' = lcb
    BY <1>3 DEF DeleteDataSets, delete_nvl, devVars, logVars
  <2> QED
    BY <2>1 DEF NamedSetExists, data_sets_in_use
<1>4. CASE dsets' = dsets
  <2>1. \A l \in LcbSet : lcb'[l].datSet \in {lcb[l].datSet, NoDs} \cup dsets
    BY <1>1, LogOfNext
  <2>2. rcb'.datSet \in {rcb.datSet, NoDs} \cup dsets
    BY RcbSteps, RcbWriteKeeps, Zenon DEF ObjOK, RcbRec
  <2> QED
    BY <1>4, <2>1, <2>2 DEF NamedSetExists
<1> QED
  BY <1>2, <1>3, <1>4, DataSetSteps

\* A data set that a report or log control block names exists, whichever
\* associations name, define and delete data sets at the same time
\* (check_rcb_write, check_lcb_write, delete_dataset).
THEOREM NamedSetsExist == ASSUME LogsAreConfigured PROVE Spec => []NamedSetExists
<1> DEFINE Inv == ObjOK /\ LogInv /\ NamedSetExists
<1>1. DeviceInit => Inv
  <2> SUFFICES ASSUME DeviceInit PROVE NamedSetExists
    BY DeviceStarts, LogStarts
  <2>1. dsets = Configured /\ rcb.datSet = NoDs
    BY Zenon DEF DeviceInit
  <2>2. \A l \in LcbSet : lcb[l].datSet \in Configured \cup {NoDs}
    BY Zenon DEF DeviceInit, LogsAreConfigured
  <2> QED
    BY <2>1, <2>2 DEF NamedSetExists
<1>2. Inv /\ [Next]_vars => Inv'
  BY ObjStep, LogOfNext, NamedStep, Zenon DEF ObjOK, DevOK
<1>3. Inv => NamedSetExists
  OBVIOUS
<1> QED
  BY <1>1, <1>2, <1>3, PTL DEF Spec
=============================================================================
