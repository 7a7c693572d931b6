------------------------------ MODULE Journal ------------------------------
(***************************************************************************)
(* A log, the log control blocks that write it (server/journal.rs), the    *)
(* journal services (server/services_ext.rs) and a client that reads the   *)
(* log page by page (mms/services.rs).                                     *)
(*                                                                         *)
(* The control blocks' integrity tasks wake by themselves and then wait    *)
(* for the model lock.  stop_integrity aborts a task that sleeps; one that *)
(* is waiting for the lock goes on and finds its generation outdated.      *)
(***************************************************************************)
EXTENDS DataSets, Sequences

CONSTANTS
  Lcb,        \* the log control blocks, in the order of their keys
  Writing,    \* those that name the log; the others have no journal
  Capacity,   \* entries the log keeps
  PageCap,    \* entries that fit in one ReadJournal response
  MaxEntries, \* bound: entries ever logged
  MaxNow      \* bound: the wall clock, in milliseconds

LcbSet == {Lcb[i] : i \in DOMAIN Lcb}
Reasons == {"dchg", "dupd"}
Trigger == Reasons \cup {"integrity"}
NoRange == [old |-> 0, new |-> 0]

ASSUME LogAssumption == Lcb \in Seq(LcbSet) /\ Writing \subseteq LcbSet /\ Capacity \in Nat \ {0}
                        /\ PageCap \in Nat \ {0} /\ MaxEntries \in Nat /\ MaxNow \in Nat

VARIABLES
  entries,  \* the log: [id, time, vars], oldest first
  lastId,   \* the server's EntryID counter
  now,      \* the wall clock
  lcb,      \* the blocks' attributes and generation
  tasks,    \* integrity tasks: [lcb, gen, due]
  reader    \* the client's query: [pc, got, seen, end, jumped]

logVars == <<entries, lastId, now, lcb, tasks, reader>>

NoReader == [pc |-> "idle", got |-> <<>>, seen |-> {}, end |-> 0, jumped |-> FALSE]

Last(s) == s[Len(s)]
Min(S) == CHOOSE x \in S : \A y \in S : x <= y
Max(S) == CHOOSE x \in S : \A y \in S : y <= x

\* A bug: a block that is not enabled keeps the range it had.
sync_EnabledOnly(blocks, es) ==
  IF es = <<>> THEN blocks
  ELSE [l \in LcbSet |->
          IF l \in Writing /\ blocks[l].ena
          THEN [blocks[l] EXCEPT !.range = [old |-> Head(es).id, new |-> Last(es).id]]
          ELSE blocks[l]]

\* sync: the range of every block that writes the log; an empty log leaves the
\* ranges as they are.
sync(blocks, es) ==
  IF es = <<>> THEN blocks
  ELSE [l \in LcbSet |->
          IF l \in Writing
          THEN [blocks[l] EXCEPT !.range = [old |-> Head(es).id, new |-> Last(es).id]]
          ELSE blocks[l]]

\* append: the entries go in at the end and the oldest past the capacity out.
append(vs) ==
  LET new == [i \in 1 .. Len(vs) |-> [id |-> lastId + i, time |-> now, vars |-> vs[i]]]
      all == entries \o new
      es  == SubSeq(all, Len(all) - (IF Len(all) < Capacity THEN Len(all) ELSE Capacity) + 1,
                    Len(all))
  IN /\ entries' = es
     /\ lastId' = lastId + Len(vs)
     /\ lcb' = sync(lcb, es)

\* The members of a block's data set that the changes touch for a reason its
\* TrgOps asks for.
wanted(l, changes) ==
  {m \in DsMembers[lcb[l].datSet] : changes[m] \cap lcb[l].trg # {}}

\* on_update: one entry per enabled block that has something to log, in the
\* order of the blocks.
log_changes(changes) ==
  LET logs(l) == /\ l \in Writing /\ lcb[l].ena /\ resolves(lcb[l].datSet)
                 /\ wanted(l, changes) # {}
      some == {i \in 1 .. Len(Lcb) : logs(Lcb[i])}
      n == Cardinality(some)
  IN \E who \in [1 .. n -> some] :
       /\ \A i, k \in 1 .. n : i < k => who[i] < who[k]
       /\ lastId + n <= MaxEntries
       /\ append([i \in 1 .. n |-> wanted(Lcb[who[i]], changes)])

\* Whether a client may write an attribute of a log control block.
check_lcb_write(l, attr, v) ==
  CASE attr = "LogEna" ->
         IF v /\ (l \notin Writing \/ ~resolves(lcb[l].datSet)) THEN "TemporarilyUnavailable"
         ELSE "ok"
    [] attr \in {"DatSet", "TrgOps", "IntgPd"} ->
         IF lcb[l].ena THEN "TemporarilyUnavailable"
         ELSE IF attr = "DatSet" /\ v # NoDs /\ ~resolves(v) THEN "ObjectValueInvalid"
         ELSE "ok"
    [] OTHER -> "ObjectAccessDenied"

\* stop_integrity: aborts a sleeping task and outdates a waiting one.
stopped(ls) == {t \in tasks : t.lcb \notin ls \/ t.due}

\* start_integrity, after stop_integrity: a task of the new generation, when
\* the block asks for integrity entries.
started(l, gen) ==
  stopped({l}) \cup (IF lcb[l].intgPd /\ "integrity" \in lcb[l].trg /\ l \in Writing
                     THEN {[lcb |-> l, gen |-> gen, due |-> FALSE]} ELSE {})

\* Stores an admitted LCB write and applies it: on_lcb_write starts or stops
\* the integrity task when LogEna is written, whether or not it changed.
on_lcb_write(l, attr, v) ==
  \/ /\ attr = "LogEna"
     /\ lcb' = [lcb EXCEPT ![l].ena = v, ![l].gen = @ + 1]
     /\ tasks' = IF v THEN started(l, lcb[l].gen + 1) ELSE stopped({l})
  \/ attr = "DatSet" /\ lcb' = [lcb EXCEPT ![l].datSet = v] /\ tasks' = tasks
  \/ attr = "TrgOps" /\ lcb' = [lcb EXCEPT ![l].trg = v] /\ tasks' = tasks
  \/ attr = "IntgPd" /\ lcb' = [lcb EXCEPT ![l].intgPd = v] /\ tasks' = tasks

\* The log manager's close: every integrity task is stopped.
log_close ==
  /\ tasks' = stopped(LcbSet)
  /\ lcb' = [l \in LcbSet |-> [lcb[l] EXCEPT !.gen = @ + 1]]

\* The interval of a task elapses and it asks for the model lock.
IntegrityDue(t) ==
  /\ ~t.due
  /\ tasks' = (tasks \ {t}) \cup {[t EXCEPT !.due = TRUE]}
  /\ UNCHANGED <<entries, lastId, now, lcb, reader, dsets>>

\* log_all: a task of an outdated generation ends; any other logs every member
\* of the data set and sleeps again.
IntegrityLog(t) ==
  /\ t.due
  /\ \/ /\ t.gen # lcb[t.lcb].gen
        /\ tasks' = tasks \ {t}
        /\ UNCHANGED <<entries, lastId, lcb>>
     \/ /\ t.gen = lcb[t.lcb].gen
        /\ tasks' = (tasks \ {t}) \cup {[t EXCEPT !.due = FALSE]}
        /\ LET ms == IF resolves(lcb[t.lcb].datSet) THEN DsMembers[lcb[t.lcb].datSet] ELSE {}
           IN /\ lastId + 1 <= MaxEntries
              /\ append(IF ms = {} THEN <<>> ELSE <<ms>>)
  /\ UNCHANGED <<now, reader, dsets>>

\* Milliseconds pass.
ClockTick ==
  /\ now < MaxNow
  /\ now' = now + 1
  /\ UNCHANGED <<entries, lastId, lcb, tasks, reader, dsets>>

\* InitializeJournal: all entries, or those up to a time and no further than an
\* entry, go; the ranges are brought up to date.
initialize_journal(limit, entry) ==
  LET late(e) == e.time > limit
      hit == {i \in 1 .. Len(entries) : entries[i].id = entry /\ entries[i].time <= limit}
      upto == Cardinality({i \in 1 .. Len(entries) :
                             /\ \A k \in 1 .. i : ~late(entries[k])
                             /\ \A h \in hit : i <= h})
      es == SubSeq(entries, upto + 1, Len(entries))
  IN /\ entries' = es
     /\ lcb' = sync(lcb, es)
     /\ UNCHANGED <<lastId, now, tasks, reader, dsets>>

\* parse_journal_query on what the client asks for: the range of times it wants
\* and, from the second page on, the entry to continue after.
parse_journal_query(r) ==
  [end |-> r.end, after |-> IF r.got = <<>> THEN <<>> ELSE <<Last(r.got)>>]

\* Where a continuation begins: after the entry, or after its time when the log
\* no longer holds it.
after(e) ==
  LET at == {i \in 1 .. Len(entries) : entries[i].id = e.id}
      later == {i \in 1 .. Len(entries) : entries[i].time > e.time}
  IN IF at # {} THEN (CHOOSE i \in at : TRUE) + 1
     ELSE IF later # {} THEN Min(later)
     ELSE Len(entries) + 1

\* JournalQuery::select: the entries from there on, up to the first past the range.
select(q) ==
  LET first == IF q.after = <<>> THEN 1 ELSE after(q.after[1])
  IN {i \in first .. Len(entries) : \A k \in first .. i : entries[k].time <= q.end}

\* fill_page: as many as the response has room for.
fill_page(sel) == {i \in sel : \A k \in sel : i < k + PageCap}

\* read_journal_by_time begins: a range of times, from the oldest entry on.
BeginRead(end) ==
  /\ reader.pc = "idle"
  /\ reader' = [NoReader EXCEPT !.pc = "reading", !.end = end]
  /\ UNCHANGED <<entries, lastId, now, lcb, tasks, dsets>>

\* One ReadJournal: the client keeps the entries of the page and continues
\* while more follow (read_journal_all).
ReadPage ==
  LET sel == select(parse_journal_query(reader))
      page == fill_page(sel)
      range == {i \in 1 .. Len(entries) : entries[i].time <= reader.end}
      knows == reader.got = <<>> \/ \E i \in 1 .. Len(entries) : entries[i] = Last(reader.got)
  IN /\ reader.pc = "reading"
     /\ reader' = [reader EXCEPT
          !.got = IF page = {} THEN @ ELSE @ \o SubSeq(entries, Min(page), Max(page)),
          !.jumped = @ \/ ~knows,
          !.seen = {entries[i].id : i \in range},
          !.pc = IF page = sel THEN "done" ELSE "reading"]
     /\ UNCHANGED <<entries, lastId, now, lcb, tasks, dsets>>

-----------------------------------------------------------------------------
LogTypeOK ==
  /\ Len(entries) <= Capacity
  /\ \A i \in 1 .. Len(entries) : entries[i].id \in 1 .. lastId /\ entries[i].time \in 0 .. now
  /\ \A l \in LcbSet : lcb[l].datSet \in DsName \cup {NoDs} /\ lcb[l].trg \subseteq Trigger

\* A log control block names the oldest and the newest entry of a log that
\* holds any, after every append, discard and deletion, whichever block or
\* service caused it (sync).
RangeDescribesLog ==
  entries # <<>> => \A l \in Writing : lcb[l].range = [old |-> Head(entries).id, new |-> Last(entries).id]

\* "While the log holds nothing the entry range reads as empty" (cb.rs).  It
\* does not: deleting every entry leaves the ranges as they were.
EmptyLogHasNoRange == entries = <<>> => \A l \in Writing : lcb[l].range = NoRange

\* An integrity task whose generation is current belongs to a block that is
\* enabled and configured for integrity, and there is one at most: a task of an
\* earlier enabling, however late it gets the lock, logs nothing under a
\* configuration it was not started for.
IntegrityIsCurrent ==
  \A t \in tasks : t.gen = lcb[t.lcb].gen =>
    /\ lcb[t.lcb].ena /\ lcb[t.lcb].intgPd /\ "integrity" \in lcb[t.lcb].trg
    /\ \A u \in tasks : u.lcb = t.lcb /\ u.gen = t.gen => u = t

\* A paged read returns entries in order and none twice, and misses one that
\* the log still held when it ended only if the log had discarded the entry a
\* page continued after.
PagesFollow ==
  /\ \A i, k \in 1 .. Len(reader.got) : i < k => reader.got[i].id < reader.got[k].id
  /\ reader.pc = "done" /\ ~reader.jumped =>
       reader.seen \subseteq {reader.got[i].id : i \in 1 .. Len(reader.got)}

\* The log, its blocks and its readers: what the three invariants above say.
LogIsFaithful == RangeDescribesLog /\ IntegrityIsCurrent /\ PagesFollow

\* "gap-free continuation" (client/log.rs): a finished read has every entry of
\* its range the log held.  It may miss some: when the entry to continue after
\* has been discarded, entries of its very millisecond are passed over.
GapFree ==
  reader.pc = "done" => reader.seen \subseteq {reader.got[i].id : i \in 1 .. Len(reader.got)}
=============================================================================
