--------------------------- MODULE JournalProofs ---------------------------
(***************************************************************************)
(* What the operations of the log keep, for every log, capacity, page size *)
(* and set of log control blocks.  DeviceProofs has the theorems: it shows *)
(* that whatever the device does to the log is one of these operations.    *)
(***************************************************************************)
EXTENDS Journal, TLAPS

EntryRec == [id : Nat, time : Nat, vars : SUBSET Member]
LcbRec == [ena : BOOLEAN, datSet : DsName \cup {NoDs}, trg : SUBSET Trigger, intgPd : BOOLEAN,
           range : [old : Nat, new : Nat], gen : Nat]
TaskRec == [lcb : LcbSet, gen : Nat, due : BOOLEAN]
ReaderRec == [pc : {"idle", "reading", "done"}, got : Seq(EntryRec), seen : SUBSET Nat, end : Nat,
              jumped : BOOLEAN]

LogOK ==
  /\ entries \in Seq(EntryRec) /\ lastId \in Nat /\ now \in Nat
  /\ lcb \in [LcbSet -> LcbRec] /\ tasks \subseteq TaskRec /\ reader \in ReaderRec

\* A sequence of entries that could be the log, the last id given out being id:
\* ids increase, times never go back, and what the reader has got so far agrees
\* with it.  The reader's part is what makes a continuation find its place: an
\* entry no newer than one it has is no later either, and unless a page had to
\* be found by its time, an entry of the range up to the last one got was got.
LogGood(es, id) ==
  /\ es \in Seq(EntryRec)
  /\ \A i \in 1 .. Len(es) : es[i].id <= id /\ es[i].time <= now
  /\ \A i, k \in 1 .. Len(es) : i < k => es[i].id < es[k].id /\ es[i].time <= es[k].time
  /\ \A i \in 1 .. Len(es), k \in 1 .. Len(reader.got) :
       es[i].id <= reader.got[k].id => es[i].time <= reader.got[k].time
  /\ reader.pc = "reading" /\ ~reader.jumped /\ reader.got # <<>> =>
       \A i \in 1 .. Len(es) : es[i].id <= Last(reader.got).id /\ es[i].time <= reader.end =>
         \E k \in 1 .. Len(reader.got) : reader.got[k].id = es[i].id

ReadGood == PagesFollow /\ \A k \in 1 .. Len(reader.got) : reader.got[k].id <= lastId

TasksGood == IntegrityIsCurrent /\ \A t \in tasks : t.gen <= lcb[t.lcb].gen

LogInv == LogOK /\ LogGood(entries, lastId) /\ ReadGood /\ TasksGood /\ RangeDescribesLog

-----------------------------------------------------------------------------
(* The log                                                                 *)

\* One sequence after another.
LEMMA JoinedIsSeq ==
  ASSUME NEW S, NEW s \in Seq(S), NEW t \in Seq(S)
  PROVE  /\ s \o t \in Seq(S) /\ Len(s \o t) = Len(s) + Len(t)
         /\ \A i \in 1 .. Len(s) + Len(t) : (s \o t)[i] = IF i <= Len(s) THEN s[i] ELSE t[i - Len(s)]
OBVIOUS

\* Discarding the oldest entries leaves a log.
LEMMA SuffixIsGood ==
  ASSUME LogOK, NEW es, NEW id \in Nat, LogGood(es, id), NEW a \in 1 .. Len(es) + 1
  PROVE  LogGood(SubSeq(es, a, Len(es)), id)
<1> DEFINE ss == SubSeq(es, a, Len(es))
<1>1. es \in Seq(EntryRec) /\ Len(es) \in Nat
  BY DEF LogGood
<1>2. ss \in Seq(EntryRec) /\ Len(ss) = Len(es) - a + 1
  BY <1>1
<1>3. \A i \in 1 .. Len(ss) : ss[i] = es[i + a - 1] /\ i + a - 1 \in 1 .. Len(es)
  BY <1>1, <1>2
<1> HIDE DEF ss
<1>4. \A i, k \in 1 .. Len(ss) : i < k => i + a - 1 < k + a - 1
  BY <1>2
<1> QED
  BY <1>2, <1>3, <1>4, Zenon DEF LogGood, ss

\* So does adding entries with the ids that follow.
LEMMA GrownIsGood ==
  ASSUME LogOK, ReadGood, LogGood(entries, lastId), NEW vs \in Seq(SUBSET Member)
  PROVE  LogGood(entries \o [i \in 1 .. Len(vs) |-> [id |-> lastId + i, time |-> now, vars |-> vs[i]]],
                 lastId + Len(vs))
<1> DEFINE new == [i \in 1 .. Len(vs) |-> [id |-> lastId + i, time |-> now, vars |-> vs[i]]]
           all == entries \o new
           n == Len(entries)
<1>1. /\ entries \in Seq(EntryRec) /\ lastId \in Nat /\ now \in Nat /\ n \in Nat /\ Len(vs) \in Nat
      /\ reader.got \in Seq(EntryRec)
  BY DEF LogOK, ReaderRec
<1>2. new \in Seq(EntryRec) /\ Len(new) = Len(vs)
  <2>1. \A i \in 1 .. Len(vs) : vs[i] \in SUBSET Member /\ lastId + i \in Nat
    BY <1>1
  <2>2. \A i \in 1 .. Len(vs) : [id |-> lastId + i, time |-> now, vars |-> vs[i]] \in EntryRec
    BY <1>1, <2>1 DEF EntryRec
  <2> QED
    BY <1>1, <2>2
<1>3. \A i \in 1 .. Len(new) : new[i].id = lastId + i /\ new[i].time = now
  BY <1>2
<1> HIDE DEF new
<1>4. all \in Seq(EntryRec) /\ Len(all) = n + Len(vs)
  <2>1. all \in Seq(EntryRec) /\ Len(all) = n + Len(new)
    BY <1>1, <1>2, JoinedIsSeq, Zenon
  <2> QED
    BY <1>2, <2>1
<1>5. \A i \in 1 .. Len(all) : \/ i \in 1 .. n /\ all[i] = entries[i]
                               \/ i > n /\ all[i].id = lastId + (i - n) /\ all[i].time = now
  BY <1>1, <1>2, <1>3, <1>4
<1> HIDE DEF all
<1>6. \A i \in 1 .. n : entries[i].id \in Nat /\ entries[i].time \in Nat
                        /\ entries[i].id <= lastId /\ entries[i].time <= now
  <2>1. \A i \in 1 .. n : entries[i] \in EntryRec
    BY <1>1
  <2> QED
    BY <2>1 DEF LogGood, EntryRec
<1>7. ASSUME NEW i \in 1 .. Len(all)
      PROVE  all[i].id <= lastId + Len(vs) /\ all[i].time <= now
  <2>1. CASE i \in 1 .. n /\ all[i] = entries[i]
    BY <1>1, <1>6, <2>1
  <2>2. CASE i > n /\ all[i].id = lastId + (i - n) /\ all[i].time = now
    BY <1>1, <1>4, <2>2
  <2> QED
    BY <1>5, <2>1, <2>2
<1>8. \A i, k \in 1 .. Len(all) : i < k => all[i].id < all[k].id /\ all[i].time <= all[k].time
  <2> SUFFICES ASSUME NEW i \in 1 .. Len(all), NEW k \in 1 .. Len(all), i < k
               PROVE  all[i].id < all[k].id /\ all[i].time <= all[k].time
    OBVIOUS
  <2>1. i \in Nat /\ k \in Nat
    BY <1>4
  <2>2. CASE k \in 1 .. n
    <3>1. i \in 1 .. n /\ all[i] = entries[i] /\ all[k] = entries[k]
      BY <1>1, <1>5, <2>1, <2>2
    <3> QED
      BY <2>2, <3>1 DEF LogGood
  <2>3. CASE k > n
    BY <1>1, <1>5, <1>6, <2>1, <2>3
  <2> QED
    BY <1>1, <2>1, <2>2, <2>3
<1>9. ASSUME NEW i \in 1 .. Len(all), NEW k \in 1 .. Len(reader.got), all[i].id <= reader.got[k].id
      PROVE  i \in 1 .. n /\ all[i] = entries[i]
  <2>0. reader.got[k] \in EntryRec
    BY <1>1
  <2>1. reader.got[k].id <= lastId /\ reader.got[k].id \in Nat
    BY <2>0 DEF ReadGood, EntryRec
  <2>2. i \in Nat /\ n \in Nat /\ lastId \in Nat
    BY <1>1, <1>4
  <2>3. all[i].id <= lastId
    <3>1. i \in 1 .. n \/ (i > n /\ all[i].id = lastId + (i - n))
      BY <1>5
    <3> QED
      BY <1>5, <1>6, <1>9, <2>1, <2>2, <3>1
  <2> QED
    BY <1>5, <2>2, <2>3
<1>10. \A i \in 1 .. Len(all), k \in 1 .. Len(reader.got) :
         all[i].id <= reader.got[k].id => all[i].time <= reader.got[k].time
  BY <1>9 DEF LogGood
<1>11. reader.pc = "reading" /\ ~reader.jumped /\ reader.got # <<>> =>
         \A i \in 1 .. Len(all) : all[i].id <= Last(reader.got).id /\ all[i].time <= reader.end =>
           \E k \in 1 .. Len(reader.got) : reader.got[k].id = all[i].id
  <2>1. reader.got # <<>> => Len(reader.got) \in 1 .. Len(reader.got)
    BY <1>1
  <2> QED
    BY <1>9, <2>1 DEF LogGood, Last
<1> QED
  BY <1>4, <1>7, <1>8, <1>10, <1>11, Zenon DEF LogGood, all, new

\* sync writes ranges and nothing else, and the ranges describe the log.
LEMMA SyncKeeps ==
  ASSUME LogOK, NEW es \in Seq(EntryRec)
  PROVE  /\ sync(lcb, es) \in [LcbSet -> LcbRec]
         /\ \A l \in LcbSet : /\ sync(lcb, es)[l].ena = lcb[l].ena /\ sync(lcb, es)[l].trg = lcb[l].trg
                              /\ sync(lcb, es)[l].gen = lcb[l].gen
                              /\ sync(lcb, es)[l].intgPd = lcb[l].intgPd
                              /\ sync(lcb, es)[l].datSet = lcb[l].datSet
         /\ es # <<>> => \A l \in Writing :
                           sync(lcb, es)[l].range = [old |-> Head(es).id, new |-> Last(es).id]
<1>1. lcb \in [LcbSet -> LcbRec] /\ Writing \subseteq LcbSet
  BY LogAssumption DEF LogOK
<1>2. CASE es = <<>>
  BY <1>1, <1>2 DEF sync
<1>3. CASE es # <<>>
  <2> DEFINE rg == [old |-> Head(es).id, new |-> Last(es).id]
             new(l) == IF l \in Writing THEN [lcb[l] EXCEPT !.range = rg] ELSE lcb[l]
  <2>1. Head(es) \in EntryRec /\ Last(es) \in EntryRec
    BY <1>3 DEF Last
  <2>2. rg \in [old : Nat, new : Nat]
    BY <2>1 DEF EntryRec
  <2>3. sync(lcb, es) = [l \in LcbSet |-> new(l)]
    BY <1>3 DEF sync
  <2> HIDE DEF rg
  <2>4. ASSUME NEW l \in LcbSet
        PROVE  /\ new(l) \in LcbRec /\ new(l).ena = lcb[l].ena /\ new(l).trg = lcb[l].trg
               /\ new(l).gen = lcb[l].gen /\ new(l).intgPd = lcb[l].intgPd
               /\ new(l).datSet = lcb[l].datSet /\ (l \in Writing => new(l).range = rg)
    <3>1. lcb[l] \in LcbRec
      BY <1>1
    <3> QED
      BY <2>2, <3>1 DEF LcbRec
  <2> HIDE DEF new
  <2>5. \A l \in LcbSet : sync(lcb, es)[l] = new(l)
    BY <2>3
  <2>6. sync(lcb, es) \in [LcbSet -> LcbRec]
    BY <2>3, <2>4
  <2> QED
    BY <1>1, <2>4, <2>5, <2>6 DEF rg
<1> QED
  BY <1>2, <1>3

\* New contents for the log, with the ranges brought up to date.
LEMMA ContentsKeep ==
  ASSUME LogInv, NEW es, NEW id \in Nat, LogGood(es, id), lastId <= id,
         entries' = es, lastId' = id, lcb' = sync(lcb, es), now' = now, reader' = reader
  PROVE  /\ tasks' \subseteq TaskRec => LogOK'
         /\ LogGood(entries, lastId)' /\ ReadGood' /\ RangeDescribesLog'
         /\ tasks' = tasks => TasksGood'
         /\ \A l \in LcbSet : /\ lcb'[l].gen = lcb[l].gen /\ lcb'[l].ena = lcb[l].ena
                              /\ lcb'[l].intgPd = lcb[l].intgPd /\ lcb'[l].trg = lcb[l].trg
                              /\ lcb'[l].datSet = lcb[l].datSet
<1>1. LogOK /\ es \in Seq(EntryRec)
  BY DEF LogInv, LogGood
<1>2. /\ lcb' \in [LcbSet -> LcbRec]
      /\ \A l \in LcbSet : /\ lcb'[l].ena = lcb[l].ena /\ lcb'[l].trg = lcb[l].trg
                           /\ lcb'[l].gen = lcb[l].gen /\ lcb'[l].intgPd = lcb[l].intgPd
                           /\ lcb'[l].datSet = lcb[l].datSet
      /\ es # <<>> => \A l \in Writing : lcb'[l].range = [old |-> Head(es).id, new |-> Last(es).id]
  BY <1>1, SyncKeeps
<1>3. tasks' \subseteq TaskRec => LogOK'
  BY <1>1, <1>2 DEF LogOK
<1>4. LogGood(entries, lastId)'
  BY DEF LogGood
<1>5. ReadGood'
  <2>1. \A k \in 1 .. Len(reader.got) : reader.got[k].id \in Nat
    <3>1. \A k \in 1 .. Len(reader.got) : reader.got[k] \in EntryRec
      BY <1>1 DEF LogOK, ReaderRec
    <3> QED
      BY <3>1 DEF EntryRec
  <2> QED
    BY <1>1, <2>1 DEF LogInv, LogOK, ReadGood, PagesFollow
<1>6. RangeDescribesLog'
  BY <1>2 DEF RangeDescribesLog
<1>7. tasks' = tasks => TasksGood'
  <2>1. \A t \in tasks : t.lcb \in LcbSet
    BY <1>1 DEF LogOK, TaskRec
  <2> QED
    BY <1>2, <2>1 DEF LogInv, TasksGood, IntegrityIsCurrent
<1> QED
  BY <1>2, <1>3, <1>4, <1>5, <1>6, <1>7

\* append, whoever logs.
LEMMA AppendKeeps ==
  ASSUME LogInv, NEW vs \in Seq(SUBSET Member), append(vs), now' = now, reader' = reader
  PROVE  /\ tasks' \subseteq TaskRec => LogOK'
         /\ LogGood(entries, lastId)' /\ ReadGood' /\ RangeDescribesLog'
         /\ tasks' = tasks => TasksGood'
         /\ \A l \in LcbSet : /\ lcb'[l].gen = lcb[l].gen /\ lcb'[l].ena = lcb[l].ena
                              /\ lcb'[l].intgPd = lcb[l].intgPd /\ lcb'[l].trg = lcb[l].trg
                              /\ lcb'[l].datSet = lcb[l].datSet
<1> DEFINE new == [i \in 1 .. Len(vs) |-> [id |-> lastId + i, time |-> now, vars |-> vs[i]]]
           all == entries \o new
           kept == IF Len(all) < Capacity THEN Len(all) ELSE Capacity
           a == Len(all) - kept + 1
           es == SubSeq(all, a, Len(all))
<1>1. LogOK /\ ReadGood /\ LogGood(entries, lastId) /\ lastId \in Nat /\ Len(vs) \in Nat
  BY DEF LogInv, LogOK
<1>2. LogGood(all, lastId + Len(vs)) /\ lastId + Len(vs) \in Nat /\ lastId <= lastId + Len(vs)
  BY <1>1, GrownIsGood
<1>3. entries' = es /\ lastId' = lastId + Len(vs) /\ lcb' = sync(lcb, es)
  BY Zenon DEF append
<1> HIDE DEF all
<1>4. a \in 1 .. Len(all) + 1
  <2>1. Len(all) \in Nat
    BY <1>2 DEF LogGood
  <2>2. Capacity \in Nat
    BY LogAssumption
  <2>3. kept \in Nat /\ kept <= Len(all)
    BY <2>1, <2>2
  <2> HIDE DEF kept
  <2> QED
    BY <2>1, <2>3
<1> HIDE DEF a
<1>5. LogGood(es, lastId + Len(vs))
  BY <1>1, <1>2, <1>4, SuffixIsGood
<1> HIDE DEF es
<1> QED
  BY <1>2, <1>3, <1>5, ContentsKeep

-----------------------------------------------------------------------------
(* Integrity tasks                                                         *)

\* Only the tasks or the blocks change, and the blocks keep their ranges.
LEMMA BlocksKeep ==
  ASSUME LogInv, UNCHANGED <<entries, lastId, now, reader>>, LogOK', TasksGood',
         \A l \in LcbSet : lcb'[l].range = lcb[l].range
  PROVE  LogInv'
<1>1. LogGood(entries, lastId)'
  BY DEF LogInv, LogGood
<1>2. ReadGood'
  BY DEF LogInv, ReadGood, PagesFollow
<1>3. RangeDescribesLog'
  BY LogAssumption DEF LogInv, RangeDescribesLog
<1> QED
  BY <1>1, <1>2, <1>3 DEF LogInv

\* A task that sleeps, wakes or has logged is the same task.
LEMMA TaskMoves ==
  ASSUME LogInv, NEW t \in tasks, NEW b \in BOOLEAN,
         \A l \in LcbSet : /\ lcb'[l].gen = lcb[l].gen /\ lcb'[l].ena = lcb[l].ena
                           /\ lcb'[l].intgPd = lcb[l].intgPd /\ lcb'[l].trg = lcb[l].trg,
         tasks' = (tasks \ {t}) \cup {[t EXCEPT !.due = b]}
  PROVE  tasks' \subseteq TaskRec /\ TasksGood'
<1> DEFINE u == [t EXCEPT !.due = b]
<1>1. tasks \subseteq TaskRec /\ t \in TaskRec
  BY DEF LogInv, LogOK
<1>2. u \in TaskRec /\ u.lcb = t.lcb /\ u.gen = t.gen
  BY <1>1 DEF TaskRec
<1>3. tasks' = (tasks \ {t}) \cup {u}
  OBVIOUS
<1> HIDE DEF u
<1>4. tasks' \subseteq TaskRec
  BY <1>1, <1>2, <1>3
<1>5. \A x \in tasks \cup {u} : x.lcb \in LcbSet
  BY <1>1, <1>2 DEF TaskRec
<1>6. \A x \in tasks' : x.gen <= lcb'[x.lcb].gen
  BY <1>2, <1>3, <1>5 DEF LogInv, TasksGood
<1>7. ASSUME NEW x \in tasks', x.gen = lcb'[x.lcb].gen
      PROVE  /\ lcb'[x.lcb].ena /\ lcb'[x.lcb].intgPd /\ "integrity" \in lcb'[x.lcb].trg
             /\ \A y \in tasks' : y.lcb = x.lcb /\ y.gen = x.gen => y = x
  <2>1. PICK z \in tasks : z.lcb = x.lcb /\ z.gen = x.gen /\ (x = z \/ (x = u /\ z = t))
    BY <1>2, <1>3
  <2>2. /\ lcb[z.lcb].ena /\ lcb[z.lcb].intgPd /\ "integrity" \in lcb[z.lcb].trg
        /\ \A y \in tasks : y.lcb = z.lcb /\ y.gen = z.gen => y = z
    BY <1>5, <1>7, <2>1 DEF LogInv, TasksGood, IntegrityIsCurrent
  <2>3. ASSUME NEW y \in tasks', y.lcb = x.lcb, y.gen = x.gen PROVE y = x
    <3>1. PICK w \in tasks : w.lcb = y.lcb /\ w.gen = y.gen /\ ((y = w /\ w # t) \/ (y = u /\ w = t))
      BY <1>2, <1>3
    <3>2. w = z
      BY <2>1, <2>2, <2>3, <3>1
    <3>3. (x = z /\ z # t) \/ (x = u /\ z = t)
      BY <1>2, <1>3, <2>1, <2>2
    <3> QED
      BY <3>1, <3>2, <3>3
  <2> QED
    BY <1>5, <2>1, <2>2, <2>3
<1> QED
  BY <1>4, <1>6, <1>7 DEF TasksGood, IntegrityIsCurrent

\* A task wakes.
LEMMA DueKeeps ==
  ASSUME LogInv, NEW t \in tasks, IntegrityDue(t)
  PROVE  LogInv' /\ lcb' = lcb
<1>1. tasks' = (tasks \ {t}) \cup {[t EXCEPT !.due = TRUE]} /\ lcb' = lcb
      /\ UNCHANGED <<entries, lastId, now, reader>>
  BY DEF IntegrityDue
<1>2. tasks' \subseteq TaskRec /\ TasksGood'
  BY <1>1, TaskMoves, Zenon
<1>3. LogOK'
  BY <1>1, <1>2 DEF LogInv, LogOK
<1> QED
  BY <1>1, <1>2, <1>3, BlocksKeep

\* A task that has the lock logs or ends.
LEMMA IntegrityLogKeeps ==
  ASSUME LogInv, DsTypeOK, NEW t \in tasks, IntegrityLog(t)
  PROVE  LogInv' /\ \A l \in LcbSet : lcb'[l].datSet = lcb[l].datSet
<1>1. now' = now /\ reader' = reader
  BY DEF IntegrityLog
<1>2. CASE tasks' = tasks \ {t} /\ UNCHANGED <<entries, lastId, lcb>>
  <2>1. LogOK' /\ TasksGood'
    BY <1>1, <1>2 DEF LogInv, LogOK, TasksGood, IntegrityIsCurrent
  <2> QED
    BY <1>1, <1>2, <2>1, BlocksKeep
<1> DEFINE ms == IF resolves(lcb[t.lcb].datSet) THEN DsMembers[lcb[t.lcb].datSet] ELSE {}
           vs == IF ms = {} THEN <<>> ELSE <<ms>>
<1>3. CASE tasks' = (tasks \ {t}) \cup {[t EXCEPT !.due = FALSE]} /\ append(vs)
  <2>1. ms \in SUBSET Member
    BY DsAssumption DEF resolves, DsTypeOK
  <2> HIDE DEF ms
  <2>2. vs \in Seq(SUBSET Member)
    <3>1. <<>> \in Seq(SUBSET Member) /\ <<ms>> \in Seq(SUBSET Member)
      BY <2>1
    <3> QED
      BY <3>1, Zenon
  <2> HIDE DEF vs
  <2>3. /\ tasks' \subseteq TaskRec => LogOK'
        /\ LogGood(entries, lastId)' /\ ReadGood' /\ RangeDescribesLog'
        /\ \A l \in LcbSet : /\ lcb'[l].gen = lcb[l].gen /\ lcb'[l].ena = lcb[l].ena
                             /\ lcb'[l].intgPd = lcb[l].intgPd /\ lcb'[l].trg = lcb[l].trg
                             /\ lcb'[l].datSet = lcb[l].datSet
    BY <1>1, <1>3, <2>2, AppendKeeps, Zenon
  <2>4. tasks' \subseteq TaskRec /\ TasksGood'
    BY <1>3, <2>3, TaskMoves, Zenon
  <2> QED
    BY <2>3, <2>4 DEF LogInv
<1>4. \/ tasks' = tasks \ {t} /\ UNCHANGED <<entries, lastId, lcb>>
      \/ tasks' = (tasks \ {t}) \cup {[t EXCEPT !.due = FALSE]} /\ append(vs)
  BY Zenon DEF IntegrityLog
<1> QED
  BY <1>2, <1>3, <1>4

\* The values a client may write to the attributes of a log control block.
LcbValue(attr, v) ==
  /\ attr \in {"LogEna", "IntgPd"} => v \in BOOLEAN
  /\ attr = "TrgOps" => v \subseteq Trigger

\* An admitted write outdates the task of the block, or the block has none.
LEMMA LcbWriteKeeps ==
  ASSUME LogInv, DsTypeOK, NEW l \in LcbSet, NEW attr, NEW v, LcbValue(attr, v),
         check_lcb_write(l, attr, v) = "ok", on_lcb_write(l, attr, v),
         UNCHANGED <<entries, lastId, now, reader>>
  PROVE  /\ LogInv'
         /\ \A x \in LcbSet : lcb'[x].datSet \in {lcb[x].datSet, NoDs} \cup dsets
<1>1. lcb \in [LcbSet -> LcbRec] /\ tasks \subseteq TaskRec /\ lcb[l] \in LcbRec /\ lcb[l].gen \in Nat
  BY DEF LogInv, LogOK, LcbRec
<1>2. \A t \in tasks : t.lcb \in LcbSet /\ t.gen \in Nat /\ t.gen <= lcb[t.lcb].gen
  BY <1>1 DEF LogInv, TasksGood, TaskRec
<1>3. CASE attr = "LogEna"
  <2> DEFINE g == lcb[l].gen + 1
             r == [lcb[l] EXCEPT !.ena = v, !.gen = g]
             n == [lcb |-> l, gen |-> lcb[l].gen + 1, due |-> FALSE]
  <2>1. v \in BOOLEAN
    BY <1>3 DEF LcbValue
  <2>2. /\ r \in LcbRec /\ r.ena = v /\ r.gen = g /\ r.range = lcb[l].range
        /\ r.trg = lcb[l].trg /\ r.intgPd = lcb[l].intgPd /\ r.datSet = lcb[l].datSet
    <3>1. g \in Nat
      BY <1>1
    <3> HIDE DEF g
    <3> QED
      BY <1>1, <2>1, <3>1, Zenon DEF LcbRec
  <2>3. lcb' = [lcb EXCEPT ![l] = r]
        /\ tasks' = IF v THEN started(l, lcb[l].gen + 1) ELSE stopped({l})
    BY <1>1, <1>3 DEF on_lcb_write, LcbRec
  <2> HIDE DEF r
  <2>4. lcb' \in [LcbSet -> LcbRec] /\ lcb'[l] = r /\ \A x \in LcbSet \ {l} : lcb'[x] = lcb[x]
    BY <1>1, <2>2, <2>3
  <2>5. n \in TaskRec /\ n.lcb = l /\ n.gen = lcb[l].gen + 1
    BY <1>1 DEF TaskRec
  <2> HIDE DEF n
  <2>6. \A t \in tasks' : \/ t \in tasks
                          \/ t = n /\ v /\ lcb[l].intgPd /\ "integrity" \in lcb[l].trg
    BY <2>1, <2>3 DEF started, stopped, n
  <2>7. LogOK'
    BY <1>1, <2>4, <2>5, <2>6 DEF LogInv, LogOK
  <2>8. \A t \in tasks' : t.gen <= lcb'[t.lcb].gen
    BY <1>1, <1>2, <2>2, <2>4, <2>5, <2>6
  <2>9. ASSUME NEW t \in tasks', t.gen = lcb'[t.lcb].gen
        PROVE  /\ lcb'[t.lcb].ena /\ lcb'[t.lcb].intgPd /\ "integrity" \in lcb'[t.lcb].trg
               /\ \A u \in tasks' : u.lcb = t.lcb /\ u.gen = t.gen => u = t
    <3>1. CASE t.lcb = l
      <4>1. \A u \in tasks : u.lcb = l => u.gen # lcb[l].gen + 1
        BY <1>1, <1>2
      <4>2. t = n /\ v /\ lcb[l].intgPd /\ "integrity" \in lcb[l].trg
        BY <2>2, <2>4, <2>6, <2>9, <3>1, <4>1
      <4> QED
        BY <2>2, <2>4, <2>5, <2>6, <3>1, <4>1, <4>2, Zenon
    <3>2. CASE t.lcb # l
      <4>1. t \in tasks /\ lcb'[t.lcb] = lcb[t.lcb]
        BY <1>2, <2>4, <2>5, <2>6, <3>2
      <4>2. \A u \in tasks' : u.lcb = t.lcb => u \in tasks
        BY <2>5, <2>6, <3>2
      <4> QED
        BY <2>9, <4>1, <4>2 DEF LogInv, TasksGood, IntegrityIsCurrent
    <3> QED
      BY <3>1, <3>2
  <2>10. TasksGood'
    BY <2>8, <2>9 DEF TasksGood, IntegrityIsCurrent
  <2> QED
    BY <2>2, <2>4, <2>7, <2>10, BlocksKeep
<1>4. CASE attr \in {"DatSet", "TrgOps", "IntgPd"}
  <2>1. ~lcb[l].ena /\ (attr = "DatSet" => v \in dsets \cup {NoDs})
    BY <1>4 DEF check_lcb_write, resolves
  <2>2. dsets \subseteq DsName
    BY DEF DsTypeOK
  <2>3. ASSUME NEW r \in LcbRec, lcb' = [lcb EXCEPT ![l] = r], tasks' = tasks, ~r.ena,
               r.gen = lcb[l].gen, r.range = lcb[l].range,
               r.datSet \in {lcb[l].datSet, NoDs} \cup dsets
        PROVE  /\ LogInv'
               /\ \A x \in LcbSet : lcb'[x].datSet \in {lcb[x].datSet, NoDs} \cup dsets
    <3>1. lcb' \in [LcbSet -> LcbRec] /\ lcb'[l] = r /\ \A x \in LcbSet \ {l} : lcb'[x] = lcb[x]
      BY <1>1, <2>3
    <3>2. LogOK'
      BY <2>3, <3>1 DEF LogInv, LogOK
    <3>3. \A t \in tasks : t.gen = lcb[t.lcb].gen => t.lcb # l
      BY <2>1 DEF LogInv, TasksGood, IntegrityIsCurrent
    <3>4. TasksGood'
      BY <1>2, <2>3, <3>1, <3>3 DEF LogInv, TasksGood, IntegrityIsCurrent
    <3> QED
      BY <2>3, <3>1, <3>2, <3>4, BlocksKeep
  <2>4. CASE attr = "DatSet"
    <3> DEFINE r == [lcb[l] EXCEPT !.datSet = v]
    <3>1. r \in LcbRec /\ ~r.ena /\ r.gen = lcb[l].gen /\ r.range = lcb[l].range /\ r.datSet = v
      BY <1>1, <2>1, <2>2, <2>4 DEF LcbRec
    <3>2. lcb' = [lcb EXCEPT ![l] = r] /\ tasks' = tasks
      BY <2>4 DEF on_lcb_write
    <3> HIDE DEF r
    <3> QED
      BY <2>1, <2>3, <2>4, <3>1, <3>2, Zenon
  <2>5. CASE attr = "TrgOps"
    <3> DEFINE r == [lcb[l] EXCEPT !.trg = v]
    <3>1. /\ r \in LcbRec /\ ~r.ena /\ r.gen = lcb[l].gen /\ r.range = lcb[l].range
          /\ r.datSet = lcb[l].datSet
      BY <1>1, <2>1, <2>5 DEF LcbRec, LcbValue
    <3>2. lcb' = [lcb EXCEPT ![l] = r] /\ tasks' = tasks
      BY <2>5 DEF on_lcb_write
    <3> HIDE DEF r
    <3> QED
      BY <2>3, <3>1, <3>2, Zenon
  <2>6. CASE attr = "IntgPd"
    <3> DEFINE r == [lcb[l] EXCEPT !.intgPd = v]
    <3>1. /\ r \in LcbRec /\ ~r.ena /\ r.gen = lcb[l].gen /\ r.range = lcb[l].range
          /\ r.datSet = lcb[l].datSet
      BY <1>1, <2>1, <2>6 DEF LcbRec, LcbValue
    <3>2. lcb' = [lcb EXCEPT ![l] = r] /\ tasks' = tasks
      BY <2>6 DEF on_lcb_write
    <3> HIDE DEF r
    <3> QED
      BY <2>3, <3>1, <3>2, Zenon
  <2> QED
    BY <1>4, <2>4, <2>5, <2>6
<1> QED
  BY <1>3, <1>4 DEF check_lcb_write

\* Closing the log manager outdates every task.
LEMMA CloseKeeps ==
  ASSUME LogInv, log_close, UNCHANGED <<entries, lastId, now, reader>>
  PROVE  LogInv' /\ \A l \in LcbSet : lcb'[l].datSet = lcb[l].datSet
<1>1. lcb \in [LcbSet -> LcbRec] /\ tasks \subseteq TaskRec
  BY DEF LogInv, LogOK
<1>2. \A t \in tasks : t.lcb \in LcbSet /\ t.gen \in Nat /\ t.gen <= lcb[t.lcb].gen
  BY <1>1 DEF LogInv, TasksGood, TaskRec
<1> DEFINE r(l) == [lcb[l] EXCEPT !.gen = @ + 1]
<1>3. lcb' = [l \in LcbSet |-> r(l)] /\ tasks' \subseteq tasks
  BY DEF log_close, stopped
<1>4. ASSUME NEW l \in LcbSet
      PROVE  /\ r(l) \in LcbRec /\ r(l).gen = lcb[l].gen + 1 /\ lcb[l].gen \in Nat
             /\ r(l).range = lcb[l].range /\ r(l).datSet = lcb[l].datSet
  <2>1. lcb[l] \in LcbRec
    BY <1>1
  <2> QED
    BY <2>1 DEF LcbRec
<1> HIDE DEF r
<1>5. lcb' \in [LcbSet -> LcbRec] /\ \A l \in LcbSet : lcb'[l] = r(l)
  BY <1>3, <1>4
<1>6. LogOK'
  BY <1>1, <1>3, <1>5 DEF LogInv, LogOK
<1>7. \A t \in tasks' : t.gen < lcb'[t.lcb].gen /\ t.gen \in Nat /\ lcb'[t.lcb].gen \in Nat
  BY <1>2, <1>3, <1>4, <1>5
<1>8. TasksGood'
  BY <1>7 DEF TasksGood, IntegrityIsCurrent
<1> QED
  BY <1>4, <1>5, <1>6, <1>8, BlocksKeep

-----------------------------------------------------------------------------
(* Reading                                                                 *)

\* The clock.
LEMMA TickKeeps ==
  ASSUME LogInv, ClockTick
  PROVE  LogInv' /\ lcb' = lcb
<1>1. LogOK /\ LogOK' /\ now' = now + 1 /\ lcb' = lcb
      /\ UNCHANGED <<entries, lastId, reader, tasks>>
  BY DEF LogInv, LogOK, ClockTick
<1>2. \A i \in 1 .. Len(entries) : entries[i] \in EntryRec
  BY <1>1 DEF LogOK
<1>3. \A i \in 1 .. Len(entries) : entries[i].time <= now + 1
  BY <1>1, <1>2 DEF LogInv, LogGood, LogOK, EntryRec
<1>4. LogGood(entries, lastId)'
  BY <1>1, <1>3 DEF LogInv, LogGood
<1> QED
  BY <1>1, <1>4 DEF LogInv, ReadGood, PagesFollow, TasksGood, IntegrityIsCurrent, RangeDescribesLog

\* A read begins with nothing.
LEMMA BeginKeeps ==
  ASSUME LogInv, NEW end \in Nat, BeginRead(end)
  PROVE  LogInv' /\ lcb' = lcb
<1> DEFINE none == <<>>
           r == [pc |-> "reading", got |-> none, seen |-> {}, end |-> end, jumped |-> FALSE]
<1>1. reader' = r /\ UNCHANGED <<entries, lastId, now, lcb, tasks>>
  BY Zenon DEF BeginRead, NoReader
<1>2. none \in Seq(EntryRec) /\ Len(none) = 0
  OBVIOUS
<1>3. r \in ReaderRec /\ r.got = <<>> /\ Len(r.got) = 0 /\ r.pc = "reading"
  <2>1. r.got = none /\ r.pc = "reading" /\ none = <<>>
    OBVIOUS
  <2> HIDE DEF none
  <2> QED
    BY <1>2, <2>1 DEF ReaderRec
<1> HIDE DEF r
<1>4. LogOK'
  BY <1>1, <1>3 DEF LogInv, LogOK
<1>5. 1 .. Len(reader'.got) = {} /\ reader'.got = <<>> /\ reader'.pc = "reading"
  BY <1>1, <1>3
<1>6. LogGood(entries, lastId)' /\ ReadGood'
  BY <1>1, <1>5 DEF LogInv, LogGood, ReadGood, PagesFollow
<1> QED
  BY <1>1, <1>4, <1>6 DEF LogInv, TasksGood, IntegrityIsCurrent, RangeDescribesLog

-----------------------------------------------------------------------------
(* Finite sets, and what of the log rests on them                          *)

INSTANCE FiniteSetTheorems

\* The size of a finite set.
LEMMA FiniteSize ==
  /\ IsFiniteSet({}) /\ Cardinality({}) = 0
  /\ \A S : IsFiniteSet(S) => Cardinality(S) \in Nat /\ (Cardinality(S) = 0 <=> S = {})
BY FS_EmptySet, FS_CardinalityType

\* A set with one element more, and with one less.
LEMMA FinitePlus ==
  ASSUME NEW S, IsFiniteSet(S), NEW x
  PROVE  /\ x \notin S => IsFiniteSet(S \cup {x}) /\ Cardinality(S \cup {x}) = Cardinality(S) + 1
         /\ x \in S => IsFiniteSet(S \ {x}) /\ Cardinality(S \ {x}) = Cardinality(S) - 1
BY FS_AddElement, FS_RemoveElement

\* A part of a finite set.
LEMMA FinitePart ==
  ASSUME NEW S, IsFiniteSet(S), NEW T \in SUBSET S
  PROVE  IsFiniteSet(T) /\ Cardinality(T) \in Nat /\ Cardinality(T) <= Cardinality(S)
BY FS_Subset, FS_CardinalityType

\* The numbers up to a bound.
LEMMA FiniteInterval ==
  ASSUME NEW n \in Nat
  PROVE  IsFiniteSet(1 .. n) /\ Cardinality(1 .. n) = n
<1>1. IsFiniteSet(1 .. n) /\ Cardinality(1 .. n) = IF 1 > n THEN 0 ELSE n - 1 + 1
  BY FS_Interval
<1> QED  BY <1>1

\* A finite set can be listed.
LEMMA FiniteList ==
  ASSUME NEW S, IsFiniteSet(S)
  PROVE  \E f \in [1 .. Cardinality(S) -> S] :
           \A i, k \in 1 .. Cardinality(S) : f[i] = f[k] => i = k
<1>1. ExistsBijection(1 .. Cardinality(S), S)
  BY FS_CardinalityType
<1> QED
  BY <1>1, Zenon DEF ExistsBijection, Bijection, Injection, IsInjective

\* A set of numbers has a least element.
LEMMA MinIsLeast ==
  ASSUME NEW S \in SUBSET Nat, S # {}
  PROVE  Min(S) \in S /\ \A y \in S : Min(S) <= y
<1> DEFINE Less == {ss \in Nat \X Nat : ss[1] < ss[2]}
<1>0. IsWellFoundedOn(Less, Nat)
  BY NatLessThanWellFounded DEF OpToRel
<1>1. PICK x \in S : \A y \in S : ~(<<y, x>> \in Less)
  BY <1>0, WFMin, Zenon
<1>2. ASSUME NEW y \in S PROVE x <= y
  <2>1. x \in Nat /\ y \in Nat
    OBVIOUS
  <2>2. y < x => <<y, x>> \in Less
    BY <2>1
  <2> QED
    BY <1>1, <2>1, <2>2
<1>3. \A y \in S : x <= y
  BY <1>2
<1> QED
  BY <1>3, Zenon DEF Min

\* A bounded one has a greatest.
LEMMA MaxIsGreatest ==
  ASSUME NEW n \in Nat, NEW S \in SUBSET (0 .. n), S # {}
  PROVE  Max(S) \in S /\ \A y \in S : y <= Max(S)
<1> DEFINE T == {m \in Nat : n - m \in S}
<1>1. T \in SUBSET Nat /\ T # {}
  <2>1. PICK y \in S : TRUE
    BY Zenon
  <2>2. y \in 0 .. n /\ n - (n - y) = y /\ n - y \in Nat
    OBVIOUS
  <2>3. n - y \in T
    BY <2>2
  <2> QED
    BY <2>3, Zenon
<1>2. Min(T) \in T /\ \A y \in T : Min(T) <= y
  BY <1>1, MinIsLeast, Zenon
<1> DEFINE x == n - Min(T)
<1>3. x \in S /\ \A y \in S : y <= x
  <2>1. x \in S /\ Min(T) \in Nat
    BY <1>2
  <2>2. ASSUME NEW y \in S PROVE y <= x
    <3>1. y \in 0 .. n /\ n - y \in Nat /\ n - (n - y) = y
      OBVIOUS
    <3>2. n - y \in T
      BY <3>1
    <3> HIDE DEF T
    <3>3. Min(T) <= n - y
      BY <1>2, <3>2
    <3> QED
      BY <2>1, <3>1, <3>3
  <2> QED
    BY <2>1, <2>2
<1> HIDE DEF x
<1>4. \A y \in S : x >= y
  BY <1>3
<1>5. \A y \in S : Max(S) >= y /\ Max(S) \in S
  BY <1>3, <1>4, Zenon DEF Max
<1> QED
  BY <1>3, <1>5

\* InitializeJournal discards from the oldest entry on.
LEMMA InitializeKeeps ==
  ASSUME LogInv, NEW limit, NEW entry, initialize_journal(limit, entry)
  PROVE  LogInv' /\ \A l \in LcbSet : lcb'[l].datSet = lcb[l].datSet
<1> DEFINE hit == {i \in 1 .. Len(entries) : entries[i].id = entry /\ entries[i].time <= limit}
           gone == {i \in 1 .. Len(entries) :
                             /\ \A k \in 1 .. i : ~(entries[k].time > limit)
                             /\ \A h \in hit : i <= h}
           es == SubSeq(entries, Cardinality(gone) + 1, Len(entries))
<1>1. LogOK /\ Len(entries) \in Nat /\ lastId \in Nat /\ LogGood(entries, lastId)
  BY DEF LogInv, LogOK
<1>2. entries' = es /\ lcb' = sync(lcb, es) /\ UNCHANGED <<lastId, now, tasks, reader>>
  BY DEF initialize_journal
<1>3. Cardinality(gone) \in 0 .. Len(entries)
  <2>1. gone \subseteq 1 .. Len(entries)
    OBVIOUS
  <2> HIDE DEF gone
  <2>2. IsFiniteSet(1 .. Len(entries)) /\ Cardinality(1 .. Len(entries)) = Len(entries)
    BY <1>1, FiniteInterval
  <2>3. IsFiniteSet(gone) /\ Cardinality(gone) <= Cardinality(1 .. Len(entries))
    BY <2>1, <2>2, FinitePart, Zenon
  <2>4. Cardinality(gone) \in Nat
    BY <2>1, <2>2, FinitePart, Zenon
  <2> QED
    BY <1>1, <2>2, <2>3, <2>4
<1> HIDE DEF gone
<1>4. LogGood(es, lastId)
  <2>1. Cardinality(gone) + 1 \in 1 .. Len(entries) + 1
    BY <1>1, <1>3
  <2> QED
    BY <1>1, <2>1, SuffixIsGood
<1> HIDE DEF es
<1>5. lastId <= lastId /\ tasks' \subseteq TaskRec
  BY <1>1, <1>2 DEF LogOK
<1> QED
  BY <1>1, <1>2, <1>4, <1>5, ContentsKeep DEF LogInv

\* Where a continuation begins, everything is newer than the entry it follows,
\* whether the log still holds that entry or not.
LEMMA AfterIsNewer ==
  ASSUME LogInv, reader.got # <<>>, NEW e, e = Last(reader.got)
  PROVE  /\ after(e) \in 1 .. Len(entries) + 1
         /\ \A i \in 1 .. Len(entries) : i >= after(e) => entries[i].id > e.id
         /\ (\E i \in 1 .. Len(entries) : entries[i] = e) =>
              \A i \in 1 .. Len(entries) : i < after(e) => entries[i].id <= e.id
<1> DEFINE n == Len(entries)
           at == {i \in 1 .. n : entries[i].id = e.id}
           later == {i \in 1 .. n : entries[i].time > e.time}
<1>1. /\ LogOK /\ n \in Nat /\ \A i \in 1 .. n : entries[i] \in EntryRec
      /\ e \in EntryRec /\ Len(reader.got) \in 1 .. Len(reader.got)
  BY DEF LogInv, LogOK, ReaderRec, Last
<1>2. \A i \in 1 .. n : entries[i].id \in Nat /\ entries[i].time \in Nat
  BY <1>1 DEF EntryRec
<1>3. e.id \in Nat /\ e.time \in Nat
  BY <1>1 DEF EntryRec
<1>4. \A i, k \in 1 .. n : i < k => entries[i].id < entries[k].id /\ entries[i].time <= entries[k].time
  BY DEF LogInv, LogGood
<1>5. \A i \in 1 .. n : entries[i].id <= e.id => entries[i].time <= e.time
  BY <1>1 DEF LogInv, LogGood, Last
<1>6. CASE at # {}
  <2>1. PICK i \in 1 .. n : entries[i].id = e.id /\ after(e) = i + 1
    BY <1>6, Zenon DEF after
  <2> QED
    BY <1>1, <1>2, <1>3, <1>4, <2>1
<1>7. CASE at = {} /\ later # {}
  <2>1. later \in SUBSET Nat
    BY <1>1
  <2>2. Min(later) \in later /\ \A y \in later : Min(later) <= y
    BY <1>7, <2>1, MinIsLeast, Zenon
  <2>3. after(e) \in later
    BY <1>7, <2>2, Zenon DEF after
  <2>4. after(e) \in 1 .. n /\ entries[after(e)].time > e.time
    BY <2>3
  <2>5. entries[after(e)].id > e.id
    BY <1>2, <1>3, <1>5, <2>4
  <2>6. \A i \in 1 .. n : entries[i] # e
    BY <1>7
  <2> QED
    BY <1>1, <1>2, <1>3, <1>4, <2>4, <2>5, <2>6
<1>8. CASE at = {} /\ later = {}
  <2>1. after(e) = n + 1
    BY <1>8 DEF after
  <2>2. \A i \in 1 .. n : entries[i] # e
    BY <1>8
  <2> QED
    BY <1>1, <2>1, <2>2
<1> QED
  BY <1>6, <1>7, <1>8

\* A page is the run of entries from where the continuation begins.
LEMMA PageIsRun ==
  ASSUME LogOK, NEW first \in 1 .. Len(entries) + 1, NEW end \in Nat, NEW sel,
         sel = {i \in first .. Len(entries) : \A k \in first .. i : entries[k].time <= end},
         fill_page(sel) # {}
  PROVE  /\ Min(fill_page(sel)) = first
         /\ Max(fill_page(sel)) \in first .. Len(entries)
         /\ \A i \in fill_page(sel) : i <= Max(fill_page(sel))
<1> DEFINE page == fill_page(sel)
           lo == Min(page)
           hi == Max(page)
           n == Len(entries)
<1>1. n \in Nat /\ PageCap \in Nat
  BY LogAssumption DEF LogOK
<1>2. page \subseteq sel /\ sel \subseteq first .. n
  BY DEF fill_page
<1>3. lo \in page /\ \A y \in page : lo <= y
  <2>1. page \in SUBSET Nat
    BY <1>1, <1>2
  <2> HIDE DEF page
  <2> QED
    BY <2>1, MinIsLeast DEF page
<1>4. hi \in page /\ \A y \in page : y <= hi
  <2>1. page \in SUBSET (0 .. n)
    BY <1>1, <1>2
  <2> HIDE DEF page, n
  <2> QED
    BY <1>1, <2>1, MaxIsGreatest, Zenon DEF page
<1>5. lo \in first .. n /\ hi \in first .. n
  BY <1>2, <1>3, <1>4
<1>6. first \in page
  <2>1. first \in sel
    BY <1>1, <1>2, <1>4, <1>5
  <2>2. ASSUME NEW k \in sel PROVE first < k + PageCap
    <3>1. hi < k + PageCap
      BY <1>4 DEF fill_page
    <3>2. k \in Nat /\ hi \in Nat /\ first <= hi
      BY <1>1, <1>2, <1>5
    <3> HIDE DEF hi
    <3> QED
      BY <1>1, <3>1, <3>2
  <2> QED
    BY <2>1, <2>2 DEF fill_page
<1>7. lo = first
  <2> HIDE DEF lo, page
  <2> QED
    BY <1>1, <1>3, <1>5, <1>6
<1> QED
  BY <1>4, <1>5, <1>7

\* What the reader has once a page is added, in terms of the log.
LEMMA PageIsAdded ==
  ASSUME LogOK, NEW got \in Seq(EntryRec), NEW first \in 1 .. Len(entries),
         NEW hi \in first .. Len(entries)
  PROVE  LET G == got \o SubSeq(entries, first, hi) IN
         /\ G \in Seq(EntryRec) /\ Len(G) = Len(got) + (hi - first + 1)
         /\ \A k \in 1 .. Len(got) : G[k] = got[k]
         /\ \A k \in 1 .. Len(G) : k > Len(got) =>
              k - Len(got) + first - 1 \in first .. hi /\ G[k] = entries[k - Len(got) + first - 1]
<1> DEFINE ss == SubSeq(entries, first, hi)
           G == got \o ss
           n == Len(entries)
<1>1. n \in Nat /\ Len(got) \in Nat /\ first \in Nat /\ hi \in Nat
      /\ \A i \in first .. hi : entries[i] \in EntryRec
  BY DEF LogOK
<1>2. /\ ss \in Seq(EntryRec) /\ Len(ss) = hi - first + 1
      /\ \A i \in 1 .. hi - first + 1 : ss[i] = entries[first + i - 1]
  BY <1>1 DEF LogOK
<1>3. /\ G \in Seq(EntryRec) /\ Len(G) = Len(got) + Len(ss)
      /\ \A k \in 1 .. Len(got) + Len(ss) :
           G[k] = IF k <= Len(got) THEN got[k] ELSE ss[k - Len(got)]
  <2> HIDE DEF ss
  <2> QED
    BY <1>2, JoinedIsSeq, Zenon
<1> HIDE DEF ss, G
<1>4. ASSUME NEW k \in 1 .. Len(G), k > Len(got)
      PROVE  k - Len(got) + first - 1 \in first .. hi /\ G[k] = entries[k - Len(got) + first - 1]
  <2>1. k - Len(got) \in 1 .. hi - first + 1 /\ k \in Nat
    BY <1>1, <1>2, <1>3, <1>4
  <2>2. G[k] = ss[k - Len(got)] /\ ss[k - Len(got)] = entries[first + (k - Len(got)) - 1]
    BY <1>1, <1>2, <1>3, <1>4, <2>1
  <2>3. first + (k - Len(got)) - 1 = k - Len(got) + first - 1
    BY <1>1, <2>1
  <2> QED
    BY <1>1, <2>1, <2>2, <2>3
<1>5. \A k \in 1 .. Len(got) : G[k] = got[k]
  BY <1>1, <1>2, <1>3
<1>6. Len(G) = Len(got) + (hi - first + 1)
  BY <1>2, <1>3
<1> QED
  BY <1>3, <1>4, <1>5, <1>6, Zenon DEF G, ss

\* One page.
LEMMA PageKeeps ==
  ASSUME LogInv, ReadPage
  PROVE  LogInv' /\ lcb' = lcb
<1> DEFINE n == Len(entries)
           got == reader.got
           m == Len(got)
           end == reader.end
           first == IF got = <<>> THEN 1 ELSE after(Last(got))
           sel == {i \in first .. n : \A k \in first .. i : entries[k].time <= end}
           page == fill_page(sel)
           G == IF page = {} THEN got ELSE got \o SubSeq(entries, Min(page), Max(page))
           knows == got = <<>> \/ \E i \in 1 .. n : entries[i] = Last(got)
           seen == {entries[i].id : i \in {i \in 1 .. n : entries[i].time <= end}}
           r == [reader EXCEPT !.got = G, !.jumped = @ \/ ~knows, !.seen = seen,
                               !.pc = IF page = sel THEN "done" ELSE "reading"]
<1>1. /\ LogOK /\ n \in Nat /\ m \in Nat /\ end \in Nat /\ got \in Seq(EntryRec) /\ reader \in ReaderRec
      /\ \A i \in 1 .. n : entries[i] \in EntryRec
      /\ \A k \in 1 .. m : got[k] \in EntryRec
  BY DEF LogInv, LogOK, ReaderRec
<1>2. reader.pc = "reading" /\ reader' = r /\ UNCHANGED <<entries, lastId, now, lcb, tasks>>
  <2>1. select(parse_journal_query(reader)) = sel
    <3> DEFINE q == parse_journal_query(reader)
    <3>1. q.end = end /\ q.after = IF got = <<>> THEN <<>> ELSE <<Last(got)>>
      BY DEF parse_journal_query
    <3>2. (IF q.after = <<>> THEN 1 ELSE after(q.after[1])) = first
      BY <3>1
    <3> HIDE DEF q, first
    <3> QED
      BY <3>1, <3>2 DEF select, q
  <2> QED
    BY <2>1 DEF ReadPage
<1>3. \A i \in 1 .. n : entries[i].id \in Nat /\ entries[i].time \in Nat
  BY <1>1 DEF EntryRec
<1>4. \A k \in 1 .. m : got[k].id \in Nat /\ got[k].time \in Nat
  BY <1>1 DEF EntryRec
<1>5. \A i, k \in 1 .. n : i < k => entries[i].id < entries[k].id /\ entries[i].time <= entries[k].time
  BY DEF LogInv, LogGood
<1>6. got # <<>> => m \in 1 .. m /\ Last(got) = got[m]
  BY <1>1 DEF Last
<1>7. /\ first \in 1 .. n + 1
      /\ \A i \in 1 .. n, k \in 1 .. m : i >= first => entries[i].id > got[k].id
      /\ knows => \A i \in 1 .. n : i < first /\ entries[i].time <= end /\ ~reader.jumped =>
                    \E k \in 1 .. m : got[k].id = entries[i].id
  <2>1. CASE got = <<>>
    <3>1. m = 0 /\ first = 1
      BY <2>1
    <3> HIDE DEF first
    <3> QED
      BY <1>1, <3>1
  <2>2. CASE got # <<>>
    <3> DEFINE e == Last(got)
    <3>1. /\ after(e) \in 1 .. n + 1
          /\ \A i \in 1 .. n : i >= after(e) => entries[i].id > e.id
          /\ (\E i \in 1 .. n : entries[i] = e) => \A i \in 1 .. n : i < after(e) => entries[i].id <= e.id
      BY <2>2, AfterIsNewer
    <3>2. first = after(e)
      BY <2>2
    <3>3. \A k \in 1 .. m : got[k].id <= e.id
      <4>1. \A k \in 1 .. m : k < m => got[k].id < got[m].id
        BY <1>6, <2>2 DEF LogInv, ReadGood, PagesFollow
      <4>2. got[m].id <= e.id /\ e.id = got[m].id /\ \A k \in 1 .. m : got[k].id \in Nat
        BY <1>4, <1>6, <2>2 DEF Last
      <4> HIDE DEF got, m, e
      <4>3. \A k \in 1 .. m : k < m \/ k = m
        BY <1>1
      <4> QED
        BY <1>1, <4>1, <4>2, <4>3
    <3>4. e.id \in Nat
      BY <1>4, <1>6, <2>2
    <3>5. \A i \in 1 .. n, k \in 1 .. m : i >= first => entries[i].id > got[k].id
      <4> HIDE DEF e, first
      <4> QED
        BY <1>3, <1>4, <3>1, <3>2, <3>3, <3>4
    <3>6. knows => \A i \in 1 .. n : i < first /\ entries[i].time <= end /\ ~reader.jumped =>
                     \E k \in 1 .. m : got[k].id = entries[i].id
      BY <1>2, <2>2, <3>1, <3>2 DEF LogInv, LogGood
    <3> QED
      BY <3>1, <3>2, <3>5, <3>6
  <2> QED
    BY <2>1, <2>2
<1> HIDE DEF first
<1>8. \A i \in 1 .. n : i >= first /\ entries[i].time <= end => i \in sel
  <2> SUFFICES ASSUME NEW i \in 1 .. n, i >= first, entries[i].time <= end,
                      NEW k \in first .. i
               PROVE  entries[k].time <= end
    BY <1>1, <1>7
  <2>1. k \in 1 .. n /\ (k < i \/ k = i)
    BY <1>1, <1>7
  <2> QED
    BY <1>1, <1>3, <1>5, <2>1
<1>9. CASE page = {}
  <2>1. G = got
    BY <1>9
  <2> HIDE DEF G
  <2>2. r \in ReaderRec /\ r.got = got /\ (r.jumped <=> (reader.jumped \/ ~knows)) /\ r.seen = seen
        /\ (r.pc = "done" <=> page = sel) /\ r.end = end
    <3>1. seen \in SUBSET Nat /\ (reader.jumped \/ ~knows) \in BOOLEAN
      BY <1>3
    <3> HIDE DEF seen, knows, page, sel
    <3> QED
      BY <1>1, <2>1, <3>1, Zenon DEF ReaderRec
  <2> HIDE DEF r
  <2>3. LogOK'
    BY <1>1, <1>2, <2>2 DEF LogOK
  <2>4. LogGood(entries, lastId)'
    BY <1>2, <2>2 DEF LogInv, LogGood
  <2>5. ASSUME reader'.pc = "done", ~reader'.jumped
        PROVE  reader'.seen \subseteq {reader'.got[k].id : k \in 1 .. Len(reader'.got)}
    <3>1. sel = {} /\ knows /\ ~reader.jumped
      BY <1>2, <1>9, <2>2, <2>5, Zenon
    <3>2. \A x \in 1 .. n : entries[x].time <= end => x < first
      BY <1>1, <1>7, <1>8, <3>1
    <3> HIDE DEF knows, sel
    <3>3. \A x \in 1 .. n : entries[x].time <= end => \E k \in 1 .. m : got[k].id = entries[x].id
      BY <1>7, <3>1, <3>2
    <3> QED
      BY <1>2, <2>2, <3>3
  <2>6. ReadGood'
    BY <1>2, <2>2, <2>5, Zenon DEF LogInv, ReadGood, PagesFollow
  <2> QED
    BY <1>2, <2>3, <2>4, <2>6 DEF LogInv, TasksGood, IntegrityIsCurrent, RangeDescribesLog
<1>10. CASE page # {}
  <2> DEFINE hi == Max(page)
             at(k) == k - m + first - 1
  <2>1. Min(page) = first /\ hi \in first .. n /\ \A x \in page : x <= hi
    BY <1>1, <1>7, <1>10, PageIsRun, Zenon
  <2>2. G = got \o SubSeq(entries, first, hi)
    BY <1>10, <2>1, Zenon
  <2> HIDE DEF hi, G
  <2>3. /\ first \in 1 .. n /\ hi \in Nat /\ first \in Nat /\ m \in Nat /\ n \in Nat
        /\ first <= hi /\ hi <= n
    BY <1>1, <1>7, <2>1
  <2>4. /\ G \in Seq(EntryRec) /\ Len(G) = m + (hi - first + 1)
        /\ \A k \in 1 .. m : G[k] = got[k]
        /\ \A k \in 1 .. Len(G) : k > m => at(k) \in first .. hi /\ G[k] = entries[at(k)]
    <3>1. LogOK /\ got \in Seq(EntryRec)
      BY <1>1
    <3>2. /\ G \in Seq(EntryRec) /\ Len(G) = Len(got) + (hi - first + 1)
          /\ \A k \in 1 .. Len(got) : G[k] = got[k]
          /\ \A k \in 1 .. Len(G) : k > Len(got) =>
               k - Len(got) + first - 1 \in first .. hi /\ G[k] = entries[k - Len(got) + first - 1]
      <4>1. first \in 1 .. Len(entries) /\ hi \in first .. Len(entries)
        BY <2>1, <2>3
      <4>2. G = got \o SubSeq(entries, first, hi)
        BY <2>2
      <4> HIDE DEF got
      <4> QED
        BY <3>1, <4>1, <4>2, PageIsAdded, Zenon
    <3> QED
      BY <3>2, Zenon
  <2>5. r \in ReaderRec /\ r.got = G /\ (r.jumped <=> (reader.jumped \/ ~knows)) /\ r.seen = seen
        /\ (r.pc = "done" <=> page = sel) /\ r.end = end
    <3>1. seen \in SUBSET Nat /\ (reader.jumped \/ ~knows) \in BOOLEAN
      BY <1>3
    <3> HIDE DEF seen, knows, page, sel
    <3> QED
      BY <1>1, <2>4, <3>1, Zenon DEF ReaderRec
  <2>6. LogOK'
    <3> HIDE DEF r
    <3> QED
      BY <1>1, <1>2, <2>5 DEF LogOK
  <2>7. ASSUME NEW k \in 1 .. Len(G)
        PROVE  \/ k \in 1 .. m /\ G[k] = got[k]
               \/ k > m /\ at(k) \in 1 .. n /\ at(k) >= first /\ G[k] = entries[at(k)]
    <3> HIDE DEF n, m, got
    <3>1. k \in Nat /\ (k \in 1 .. m \/ k > m)
      BY <2>3, <2>4
    <3>2. CASE k > m
      <4> DEFINE a == at(k)
      <4>1. a \in first .. hi /\ G[k] = entries[a]
        BY <2>4, <3>2
      <4> HIDE DEF at
      <4>2. a \in 1 .. n /\ a >= first
        BY <2>3, <4>1
      <4> QED
        BY <3>2, <4>1, <4>2
    <3> QED
      BY <2>4, <3>1, <3>2
  <2>8. ASSUME NEW x \in first .. hi PROVE \E k \in 1 .. Len(G) : G[k].id = entries[x].id
    <3> DEFINE k == x - first + 1 + m
    <3>1. k \in 1 .. Len(G) /\ k > m /\ at(k) = x
      <4> HIDE DEF n, m, got
      <4> QED
        BY <2>3, <2>4
    <3> QED
      BY <2>4, <3>1
  <2>9. ASSUME NEW x \in 1 .. n, x < first, entries[x].time <= end, ~reader.jumped, knows
        PROVE  \E k \in 1 .. Len(G) : G[k].id = entries[x].id
    <3>1. PICK k \in 1 .. m : got[k].id = entries[x].id
      BY <1>7, <2>9
    <3>2. k \in 1 .. Len(G) /\ G[k] = got[k]
      <4> HIDE DEF n, m, got
      <4> QED
        BY <2>3, <2>4
    <3> QED
      BY <3>1, <3>2
  <2>10. \A x, k \in 1 .. Len(G) : x < k => G[x].id < G[k].id
    <3> SUFFICES ASSUME NEW x \in 1 .. Len(G), NEW k \in 1 .. Len(G), x < k PROVE G[x].id < G[k].id
      OBVIOUS
    <3>0. x \in Nat /\ k \in Nat
      BY <2>4
    <3>1. CASE k \in 1 .. m
      <4>1. x \in 1 .. m /\ G[x] = got[x] /\ G[k] = got[k]
        BY <1>1, <2>4, <3>0, <3>1
      <4> QED
        BY <3>1, <4>1 DEF LogInv, ReadGood, PagesFollow
    <3>2. CASE k > m /\ x \in 1 .. m
      <4>1. G[x] = got[x] /\ G[k] = entries[at(k)] /\ at(k) \in 1 .. n /\ at(k) >= first
        BY <1>1, <2>4, <2>7, <3>0, <3>2
      <4>2. entries[at(k)].id > got[x].id
        BY <1>7, <3>2, <4>1, Zenon
      <4> QED
        BY <1>3, <1>4, <3>2, <4>1, <4>2
    <3>3. CASE k > m /\ x > m
      <4>1. G[x] = entries[at(x)] /\ G[k] = entries[at(k)] /\ at(k) \in 1 .. n /\ at(x) \in 1 .. n
        <5> HIDE DEF n, m, got, at
        <5> QED
          BY <2>3, <2>7, <3>0, <3>3
      <4>2. at(x) < at(k)
        <5> HIDE DEF n, m
        <5> QED
          BY <2>3, <3>0
      <4> HIDE DEF at
      <4> QED
        BY <1>5, <4>1, <4>2
    <3> QED
      BY <1>1, <2>7, <3>0, <3>1, <3>2, <3>3
  <2>11. \A x \in 1 .. n, k \in 1 .. Len(G) : entries[x].id <= G[k].id => entries[x].time <= G[k].time
    <3> SUFFICES ASSUME NEW x \in 1 .. n, NEW k \in 1 .. Len(G), entries[x].id <= G[k].id
                 PROVE  entries[x].time <= G[k].time
      OBVIOUS
    <3>1. CASE k \in 1 .. m /\ G[k] = got[k]
      BY <3>1 DEF LogInv, LogGood
    <3>2. CASE at(k) \in 1 .. n /\ G[k] = entries[at(k)]
      <4> HIDE DEF at
      <4>1. ~(at(k) < x)
        BY <1>3, <1>5, <3>2
      <4>2. x < at(k) \/ x = at(k)
        BY <1>1, <3>2, <4>1
      <4> QED
        BY <1>3, <1>5, <3>2, <4>2
    <3> QED
      BY <2>7, <3>1, <3>2
  <2>12. G # <<>> /\ Last(G) = entries[hi] /\ hi \in 1 .. n
    <3>1. Len(G) \in 1 .. Len(G) /\ Len(G) > m /\ at(Len(G)) = hi /\ hi \in 1 .. n
      <4> HIDE DEF n, m, got
      <4> QED
        BY <2>3, <2>4
    <3> QED
      BY <2>4, <3>1 DEF Last
  <2>13. ASSUME NEW x \in 1 .. n, entries[x].id <= Last(G).id, entries[x].time <= end,
                ~reader.jumped, knows
         PROVE  \E k \in 1 .. Len(G) : G[k].id = entries[x].id
    <3>1. ~(hi < x)
      BY <1>3, <1>5, <2>12, <2>13
    <3>2. x < first \/ x \in first .. hi
      BY <1>1, <2>3, <3>1
    <3> QED
      BY <2>8, <2>9, <2>13, <3>2
  <2>14. ASSUME page = sel, ~reader.jumped, knows, NEW x \in 1 .. n, entries[x].time <= end
         PROVE  \E k \in 1 .. Len(G) : G[k].id = entries[x].id
    <3>1. x < first \/ x \in sel
      BY <1>1, <1>8, <2>3, <2>14
    <3>2. x \in sel => x \in first .. hi
      <4> HIDE DEF page
      <4>1. x \in sel => x \in first .. n /\ x <= hi
        BY <2>1, <2>14
      <4> HIDE DEF n, sel
      <4> QED
        BY <2>3, <4>1
    <3> QED
      BY <2>8, <2>9, <2>14, <3>1, <3>2
  <2>15. \A k \in 1 .. Len(G) : G[k].id <= lastId
    BY <2>7, Zenon DEF LogInv, LogGood, ReadGood
  <2> HIDE DEF r
  <2>16. LogGood(entries, lastId)'
    <3> HIDE DEF knows
    <3> QED
      BY <1>2, <2>5, <2>11, <2>13 DEF LogInv, LogGood
  <2>17. ReadGood'
    <3>1. ASSUME reader'.pc = "done", ~reader'.jumped
          PROVE  reader'.seen \subseteq {reader'.got[k].id : k \in 1 .. Len(reader'.got)}
      BY <1>2, <2>5, <2>14, <3>1
    <3> QED
      BY <1>2, <2>5, <2>10, <2>15, <3>1, Zenon DEF ReadGood, PagesFollow
  <2> QED
    BY <1>2, <2>6, <2>16, <2>17 DEF LogInv, TasksGood, IntegrityIsCurrent, RangeDescribesLog
<1> QED
  BY <1>9, <1>10, Zenon

\* What on_update logs is a sequence of entries to append.
LEMMA ChangesAppend ==
  ASSUME LogOK, DsTypeOK, NEW changes, log_changes(changes)
  PROVE  \E vs \in Seq(SUBSET Member) : append(vs)
<1> DEFINE logs(l) == /\ l \in Writing /\ lcb[l].ena /\ resolves(lcb[l].datSet)
                      /\ wanted(l, changes) # {}
           some == {i \in 1 .. Len(Lcb) : logs(Lcb[i])}
           n == Cardinality(some)
<1>1. PICK who \in [1 .. n -> some] : append([i \in 1 .. n |-> wanted(Lcb[who[i]], changes)])
  BY Zenon DEF log_changes
<1>2. n \in Nat
  <2>1. Len(Lcb) \in Nat /\ 1 \in Int /\ some \subseteq 1 .. Len(Lcb)
    BY LogAssumption
  <2> HIDE DEF some
  <2>2. IsFiniteSet(1 .. Len(Lcb))
    BY <2>1, FiniteInterval
  <2> QED
    BY <2>1, <2>2, FinitePart, Zenon
<1>3. ASSUME NEW i \in 1 .. n PROVE wanted(Lcb[who[i]], changes) \in SUBSET Member
  <2>1. who[i] \in some
    BY <1>1, Zenon
  <2>2. lcb[Lcb[who[i]]].datSet \in DsName
    BY <2>1, Zenon DEF resolves, DsTypeOK
  <2> QED
    BY <2>2, DsAssumption, Zenon DEF wanted
<1> HIDE DEF n
<1> DEFINE vs == [i \in 1 .. n |-> wanted(Lcb[who[i]], changes)]
<1>4. vs \in Seq(SUBSET Member)
  BY <1>2, <1>3
<1> QED
  BY <1>1, <1>4
=============================================================================
