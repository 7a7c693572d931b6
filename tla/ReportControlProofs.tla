------------------------ MODULE ReportControlProofs ------------------------
(***************************************************************************)
(* Theorems about ReportControl, for every value of its constants.         *)
(*                                                                         *)
(* The functions of the report engine map blocks to blocks (Rcb: typed,    *)
(* with "next" inside the buffer), and those that only send or collect     *)
(* leave alone who holds the block and which timers guard it.  One lemma   *)
(* says so for each function; the inductive steps cite them.               *)
(***************************************************************************)
EXTENDS ReportControl, TLAPS

\* What the functions of the engine take and return.
Rcb == {r \in RcbRuntime : r.next <= Len(r.buffer)}

Content == [vals : SUBSET MemberValue, reason : {"change", "integrity", "gi"}]

\* q is held like r, and has the same timers but for the window's.
SameHold(q, r) ==
  /\ q.enabled = r.enabled /\ q.conn = r.conn /\ q.owner = r.owner
  /\ q.resv_ip = r.resv_ip /\ q.resv_timer = r.resv_timer /\ q.integrity = r.integrity

\* q collects the same events as r.
SameWindow(q, r) == q.pending = r.pending /\ q.pending_timer = r.pending_timer

----------------------------------------------------------------------------
(* The functions of the engine *)

\* A sequence number wraps at a positive number, for either kind of block.
LEMMA SqNumType == SqNumMod \in Nat \ {0}
BY ConfigAssumption DEF SqNumMod

\* stop_timer leaves timer tasks, and none that may still act.
LEMMA StopTimerType ==
  ASSUME NEW ts \in SUBSET TimerTask
  PROVE  /\ stop_timer(ts) \in SUBSET TimerTask
         /\ stop_timer(ts) \cap Live = {}
BY DEF stop_timer, TimerTask, Live

\* take makes the association the owner.
LEMMA TakeType ==
  ASSUME NEW r \in Rcb, NEW c \in Conn
  PROVE  /\ take(r, c) \in Rcb
         /\ take(r, c).owner = c
         /\ take(r, c).enabled = r.enabled /\ take(r, c).conn = r.conn
<1> DEFINE ip == IF ResvCfg = NoAddr THEN NoAddr ELSE r.resv_ip
           ts == stop_timer(r.resv_timer)
           q  == [r EXCEPT !.owner = c, !.resv_timer = ts, !.resv_ip = ip]
<1>1. r.resv_timer \in SUBSET TimerTask /\ r.resv_ip \in Option(Addr, NoAddr)
  BY DEF Rcb, RcbRuntime
<1>2. ts \in SUBSET TimerTask
  BY <1>1, StopTimerType
<1>3. ip \in Option(Addr, NoAddr)
  BY <1>1 DEF Option
<1>4. take(r, c) = q
  BY Zenon DEF take
<1> HIDE DEF ip, ts
<1>5. q \in Rcb
  BY <1>2, <1>3, Zenon DEF Rcb, RcbRuntime, Option
<1>6. q.owner = c /\ q.enabled = r.enabled /\ q.conn = r.conn
  BY DEF Rcb, RcbRuntime
<1> QED  BY <1>4, <1>5, <1>6, Zenon

\* purge empties the buffer.
LEMMA PurgeType ==
  ASSUME NEW r \in Rcb
  PROVE  purge(r) \in Rcb /\ SameHold(purge(r), r)
<1>1. NoResync \in Int
  BY DEF NoResync
<1>2. <<>> \in Seq(ReportEntry) /\ Len(<<>>) = 0
  OBVIOUS
<1>3. purge(r) \in RcbRuntime
  BY <1>1, <1>2, Zenon DEF purge, Rcb, RcbRuntime
<1>4. purge(r).next <= Len(purge(r).buffer)
  BY <1>2 DEF purge, Rcb, RcbRuntime
<1>5. SameHold(purge(r), r)
  BY DEF purge, Rcb, RcbRuntime, SameHold
<1> QED  BY <1>3, <1>4, <1>5 DEF Rcb

\* release leaves nobody the owner.
LEMMA ReleaseType ==
  ASSUME NEW r \in Rcb, NEW k \in Nat
  PROVE  /\ release(r, k) \in Rcb
         /\ release(r, k).owner = NoConn
         /\ release(r, k).enabled = r.enabled /\ release(r, k).conn = r.conn
<1> DEFINE hold == Buffered /\ k > 0 /\ r.owner # NoConn /\ Ip[r.owner] # NoAddr
           ip   == IF hold THEN Ip[r.owner] ELSE NoAddr
           ts   == stop_timer(r.resv_timer) \cup IF hold THEN {"sleeping"} ELSE {}
<1>1. ip \in Option(Addr, NoAddr)
  BY IpAssumption DEF Rcb, RcbRuntime, Option
<1>2. ts \in SUBSET TimerTask
  <2>1. r.resv_timer \in SUBSET TimerTask
    BY DEF Rcb, RcbRuntime
  <2> QED  BY <2>1, StopTimerType DEF TimerTask
<1>3. CASE ResvCfg # NoAddr
  BY <1>3 DEF release, Rcb, RcbRuntime, Option
<1>4. CASE ResvCfg = NoAddr
  <2> DEFINE q == [r EXCEPT !.owner = NoConn, !.resv_ip = ip, !.resv_timer = ts]
  <2>1. release(r, k) = q
    BY <1>4, Zenon DEF release
  <2> HIDE DEF ip, ts
  <2>2. /\ q \in Rcb
        /\ q.owner = NoConn /\ q.enabled = r.enabled /\ q.conn = r.conn
    BY <1>1, <1>2, Zenon DEF Rcb, RcbRuntime, Option
  <2> QED  BY <2>1, <2>2, Zenon
<1> QED  BY <1>3, <1>4

\* transmit sends one report.
LEMMA TransmitType ==
  ASSUME NEW r \in Rcb, NEW e \in Content, NEW cs, NEW refused
  PROVE  LET q == transmit(r, e, cs, refused)
         IN  q \in Rcb /\ SameHold(q, r) /\ SameWindow(q, r)
<1> DEFINE id == r.entries + 1
           sq == (r.sq_num + 1) % SqNumMod
           at == r.attempts + 1
           sent == [id |-> id, pos |-> r.attempts, sqNum |-> r.sq_num, bufOvfl |-> FALSE,
                    vals |-> e.vals, reason |-> e.reason]
           st == IF id \in refused THEN r.stream ELSE r.stream \cup {sent}
<1>1. sent \in Report
  BY DEF Rcb, RcbRuntime, Report, Content
<1>2. st \in SUBSET Report
  BY <1>1, Zenon DEF Rcb, RcbRuntime
<1>3. sq \in Nat
  BY SqNumType DEF Rcb, RcbRuntime
<1>4. id \in Nat /\ at \in Nat
  BY DEF Rcb, RcbRuntime
<1>5. CASE r.conn \notin cs
  BY <1>5 DEF transmit, SameHold, SameWindow
<1>6. CASE r.conn \in cs
  <2> DEFINE q == [r EXCEPT !.entries = id, !.sq_num = sq, !.attempts = at, !.stream = st]
  <2>1. transmit(r, e, cs, refused) = q
    BY <1>6 DEF transmit
  <2> HIDE DEF id, sq, at, st
  <2>2. q \in Rcb /\ SameHold(q, r) /\ SameWindow(q, r)
    BY <1>2, <1>3, <1>4, Zenon DEF Rcb, RcbRuntime, SameHold, SameWindow
  <2> QED  BY <2>1, <2>2, Zenon
<1> QED  BY <1>5, <1>6

\* A report sent from the buffer is a report.
LEMMA OutgoingType ==
  ASSUME NEW r \in Rcb, NEW i \in 1..(Len(r.buffer) - r.next), NEW refused
  PROVE  /\ r.buffer[r.next + i] \in ReportEntry
         /\ Outgoing(r, i, refused) \in Report
<1>1. /\ r.next \in Nat /\ r.attempts \in Nat /\ r.sq_num \in Nat /\ r.buf_overflow \in BOOLEAN
      /\ r.buffer \in Seq(ReportEntry) /\ r.next <= Len(r.buffer) /\ i \in Int
  BY DEF Rcb, RcbRuntime
<1>2. r.next + i \in 1..Len(r.buffer)
  BY <1>1
<1>3. r.buffer[r.next + i] \in ReportEntry
  BY <1>1, <1>2
<1>4. r.attempts + i - 1 \in Nat
  BY <1>1
<1>5. (r.sq_num + i - 1) % SqNumMod \in Nat
  BY <1>1, SqNumType
<1> DEFINE flag == IF i = 1 THEN r.buf_overflow ELSE r.buffer[r.next + i - 1].id \in refused
<1>6. flag \in BOOLEAN
  <2>1. CASE i = 1
    BY <1>1, <2>1
  <2>2. CASE i # 1
    BY <2>2
  <2> QED  BY <2>1, <2>2
<1>7. Outgoing(r, i, refused) =
        [id |-> r.buffer[r.next + i].id, pos |-> r.attempts + i - 1,
         sqNum |-> (r.sq_num + i - 1) % SqNumMod, bufOvfl |-> flag,
         vals |-> r.buffer[r.next + i].vals, reason |-> r.buffer[r.next + i].reason]
  BY Zenon DEF Outgoing
<1> DEFINE ent == r.buffer[r.next + i]
           pos == r.attempts + i - 1
           sq  == (r.sq_num + i - 1) % SqNumMod
<1>8. ent \in ReportEntry /\ pos \in Nat /\ sq \in Nat
  BY <1>3, <1>4, <1>5, Zenon
<1>9. Outgoing(r, i, refused) = [id |-> ent.id, pos |-> pos, sqNum |-> sq, bufOvfl |-> flag,
                                 vals |-> ent.vals, reason |-> ent.reason]
  BY <1>7, Zenon
<1> HIDE DEF flag, ent, pos, sq
<1>10. Outgoing(r, i, refused) \in Report
  BY <1>6, <1>8, <1>9 DEF ReportEntry, Report
<1> QED  BY <1>3, <1>10, Zenon

\* transmit_buffered sends what is left in the buffer.
LEMMA TransmitBufferedType ==
  ASSUME NEW r \in Rcb, NEW cs, NEW refused
  PROVE  LET q == transmit_buffered(r, cs, refused)
         IN  q \in Rcb /\ SameHold(q, r) /\ SameWindow(q, r)
<1> DEFINE n        == Len(r.buffer) - r.next
           Id(i)    == r.buffer[r.next + i].id
           accepted == {i \in 1..n : Id(i) \notin refused}
           trailing == {i \in 1..n : \A j \in i..n : Id(j) \in refused}
           nx == Len(r.buffer)
           sq == (r.sq_num + n) % SqNumMod
           at == r.attempts + n
           bo == Id(n) \in refused
           st == r.stream \cup {Outgoing(r, i, refused) : i \in accepted}
           sn == r.seen \cup {Id(i) : i \in accepted}
           us == {Id(i) : i \in trailing} \cup IF accepted = {} THEN r.unseen ELSE {}
           sk == IF accepted = {} THEN r.skipped ELSE {}
           ss == r.skipped \cup {Id(i) : i \in 1..n}
<1>1. /\ r.next \in Nat /\ r.attempts \in Nat /\ r.sq_num \in Nat
      /\ r.buffer \in Seq(ReportEntry) /\ r.next <= Len(r.buffer)
      /\ r.stream \in SUBSET Report /\ r.seen \in SUBSET Nat
      /\ r.unseen \in SUBSET Nat /\ r.skipped \in SUBSET Nat
  BY DEF Rcb, RcbRuntime
<1>2. n \in Nat /\ nx \in Nat /\ at \in Nat /\ nx <= Len(r.buffer)
  BY <1>1
<1>3. sq \in Nat
  BY <1>1, SqNumType
<1>4. \A i \in 1..n : Id(i) \in Nat
  BY OutgoingType DEF ReportEntry
<1>5. st \in SUBSET Report
  BY <1>1, OutgoingType
<1>6. sn \in SUBSET Nat /\ us \in SUBSET Nat /\ sk \in SUBSET Nat /\ ss \in SUBSET Nat
  BY <1>1, <1>4, Zenon
<1>7. bo \in BOOLEAN
  OBVIOUS
<1>8. CASE n = 0
  <2>1. transmit_buffered(r, cs, refused) = r
    BY <1>8 DEF transmit_buffered
  <2> QED  BY <2>1 DEF SameHold, SameWindow
<1>9. CASE n # 0 /\ r.conn \notin cs
  <2> DEFINE q == [r EXCEPT !.next = nx, !.skipped = ss]
  <2>1. transmit_buffered(r, cs, refused) = q
    BY <1>9, Zenon DEF transmit_buffered
  <2> HIDE DEF nx, ss
  <2>2. q \in Rcb /\ SameHold(q, r) /\ SameWindow(q, r)
    BY <1>2, <1>6, Zenon DEF Rcb, RcbRuntime, SameHold, SameWindow
  <2> QED  BY <2>1, <2>2, Zenon
<1>10. CASE n # 0 /\ r.conn \in cs
  <2> DEFINE q == [r EXCEPT !.next = nx, !.sq_num = sq, !.attempts = at, !.buf_overflow = bo,
                            !.stream = st, !.seen = sn, !.unseen = us, !.skipped = sk]
  <2>1. transmit_buffered(r, cs, refused) = q
    BY <1>10, Zenon DEF transmit_buffered
  <2> HIDE DEF nx, sq, at, bo, st, sn, us, sk
  <2>2. q \in Rcb
    BY <1>2, <1>3, <1>5, <1>6, <1>7, Zenon DEF Rcb, RcbRuntime
  <2>3. SameHold(q, r) /\ SameWindow(q, r)
    BY DEF Rcb, RcbRuntime, SameHold, SameWindow
  <2> QED  BY <2>1, <2>2, <2>3, Zenon
<1> QED  BY <1>8, <1>9, <1>10

\* push numbers an entry and keeps the buffer within max_buffer.
LEMMA PushType ==
  ASSUME NEW r \in Rcb, NEW e \in Content
  PROVE  push(r, e) \in Rcb /\ SameHold(push(r, e), r) /\ SameWindow(push(r, e), r)
<1> DEFINE id   == r.entries + 1
           ent  == [id |-> id, vals |-> e.vals, reason |-> e.reason]
           full == Append(r.buffer, ent)
           over == Len(full) > MaxBuffer
           sent == r.next > 0
           bf == IF over THEN Tail(full) ELSE full
           nx == IF over /\ sent THEN r.next - 1 ELSE r.next
           bo == r.buf_overflow \/ (over /\ ~sent)
           sn == r.seen \ IF over THEN {full[1].id} ELSE {}
           us == r.unseen \cup IF over /\ ~sent THEN {full[1].id} ELSE {}
<1>1. /\ r.next \in Nat /\ r.entries \in Nat /\ r.buffer \in Seq(ReportEntry)
      /\ r.next <= Len(r.buffer) /\ r.seen \in SUBSET Nat /\ r.unseen \in SUBSET Nat
      /\ r.buf_overflow \in BOOLEAN
  BY DEF Rcb, RcbRuntime
<1>2. id \in Nat /\ ent \in ReportEntry
  BY <1>1 DEF ReportEntry, Content
<1>3. full \in Seq(ReportEntry) /\ Len(full) = Len(r.buffer) + 1 /\ full # <<>>
  BY <1>1, <1>2
<1> HIDE DEF full, ent
<1>4. full[1].id \in Nat
  <2>1. 1 \in 1..Len(full)
    BY <1>1, <1>3
  <2>2. full[1] \in ReportEntry
    BY <1>3, <2>1
  <2> QED  BY <2>2 DEF ReportEntry
<1>5. bf \in Seq(ReportEntry) /\ nx \in Nat /\ nx <= Len(bf)
  <2>1. CASE over
    <3>1. Tail(full) \in Seq(ReportEntry) /\ Len(Tail(full)) = Len(full) - 1
      BY <1>3
    <3> QED  BY <1>1, <1>3, <2>1, <3>1
  <2>2. CASE ~over
    BY <1>1, <1>3, <2>2
  <2> QED  BY <2>1, <2>2
<1>6. sn \in SUBSET Nat /\ us \in SUBSET Nat
  BY <1>1, <1>4
<1>7. bo \in BOOLEAN
  BY <1>1
<1> DEFINE q == [r EXCEPT !.entries = id, !.buffer = bf, !.next = nx, !.buf_overflow = bo,
                          !.seen = sn, !.unseen = us]
<1>8. push(r, e) = q
  BY Zenon DEF push, full, ent
<1> HIDE DEF id, bf, nx, bo, sn, us
<1>9. q \in Rcb
  BY <1>2, <1>5, <1>6, <1>7, Zenon DEF Rcb, RcbRuntime
<1>10. SameHold(q, r) /\ SameWindow(q, r)
  BY DEF Rcb, RcbRuntime, SameHold, SameWindow
<1> QED  BY <1>8, <1>9, <1>10, Zenon

\* SameHold and SameWindow compose.
LEMMA SameTrans ==
  ASSUME NEW p, NEW q, NEW r, SameHold(p, q), SameHold(q, r)
  PROVE  SameHold(p, r) /\ (SameWindow(p, q) /\ SameWindow(q, r) => SameWindow(p, r))
BY DEF SameHold, SameWindow

\* emit buffers or sends an entry and touches no timer.
LEMMA EmitType ==
  ASSUME NEW r \in Rcb, NEW e \in Content, NEW cs, NEW refused
  PROVE  LET q == emit(r, e, cs, refused)
         IN  q \in Rcb /\ SameHold(q, r) /\ SameWindow(q, r)
<1> DEFINE ow == r.owed \ e.vals
           q  == [r EXCEPT !.owed = ow]
<1>1. ow \in SUBSET MemberValue
  BY DEF Rcb, RcbRuntime
<1>2. emit(r, e, cs, refused) =
        IF ~Buffered
        THEN IF r.enabled THEN transmit(q, e, cs, refused) ELSE q
        ELSE IF r.enabled THEN transmit_buffered(push(q, e), cs, refused) ELSE push(q, e)
  BY Zenon DEF emit
<1> HIDE DEF ow
<1>3. q \in Rcb /\ SameHold(q, r) /\ SameWindow(q, r)
  BY <1>1, Zenon DEF Rcb, RcbRuntime, SameHold, SameWindow
<1> HIDE DEF q
<1>4. CASE ~Buffered
  <2>1. CASE r.enabled
    BY <1>2, <1>3, <1>4, <2>1, TransmitType, SameTrans
  <2>2. CASE ~r.enabled
    BY <1>2, <1>3, <1>4, <2>2
  <2> QED  BY <2>1, <2>2
<1>5. CASE Buffered
  <2>1. push(q, e) \in Rcb /\ SameHold(push(q, e), r) /\ SameWindow(push(q, e), r)
    BY <1>3, PushType, SameTrans
  <2>2. CASE r.enabled
    BY <1>2, <1>5, <2>1, <2>2, TransmitBufferedType, SameTrans
  <2>3. CASE ~r.enabled
    BY <1>2, <1>5, <2>1, <2>3
  <2> QED  BY <2>2, <2>3
<1> QED  BY <1>4, <1>5

\* flush_pending closes the window and stops its timer.
LEMMA FlushType ==
  ASSUME NEW r \in Rcb, NEW cs, NEW refused
  PROVE  LET q == flush_pending(r, cs, refused)
         IN  /\ q \in Rcb /\ SameHold(q, r)
             /\ q.pending = {}
             /\ q.pending_timer = IF r.pending = {} THEN r.pending_timer
                                  ELSE stop_timer(r.pending_timer)
<1> DEFINE ts == stop_timer(r.pending_timer)
           p  == [r EXCEPT !.pending = {}, !.pending_timer = ts]
           e  == [vals |-> r.pending, reason |-> "change"]
<1>1. r.pending_timer \in SUBSET TimerTask /\ r.pending \in SUBSET MemberValue
  BY DEF Rcb, RcbRuntime
<1>2. ts \in SUBSET TimerTask /\ e \in Content
  BY <1>1, StopTimerType DEF Content
<1>3. CASE r.pending = {}
  <2>1. flush_pending(r, cs, refused) = r
    BY <1>3 DEF flush_pending
  <2> QED  BY <1>3, <2>1 DEF SameHold
<1>4. CASE r.pending # {}
  <2>1. flush_pending(r, cs, refused) = emit(p, e, cs, refused)
    BY <1>4, Zenon DEF flush_pending
  <2> HIDE DEF ts, e
  <2>2. p \in Rcb /\ SameHold(p, r) /\ p.pending = {} /\ p.pending_timer = ts
    BY <1>2, Zenon DEF Rcb, RcbRuntime, SameHold
  <2> HIDE DEF p
  <2>3. /\ emit(p, e, cs, refused) \in Rcb /\ SameHold(emit(p, e, cs, refused), p)
        /\ SameWindow(emit(p, e, cs, refused), p)
    BY <1>2, <2>2, EmitType
  <2> QED  BY <1>4, <2>1, <2>2, <2>3, SameTrans DEF SameWindow, ts
<1> QED  BY <1>3, <1>4

\* Collect leaves a window with a timer, if it had one before.
LEMMA CollectType ==
  ASSUME NEW r \in Rcb, NEW vs \in SUBSET MemberValue
  PROVE  /\ Collect(r, vs) \in Rcb /\ SameHold(Collect(r, vs), r)
         /\ Collect(r, vs).pending = r.pending \cup vs
         /\ Collect(r, vs).pending_timer =
              IF r.pending = {} THEN r.pending_timer \cup {"sleeping"} ELSE r.pending_timer
<1> DEFINE pd == r.pending \cup vs
           ts == IF r.pending = {} THEN r.pending_timer \cup {"sleeping"} ELSE r.pending_timer
           q  == [r EXCEPT !.pending = pd, !.pending_timer = ts]
<1>1. pd \in SUBSET MemberValue /\ ts \in SUBSET TimerTask
  BY DEF Rcb, RcbRuntime, TimerTask
<1>2. Collect(r, vs) = q
  BY Zenon DEF Collect
<1> HIDE DEF pd, ts
<1>3. q \in Rcb /\ SameHold(q, r) /\ q.pending = pd /\ q.pending_timer = ts
  BY <1>1, Zenon DEF Rcb, RcbRuntime, SameHold
<1> QED  BY <1>2, <1>3, Zenon DEF pd, ts

\* event reports or collects a change.
LEMMA EventType ==
  ASSUME NEW r \in Rcb, NEW b, NEW vs \in SUBSET MemberValue, NEW cs, NEW refused
  PROVE  LET q == event(r, b, vs, cs, refused)
         IN  q \in Rcb /\ SameHold(q, r)
<1> DEFINE e == [vals |-> vs, reason |-> "change"]
           p == IF Overlaps(r.pending, vs) THEN flush_pending(r, cs, refused) ELSE r
<1>1. event(r, b, vs, cs, refused) = IF b = 0 THEN emit(r, e, cs, refused) ELSE Collect(p, vs)
  BY Zenon DEF event
<1>2. e \in Content
  BY DEF Content
<1>3. p \in Rcb /\ SameHold(p, r)
  BY FlushType DEF SameHold
<1> HIDE DEF e, p
<1>4. CASE b = 0
  BY <1>1, <1>2, <1>4, EmitType
<1>5. CASE b # 0
  <2>1. Collect(p, vs) \in Rcb /\ SameHold(Collect(p, vs), p)
    BY <1>3, CollectType, Zenon
  <2>2. SameHold(Collect(p, vs), r)
    BY <1>3, <2>1, SameTrans, Zenon
  <2> QED  BY <1>1, <1>5, <2>1, <2>2, Zenon
<1> QED  BY <1>4, <1>5

\* The members of the data set, with their current values.
LEMMA AllMembersType ==
  ASSUME cfg \in Setting, val \in [Item -> Nat]
  PROVE  AllMembers \in SUBSET MemberValue
<1>1. CASE cfg.datSet = NoDataSet
  BY <1>1 DEF AllMembers
<1>2. CASE cfg.datSet # NoDataSet
  <2> DEFINE ms == Members[cfg.datSet]
  <2>1. ms \in Seq(Item)
    BY <1>2, DataSetAssumption DEF Setting, Option
  <2>2. \A i \in DOMAIN ms : i \in Nat /\ ms[i] \in Item
    BY <2>1
  <2>3. cfg.confRev \in Nat
    BY DEF Setting
  <2>4. \A i \in DOMAIN ms : <<i, val[ms[i]], cfg.confRev>> \in MemberValue
    BY <2>2, <2>3 DEF MemberValue
  <2>5. AllMembers = {<<i, val[ms[i]], cfg.confRev>> : i \in DOMAIN ms}
    BY <1>2 DEF AllMembers
  <2> QED  BY <2>4, <2>5
<1> QED  BY <1>1, <1>2

\* report_all closes the window and reports every member.
LEMMA ReportAllType ==
  ASSUME cfg \in Setting, val \in [Item -> Nat],
         NEW r \in Rcb, NEW reason \in {"integrity", "gi"}, NEW cs, NEW refused
  PROVE  LET q == report_all(r, reason, cs, refused)
         IN  q \in Rcb /\ SameHold(q, r)
<1> DEFINE p == flush_pending(r, cs, refused)
           e == [vals |-> AllMembers, reason |-> reason]
<1>1. p \in Rcb /\ SameHold(p, r)
  BY FlushType
<1>2. e \in Content
  BY AllMembersType DEF Content
<1>3. report_all(r, reason, cs, refused) = IF AllMembers = {} THEN p ELSE emit(p, e, cs, refused)
  BY Zenon DEF report_all
<1> HIDE DEF p, e
<1> QED  BY <1>1, <1>2, <1>3, EmitType, SameTrans

\* disable ends the subscription; a buffered block is released as well.
LEMMA DisableType ==
  ASSUME NEW r \in Rcb, NEW k \in Nat, NEW cs, NEW refused
  PROVE  LET q == disable(r, k, cs, refused)
         IN  /\ q \in Rcb /\ ~q.enabled /\ q.conn = NoConn
             /\ q.owner \in {r.owner, NoConn}
<1> DEFINE p  == flush_pending(r, cs, refused)
           ts == stop_timer(p.integrity)
           q  == [p EXCEPT !.enabled = FALSE, !.conn = NoConn, !.integrity = ts]
<1>1. p \in Rcb /\ p.owner = r.owner
  BY FlushType DEF SameHold
<1>2. disable(r, k, cs, refused) = IF Buffered THEN release(q, k) ELSE q
  BY Zenon DEF disable
<1> HIDE DEF p
<1>3. ts \in SUBSET TimerTask
  <2>1. p.integrity \in SUBSET TimerTask
    BY <1>1 DEF Rcb, RcbRuntime
  <2> QED  BY <2>1, StopTimerType
<1> HIDE DEF ts
<1>4. q \in Rcb /\ ~q.enabled /\ q.conn = NoConn /\ q.owner = r.owner
  <2>1. q \in Rcb
    BY <1>1, <1>3, Zenon DEF Rcb, RcbRuntime, Option
  <2>2. ~q.enabled /\ q.conn = NoConn /\ q.owner = r.owner
    BY <1>1 DEF Rcb, RcbRuntime
  <2> QED  BY <2>1, <2>2
<1> HIDE DEF q
<1>5. CASE Buffered
  <2>1. disable(r, k, cs, refused) = release(q, k)
    BY <1>2, <1>5
  <2> QED  BY <1>4, <2>1, ReleaseType
<1>6. CASE ~Buffered
  BY <1>2, <1>4, <1>6
<1> QED  BY <1>5, <1>6

\* Resume only moves the place where delivery goes on.
LEMMA ResumeType ==
  ASSUME NEW r \in Rcb
  PROVE  Resume(r) \in Rcb /\ SameHold(Resume(r), r)
<1> DEFINE held == {i \in DOMAIN r.buffer : r.buffer[i].id = r.resync_id}
<1>1. NoResync \in Int
  BY DEF NoResync
<1>2. r.buffer \in Seq(ReportEntry) /\ DOMAIN r.buffer = 1..Len(r.buffer)
  BY DEF Rcb, RcbRuntime
<1>3. ASSUME NEW n \in Nat, n <= Len(r.buffer), NEW b \in BOOLEAN
      PROVE  LET q == [r EXCEPT !.next = n, !.resync_id = NoResync, !.buf_overflow = b]
             IN  q \in Rcb /\ SameHold(q, r)
  BY <1>1, <1>3, Zenon DEF Rcb, RcbRuntime, SameHold
<1>4. ASSUME NEW n \in Nat, n <= Len(r.buffer)
      PROVE  LET q == [r EXCEPT !.next = n, !.resync_id = NoResync]
             IN  q \in Rcb /\ SameHold(q, r)
  BY <1>1, <1>4, Zenon DEF Rcb, RcbRuntime, SameHold
<1>5. 0 \in Nat /\ 0 <= Len(r.buffer)
  BY <1>2
<1>6. CASE r.resync_id = NoResync
  BY <1>6 DEF Resume, SameHold
<1>7. CASE r.resync_id # NoResync /\ r.resync_id = ZeroEntryId
  BY <1>4, <1>5, <1>7, Zenon DEF Resume
<1>8. CASE r.resync_id # NoResync /\ r.resync_id # ZeroEntryId /\ held # {}
  <2> DEFINE n == CHOOSE i \in held : TRUE
  <2>1. n \in held
    BY <1>8
  <2>2. n \in Nat /\ n <= Len(r.buffer)
    BY <1>2, <2>1
  <2>3. Resume(r) = [r EXCEPT !.next = n, !.resync_id = NoResync]
    BY <1>8, Zenon DEF Resume
  <2> HIDE DEF n
  <2> QED  BY <1>4, <2>2, <2>3, Zenon
<1>9. CASE r.resync_id # NoResync /\ r.resync_id # ZeroEntryId /\ held = {}
  <2>1. Resume(r) = [r EXCEPT !.next = 0, !.resync_id = NoResync, !.buf_overflow = TRUE]
    BY <1>9, Zenon DEF Resume
  <2> QED  BY <1>3, <1>5, <2>1, Zenon
<1> QED  BY <1>6, <1>7, <1>8, <1>9

\* enable starts a subscription of the association, which then owns the block.
LEMMA EnableType ==
  ASSUME NEW r \in Rcb, NEW c \in Conn, NEW cs, NEW refused
  PROVE  LET q == enable(r, c, cs, refused)
         IN  q \in Rcb /\ q.enabled /\ q.conn = c /\ q.owner = c
<1> DEFINE t  == IF r.owner # c THEN take(r, c) ELSE r
           ts == stop_timer(t.integrity)
           q  == [t EXCEPT !.enabled = TRUE, !.conn = c, !.sq_num = 0, !.attempts = 0,
                           !.stream = {}, !.integrity = ts]
           s  == IF Buffered THEN transmit_buffered(Resume(q), cs, refused) ELSE q
           us == s.integrity \cup IF IntegrityWanted THEN {"sleeping"} ELSE {}
           u  == [s EXCEPT !.integrity = us]
<1>1. t \in Rcb /\ t.owner = c
  BY TakeType
<1>2. enable(r, c, cs, refused) = u
  BY Zenon DEF enable
<1> HIDE DEF t
<1>3. ts \in SUBSET TimerTask
  <2>1. t.integrity \in SUBSET TimerTask
    BY <1>1 DEF Rcb, RcbRuntime
  <2> QED  BY <2>1, StopTimerType
<1> HIDE DEF ts
<1>4. q \in Rcb /\ q.enabled /\ q.conn = c /\ q.owner = c
  BY <1>1, <1>3, Zenon DEF Rcb, RcbRuntime, Option
<1> HIDE DEF q
<1>5. s \in Rcb /\ SameHold(s, q)
  <2>1. CASE Buffered
    BY <1>4, <2>1, ResumeType, TransmitBufferedType, SameTrans
  <2>2. CASE ~Buffered
    BY <1>4, <2>2, Zenon DEF SameHold
  <2> QED  BY <2>1, <2>2
<1>6. s.enabled /\ s.conn = c /\ s.owner = c
  BY <1>4, <1>5, Zenon DEF SameHold
<1> HIDE DEF s
<1>7. us \in SUBSET TimerTask
  BY <1>5 DEF Rcb, RcbRuntime, TimerTask
<1> HIDE DEF us
<1>8. u \in Rcb /\ u.enabled /\ u.conn = c /\ u.owner = c
  BY <1>5, <1>6, <1>7, Zenon DEF Rcb, RcbRuntime
<1> QED  BY <1>2, <1>8, Zenon

----------------------------------------------------------------------------
(* Who holds the block *)

\* HolderIsServed is inductive together with the types.
Inv ==
  /\ conns \in SUBSET Conn /\ ended \in SUBSET Conn
  /\ cfg \in Setting
  /\ rcb \in Rcb
  /\ val \in [Item -> Nat]
  /\ updates \in Nat
  /\ shut \in BOOLEAN
  /\ HolderIsServed

\* The block is held by the association, or would be.
HeldBy(q, c) == q \in Rcb /\ q.owner = c /\ (q.enabled => q.conn = c) /\ (q.enabled <=> q.conn # NoConn)

\* A permitted write finds the block, or makes it, the writer's.
LEMMA ImplicitHeld ==
  ASSUME Inv, NEW c \in Conn, MayWrite(c)
  PROVE  HeldBy(Implicit(c), c) /\ (Implicit(c).enabled <=> rcb.enabled) /\ c \in conns /\ c # NoConn
<1>1. c \in conns /\ allowed(rcb, c) /\ c # NoConn
  BY ConnAssumption DEF MayWrite
<1>2. CASE rcb.owner = NoConn
  <2>1. Implicit(c) = take(rcb, c)
    BY <1>2 DEF Implicit
  <2> QED  BY <1>1, <1>2, <2>1, TakeType DEF HeldBy, Inv, HolderIsServed
<1>3. CASE rcb.owner # NoConn
  BY <1>1, <1>3 DEF allowed, Implicit, HeldBy, Inv, HolderIsServed
<1> QED  BY <1>2, <1>3

\* Such a block satisfies the invariant.
LEMMA HeldKeepsInv ==
  ASSUME Inv, NEW c, c \in conns, HeldBy(rcb', c), cfg' \in Setting,
         UNCHANGED <<conns, ended, val, updates, shut>>
  PROVE  Inv'
BY DEF Inv, HeldBy, HolderIsServed

\* HeldBy depends on the hold alone.
LEMMA HeldSame ==
  ASSUME NEW q \in Rcb, NEW r, NEW c, HeldBy(r, c), SameHold(q, r)
  PROVE  HeldBy(q, c)
BY DEF HeldBy, SameHold

\* A block that is held as before satisfies the invariant.
LEMMA SameKeepsInv ==
  ASSUME Inv, rcb' \in Rcb,
         rcb'.enabled = rcb.enabled, rcb'.conn = rcb.conn, rcb'.owner = rcb.owner,
         conns' \in SUBSET Conn, conns \subseteq conns', ended' = ended, cfg' = cfg,
         val' \in [Item -> Nat], updates' \in Nat, shut' \in BOOLEAN
  PROVE  Inv'
BY DEF Inv, HolderIsServed

\* The state ReportManager::new and materialise_rcbs leave satisfies the invariant.
LEMMA InitInv == Init => Inv
<1> SUFFICES ASSUME Init PROVE Inv
  OBVIOUS
<1>1. NoResync \in Int
  BY DEF NoResync
<1>2. <<>> \in Seq(ReportEntry) /\ Len(<<>>) = 0
  OBVIOUS
<1>3. InitRcb \in Rcb
  <2>1. NoConn \in Option(Conn, NoConn) /\ ResvCfg \in Option(Addr, NoAddr)
    BY ConfigAssumption DEF Option
  <2>2. InitRcb \in RcbRuntime
    BY <1>1, <1>2, <2>1 DEF InitRcb, RcbRuntime
  <2>3. InitRcb.next <= Len(InitRcb.buffer)
    BY <1>2 DEF InitRcb
  <2> QED  BY <2>2, <2>3 DEF Rcb
<1>4. cfg \in Setting
  BY ConfigAssumption DEF Init, Setting
<1>5. HolderIsServed
  BY DEF Init, InitRcb, HolderIsServed
<1> QED  BY <1>3, <1>4, <1>5, Zenon DEF Init, Inv

\* A client's steps keep the invariant.
LEMMA ClientKeepsInv ==
  ASSUME Inv, ClientStep
  PROVE  Inv'
<1> PICK c \in Conn :
      \/ Connect(c)
      \/ Disconnect(c)
      \/ \E v \in BOOLEAN : WriteResv(c, v)
      \/ \E v \in BOOLEAN, refused \in SUBSET Sendable : WriteRptEna(c, v, refused)
      \/ \E refused \in SUBSET Sendable : WriteGI(c, refused)
      \/ WritePurgeBuf(c)
      \/ \E id \in 0..rcb.entries : WriteEntryID(c, id)
      \/ \E v \in ResvTmss : WriteResvTms(c, v)
      \/ \E d \in Option(DataSet, NoDataSet) : WriteDatSet(c, d)
      \/ \E v \in BufTms : WriteBufTm(c, v)
      \/ \E v \in IntgPds : WriteIntgPd(c, v)
      \/ \E v \in TrgOpss : WriteTrgOps(c, v)
      \/ WriteOther(c)
  BY DEF ClientStep
<1> USE DEF Inv
<1>1. CASE Connect(c)
  BY <1>1, SameKeepsInv DEF Connect
<1>2. CASE Disconnect(c)
  <2> DEFINE cs == conns \ {c}
             q  == IF rcb.conn = c THEN disable(rcb, cfg.resvTms, cs, {}) ELSE rcb
  <2>1. cfg.resvTms \in Nat
    BY DEF Setting
  <2>2. /\ q \in Rcb
        /\ q.owner \in {rcb.owner, NoConn}
        /\ q.enabled => q.owner # c /\ q.conn = q.owner
        /\ q.enabled <=> q.conn # NoConn
    <3> DEFINE d == disable(rcb, cfg.resvTms, cs, {})
    <3>1. CASE rcb.conn = c
      <4>1. rcb.enabled /\ rcb.owner = c
        BY <3>1, ConnAssumption DEF HolderIsServed
      <4>2. d \in Rcb /\ ~d.enabled /\ d.conn = NoConn /\ d.owner \in {rcb.owner, NoConn}
        BY <2>1, DisableType, Zenon
      <4> HIDE DEF d
      <4> QED  BY <3>1, <4>2, Zenon DEF d
    <3>2. CASE rcb.conn # c
      BY <3>2, Zenon DEF HolderIsServed
    <3> QED  BY <3>1, <3>2, Zenon
  <2>3. rcb' = IF q.owner = c THEN release(q, cfg.resvTms) ELSE q
    BY <1>2, Zenon DEF Disconnect
  <2>4. conns' = cs /\ ended' = ended \cup {c} /\ UNCHANGED <<cfg, val, updates, shut>>
    BY <1>2, Zenon DEF Disconnect
  <2> HIDE DEF q
  <2>5. CASE q.owner = c
    <3>1. /\ rcb' \in Rcb /\ rcb'.owner = NoConn
          /\ rcb'.enabled = q.enabled /\ rcb'.conn = q.conn
      BY <2>1, <2>2, <2>3, <2>5, ReleaseType, Zenon
    <3> QED  BY <2>2, <2>4, <2>5, <3>1, Zenon DEF HolderIsServed
  <2>6. CASE q.owner # c
    <3>1. rcb' = q
      BY <2>3, <2>6
    <3> QED  BY <2>2, <2>4, <2>6, <3>1, Zenon DEF HolderIsServed
  <2> QED  BY <2>5, <2>6
<1>3. ASSUME NEW v \in BOOLEAN, WriteResv(c, v)  PROVE Inv'
  <2>1. c \in conns /\ c # NoConn /\ allowed(rcb, c) /\ cfg.resvTms \in Nat
    BY <1>3, ConnAssumption DEF WriteResv, MayWrite, Setting
  <2>2. UNCHANGED <<conns, ended, cfg, val, updates, shut>>
    BY <1>3 DEF WriteResv
  <2>3. CASE v
    <3>1. rcb' = take(rcb, c)
      BY <1>3, <2>3 DEF WriteResv
    <3>2. HeldBy(rcb', c)
      BY <2>1, <3>1, TakeType, Zenon DEF HeldBy, allowed, HolderIsServed
    <3> QED  BY <2>1, <2>2, <3>2, HeldKeepsInv
  <2>4. CASE ~v
    <3>1. rcb' = release(rcb, cfg.resvTms) /\ ~rcb.enabled
      BY <1>3, <2>4 DEF WriteResv
    <3> QED  BY <2>1, <2>2, <3>1, ReleaseType, Zenon DEF HolderIsServed
  <2> QED  BY <2>3, <2>4
<1>4. ASSUME NEW v \in BOOLEAN, NEW refused, WriteRptEna(c, v, refused)  PROVE Inv'
  <2>1. HeldBy(Implicit(c), c) /\ c \in conns /\ c # NoConn
    BY <1>4, ImplicitHeld DEF WriteRptEna
  <2>2. UNCHANGED <<conns, ended, cfg, val, updates, shut>> /\ cfg.resvTms \in Nat
    BY <1>4 DEF WriteRptEna, Setting
  <2>3. CASE v
    <3>1. rcb' = enable(Implicit(c), c, conns, refused)
      BY <1>4, <2>3 DEF WriteRptEna
    <3>2. HeldBy(rcb', c)
      BY <2>1, <3>1, EnableType, Zenon DEF HeldBy
    <3> QED  BY <2>1, <2>2, <3>2, HeldKeepsInv
  <2>4. CASE ~v
    <3>1. rcb' = disable(Implicit(c), cfg.resvTms, conns, refused)
      BY <1>4, <2>4 DEF WriteRptEna
    <3>2. /\ rcb' \in Rcb /\ ~rcb'.enabled /\ rcb'.conn = NoConn
          /\ rcb'.owner \in {c, NoConn}
      BY <2>1, <2>2, <3>1, DisableType, Zenon DEF HeldBy
    <3> QED  BY <2>1, <2>2, <3>2, Zenon DEF HolderIsServed
  <2> QED  BY <2>3, <2>4
<1>5. ASSUME NEW refused, WriteGI(c, refused)  PROVE Inv'
  <2>1. HeldBy(Implicit(c), c) /\ c \in conns
    BY <1>5, ImplicitHeld, Zenon DEF WriteGI
  <2>2. UNCHANGED <<conns, ended, cfg, val, updates, shut>>
    BY <1>5, Zenon DEF WriteGI
  <2>3. rcb' = IF "gi" \in cfg.trgOps THEN report_all(Implicit(c), "gi", conns, refused)
               ELSE Implicit(c)
    BY <1>5, Zenon DEF WriteGI
  <2>4. rcb' \in Rcb /\ SameHold(rcb', Implicit(c))
    <3>1. Implicit(c) \in Rcb
      BY <2>1, Zenon DEF HeldBy
    <3>2. CASE "gi" \in cfg.trgOps
      BY <2>3, <3>1, <3>2, ReportAllType, Zenon
    <3>3. CASE "gi" \notin cfg.trgOps
      <4>1. rcb' = Implicit(c)
        BY <2>3, <3>3
      <4> QED  BY <3>1, <4>1 DEF SameHold
    <3> QED  BY <3>2, <3>3, Zenon
  <2>5. HeldBy(rcb', c)
    BY <2>1, <2>4, HeldSame
  <2> QED  BY <2>1, <2>2, <2>5, HeldKeepsInv
<1>6. CASE WritePurgeBuf(c)
  <2>1. HeldBy(Implicit(c), c) /\ c \in conns
    BY <1>6, ImplicitHeld DEF WritePurgeBuf
  <2>2. UNCHANGED <<conns, ended, cfg, val, updates, shut>> /\ rcb' = purge(Implicit(c))
    BY <1>6 DEF WritePurgeBuf
  <2>3. HeldBy(rcb', c)
    <3>1. Implicit(c) \in Rcb
      BY <2>1, Zenon DEF HeldBy
    <3>2. rcb' \in Rcb /\ SameHold(rcb', Implicit(c))
      BY <2>2, <3>1, PurgeType
    <3> QED  BY <2>1, <3>2, HeldSame
  <2> QED  BY <2>1, <2>2, <2>3, HeldKeepsInv
<1>7. ASSUME NEW id \in 0..rcb.entries, WriteEntryID(c, id)  PROVE Inv'
  <2>1. HeldBy(Implicit(c), c) /\ c \in conns
    BY <1>7, ImplicitHeld DEF WriteEntryID
  <2>2. /\ UNCHANGED <<conns, ended, cfg, val, updates, shut>>
        /\ rcb' = [Implicit(c) EXCEPT !.resync_id = id]
    BY <1>7 DEF WriteEntryID
  <2>3. HeldBy(rcb', c)
    <3> DEFINE q == [Implicit(c) EXCEPT !.resync_id = id]
    <3>1. id \in Int
      OBVIOUS
    <3>2. HeldBy(q, c)
      BY <2>1, <3>1, Zenon DEF HeldBy, Rcb, RcbRuntime
    <3> QED  BY <2>2, <3>2, Zenon
  <2> QED  BY <2>1, <2>2, <2>3, HeldKeepsInv
<1>8. ASSUME NEW v \in ResvTmss, WriteResvTms(c, v)  PROVE Inv'
  <2> DEFINE ts == stop_timer(Implicit(c).resv_timer)
             q  == [Implicit(c) EXCEPT !.resv_timer = ts]
  <2>1. HeldBy(Implicit(c), c) /\ c \in conns
    BY <1>8, ImplicitHeld DEF WriteResvTms
  <2>2. /\ UNCHANGED <<conns, ended, val, updates, shut>>
        /\ cfg' = [cfg EXCEPT !.resvTms = v]
        /\ rcb' = IF v = 0 THEN q ELSE Implicit(c)
    BY <1>8, Zenon DEF WriteResvTms
  <2>3. cfg' \in Setting
    BY <2>2, SettingAssumption DEF Setting
  <2>4. ts \in SUBSET TimerTask
    <3>1. Implicit(c).resv_timer \in SUBSET TimerTask
      BY <2>1 DEF HeldBy, Rcb, RcbRuntime
    <3> QED  BY <3>1, StopTimerType
  <2> HIDE DEF ts
  <2>5. HeldBy(q, c)
    BY <2>1, <2>4, Zenon DEF HeldBy, Rcb, RcbRuntime
  <2> HIDE DEF q
  <2>6. HeldBy(rcb', c)
    BY <2>1, <2>2, <2>5
  <2> QED  BY <2>1, <2>2, <2>3, <2>6, HeldKeepsInv
<1>9. ASSUME NEW d \in Option(DataSet, NoDataSet), WriteDatSet(c, d)  PROVE Inv'
  <2>1. HeldBy(Implicit(c), c) /\ c \in conns
    BY <1>9, ImplicitHeld, Zenon DEF WriteDatSet
  <2>2. /\ UNCHANGED <<conns, ended, val, updates, shut>>
        /\ cfg' = [cfg EXCEPT !.datSet = d, !.confRev = @ + 1]
        /\ rcb' = purge(Implicit(c))
    BY <1>9, Zenon DEF WriteDatSet
  <2>3. cfg' \in Setting
    <3> DEFINE n == cfg.confRev + 1
               s == [cfg EXCEPT !.datSet = d, !.confRev = n]
    <3>1. cfg' = s
      BY <2>2, Zenon
    <3>2. n \in Nat
      BY DEF Setting
    <3> HIDE DEF n
    <3>3. s \in Setting
      BY <3>2, Zenon DEF Setting
    <3> QED  BY <3>1, <3>3, Zenon
  <2>4. HeldBy(rcb', c)
    <3>1. Implicit(c) \in Rcb
      BY <2>1, Zenon DEF HeldBy
    <3>2. rcb' \in Rcb /\ SameHold(rcb', Implicit(c))
      BY <2>2, <3>1, PurgeType
    <3> QED  BY <2>1, <3>2, HeldSame
  <2> QED  BY <2>1, <2>2, <2>3, <2>4, HeldKeepsInv
<1>10. ASSUME NEW s \in Setting, WriteSetting(c, s)  PROVE Inv'
  <2>1. HeldBy(Implicit(c), c) /\ c \in conns
    BY <1>10, ImplicitHeld DEF WriteSetting
  <2>2. UNCHANGED <<conns, ended, val, updates, shut>> /\ cfg' = s /\ rcb' = Implicit(c)
    BY <1>10 DEF WriteSetting
  <2> QED  BY <2>1, <2>2, HeldKeepsInv
<1>11. ASSUME NEW v \in BufTms, WriteBufTm(c, v)  PROVE Inv'
  <2>1. [cfg EXCEPT !.bufTm = v] \in Setting
    BY DEF Setting
  <2> QED  BY <1>10, <1>11, <2>1 DEF WriteBufTm
<1>12. ASSUME NEW v \in IntgPds, WriteIntgPd(c, v)  PROVE Inv'
  <2>1. [cfg EXCEPT !.intgPd = v] \in Setting
    BY DEF Setting
  <2> QED  BY <1>10, <1>12, <2>1 DEF WriteIntgPd
<1>13. ASSUME NEW v \in TrgOpss, WriteTrgOps(c, v)  PROVE Inv'
  <2>1. [cfg EXCEPT !.trgOps = v] \in Setting
    BY DEF Setting
  <2> QED  BY <1>10, <1>13, <2>1 DEF WriteTrgOps
<1>14. CASE WriteOther(c)
  BY <1>10, <1>14 DEF WriteOther
<1> QED
  BY <1>1, <1>2, <1>3, <1>4, <1>5, <1>6, <1>7, <1>8, <1>9, <1>11, <1>12, <1>13, <1>14

\* An update of the process keeps the invariant.
LEMMA UpdateKeepsInv ==
  ASSUME Inv, NEW items \in SUBSET Item, NEW refused, Update(items, refused)
  PROVE  Inv'
<1> USE DEF Inv
<1> DEFINE n  == updates + 1
           ms == Members[cfg.datSet]
           vs == IF cfg.datSet = NoDataSet \/ "dchg" \notin cfg.trgOps THEN {}
                 ELSE {<<i, n, cfg.confRev>> : i \in {j \in DOMAIN ms : ms[j] \in items}}
           ow == rcb.owed \cup vs
           p  == [rcb EXCEPT !.owed = ow]
<1>1. /\ updates' = n
      /\ val' = [i \in Item |-> IF i \in items THEN n ELSE val[i]]
      /\ rcb' = IF vs = {} \/ (~Buffered /\ ~rcb.enabled) THEN rcb
                ELSE event(p, cfg.bufTm, vs, conns, refused)
      /\ UNCHANGED <<conns, ended, cfg, shut>>
  BY Zenon DEF Update
<1>2. n \in Nat /\ val' \in [Item -> Nat]
  BY <1>1
<1>3. vs \in SUBSET MemberValue
  <2>1. CASE cfg.datSet = NoDataSet \/ "dchg" \notin cfg.trgOps
    BY <2>1
  <2>2. CASE ~(cfg.datSet = NoDataSet \/ "dchg" \notin cfg.trgOps)
    <3>1. ms \in Seq(Item)
      BY <2>2, DataSetAssumption DEF Setting, Option
    <3>2. \A i \in DOMAIN ms : i \in Nat
      BY <3>1
    <3>3. cfg.confRev \in Nat
      BY DEF Setting
    <3>4. \A i \in DOMAIN ms : <<i, n, cfg.confRev>> \in MemberValue
      BY <1>2, <3>2, <3>3 DEF MemberValue
    <3> HIDE DEF ms
    <3> QED  BY <2>2, <3>4
  <2> QED  BY <2>1, <2>2
<1> HIDE DEF vs
<1>4. ow \in SUBSET MemberValue
  BY <1>3 DEF Rcb, RcbRuntime
<1> HIDE DEF ow
<1>5. p \in Rcb /\ SameHold(p, rcb)
  BY <1>4, Zenon DEF Rcb, RcbRuntime, SameHold
<1> HIDE DEF p
<1>6. rcb' \in Rcb /\ SameHold(rcb', rcb)
  <2> DEFINE q == event(p, cfg.bufTm, vs, conns, refused)
  <2>1. q \in Rcb /\ SameHold(q, p)
    BY <1>3, <1>5, EventType
  <2>2. SameHold(q, rcb)
    BY <1>5, <2>1, SameTrans, Zenon
  <2>3. SameHold(rcb, rcb)
    BY DEF SameHold
  <2> HIDE DEF q
  <2>4. rcb' = rcb \/ rcb' = q
    BY <1>1 DEF q
  <2> QED  BY <2>1, <2>2, <2>3, <2>4, Zenon
<1> QED  BY <1>1, <1>2, <1>6, SameKeepsInv DEF SameHold

\* Timer tasks and the shutdown keep the invariant.
LEMMA TimerKeepsInv ==
  ASSUME Inv, TimerStep \/ Shutdown
  PROVE  Inv'
<1> USE DEF Inv
<1>1. ASSUME NEW ts \in SUBSET TimerTask
      PROVE  /\ [rcb EXCEPT !.pending_timer = ts] \in Rcb
             /\ [rcb EXCEPT !.integrity = ts] \in Rcb
             /\ [rcb EXCEPT !.resv_timer = ts] \in Rcb
             /\ SameHold([rcb EXCEPT !.pending_timer = ts], rcb)
  BY Zenon DEF Rcb, RcbRuntime, SameHold
<1>2. /\ rcb.pending_timer \in SUBSET TimerTask
      /\ rcb.integrity \in SUBSET TimerTask
      /\ rcb.resv_timer \in SUBSET TimerTask
  BY DEF Rcb, RcbRuntime
<1>3. ASSUME NEW timer \in Timers, NEW ts \in SUBSET TimerTask
      PROVE  LET q == [rcb EXCEPT ![timer] = ts]
             IN  /\ q \in Rcb
                 /\ q.enabled = rcb.enabled /\ q.conn = rcb.conn /\ q.owner = rcb.owner
  BY Zenon DEF Timers, Rcb, RcbRuntime
<1>4. ASSUME NEW timer \in Timers, Wake(timer) \/ RunStale(timer)  PROVE Inv'
  <2>1. \E us \in SUBSET TimerTask : rcb' = [rcb EXCEPT ![timer] = us]
    <3>1. rcb[timer] \in SUBSET TimerTask
      BY <1>2 DEF Timers
    <3>2. CASE Wake(timer)
      BY <3>1, <3>2, Zenon DEF Wake, TimerTask
    <3>3. CASE RunStale(timer)
      BY <3>1, <3>3, Zenon DEF RunStale, TimerTask
    <3> QED  BY <1>4, <3>2, <3>3
  <2>2. UNCHANGED <<conns, ended, cfg, val, updates, shut>>
    BY <1>4 DEF Wake, RunStale
  <2> PICK us \in SUBSET TimerTask : rcb' = [rcb EXCEPT ![timer] = us]
    BY <2>1, Zenon
  <2> DEFINE q == [rcb EXCEPT ![timer] = us]
  <2>3. q \in Rcb /\ q.enabled = rcb.enabled /\ q.conn = rcb.conn /\ q.owner = rcb.owner
    BY <1>3, Zenon
  <2>4. rcb' = q
    OBVIOUS
  <2> HIDE DEF q
  <2> QED  BY <2>2, <2>3, <2>4, SameKeepsInv, Zenon
<1>5. ASSUME NEW refused, BufferTimeWindow(refused)  PROVE Inv'
  <2> DEFINE ts == rcb.pending_timer \ {"woken"}
             p  == [rcb EXCEPT !.pending_timer = ts]
  <2>1. rcb' = flush_pending(p, conns, refused) /\ UNCHANGED <<conns, ended, cfg, val, updates, shut>>
    BY <1>5, Zenon DEF BufferTimeWindow
  <2>2. ts \in SUBSET TimerTask
    BY <1>2
  <2> HIDE DEF ts
  <2>3. p \in Rcb /\ SameHold(p, rcb)
    BY <1>1, <2>2, Zenon
  <2> HIDE DEF p
  <2>4. rcb' \in Rcb /\ SameHold(rcb', rcb)
    BY <2>1, <2>3, FlushType, SameTrans, Zenon
  <2> QED  BY <2>1, <2>4, SameKeepsInv DEF SameHold
<1>6. ASSUME NEW refused, IntegrityTick(refused)  PROVE Inv'
  <2> DEFINE ts == (rcb.integrity \ {"woken"}) \cup {"sleeping"}
             us == rcb.integrity \ {"woken"}
             p  == [rcb EXCEPT !.integrity = ts]
             q  == [rcb EXCEPT !.integrity = us]
  <2>1. /\ rcb' = IF rcb.enabled THEN report_all(p, "integrity", conns, refused) ELSE q
        /\ UNCHANGED <<conns, ended, cfg, val, updates, shut>>
    BY <1>6, Zenon DEF IntegrityTick
  <2>2. ts \in SUBSET TimerTask /\ us \in SUBSET TimerTask
    BY <1>2 DEF TimerTask
  <2> HIDE DEF ts, us
  <2>3. /\ p \in Rcb /\ p.enabled = rcb.enabled /\ p.conn = rcb.conn /\ p.owner = rcb.owner
        /\ q \in Rcb /\ q.enabled = rcb.enabled /\ q.conn = rcb.conn /\ q.owner = rcb.owner
    BY <2>2, Zenon DEF Rcb, RcbRuntime
  <2> HIDE DEF p, q
  <2>4. /\ rcb' \in Rcb
        /\ rcb'.enabled = rcb.enabled /\ rcb'.conn = rcb.conn /\ rcb'.owner = rcb.owner
    <3> DEFINE a == report_all(p, "integrity", conns, refused)
    <3>1. a \in Rcb /\ SameHold(a, p)
      BY <2>3, ReportAllType
    <3>2. a.enabled = rcb.enabled /\ a.conn = rcb.conn /\ a.owner = rcb.owner
      BY <2>3, <3>1 DEF SameHold
    <3> HIDE DEF a
    <3>3. rcb' = a \/ rcb' = q
      BY <2>1 DEF a
    <3> QED  BY <2>3, <3>1, <3>2, <3>3, Zenon
  <2> QED  BY <2>1, <2>4, SameKeepsInv, Zenon
<1>7. CASE ReservationTimeout
  <2> DEFINE ts == rcb.resv_timer \ {"woken"}
             ip == IF rcb.owner = NoConn THEN NoAddr ELSE rcb.resv_ip
             q  == [rcb EXCEPT !.resv_timer = ts, !.resv_ip = ip]
  <2>1. rcb' = q /\ UNCHANGED <<conns, ended, cfg, val, updates, shut>>
    BY <1>7, Zenon DEF ReservationTimeout
  <2>2. ts \in SUBSET TimerTask /\ ip \in Option(Addr, NoAddr)
    BY <1>2 DEF Rcb, RcbRuntime, Option
  <2> HIDE DEF ts, ip
  <2>3. q \in Rcb /\ q.enabled = rcb.enabled /\ q.conn = rcb.conn /\ q.owner = rcb.owner
    BY <2>2, Zenon DEF Rcb, RcbRuntime
  <2> HIDE DEF q
  <2> QED  BY <2>1, <2>3, SameKeepsInv
<1>8. CASE Shutdown
  <2> DEFINE ts == stop_timer(rcb.integrity)
             us == stop_timer(rcb.resv_timer)
             ws == stop_timer(rcb.pending_timer)
             q  == [rcb EXCEPT !.enabled = FALSE, !.conn = NoConn, !.integrity = ts,
                               !.resv_timer = us, !.pending_timer = ws]
  <2>1. rcb' = q /\ shut' = TRUE /\ UNCHANGED <<conns, ended, cfg, val, updates>>
    BY <1>8, Zenon DEF Shutdown
  <2>2. ts \in SUBSET TimerTask /\ us \in SUBSET TimerTask /\ ws \in SUBSET TimerTask
    BY <1>2, StopTimerType
  <2> HIDE DEF ts, us, ws
  <2>3. q \in Rcb /\ ~q.enabled /\ q.conn = NoConn /\ q.owner = rcb.owner
    BY <2>2, Zenon DEF Rcb, RcbRuntime, Option
  <2> HIDE DEF q
  <2> QED  BY <2>1, <2>3 DEF HolderIsServed
<1> QED  BY <1>4, <1>5, <1>6, <1>7, <1>8 DEF TimerStep

\* Every step keeps the invariant: it is inductive.
LEMMA NextInv == Inv /\ [Next]_vars => Inv'
<1> SUFFICES ASSUME Inv, [Next]_vars  PROVE Inv'
  OBVIOUS
<1>1. CASE ClientStep
  BY <1>1, ClientKeepsInv
<1>2. ASSUME NEW items \in SUBSET Item \ {{}}, NEW refused \in SUBSET Sendable,
             Update(items, refused)
      PROVE  Inv'
  BY <1>2, UpdateKeepsInv
<1>3. CASE TimerStep \/ Shutdown
  BY <1>3, TimerKeepsInv
<1>4. CASE UNCHANGED vars
  BY <1>4 DEF vars, Inv, HolderIsServed
<1> QED  BY <1>1, <1>2, <1>3, <1>4 DEF Next

\* Every reachable state of the block and its surroundings is well typed, for
\* any number of clients, data sets and buffer sizes.
THEOREM TypeCorrect == Spec => []TypeOK
<1>1. Inv => TypeOK
  BY DEF Inv, Rcb, TypeOK
<1> QED  BY <1>1, InitInv, NextInv, PTL DEF Spec

\* An enabled block is held by the association it reports to, and whoever
\* holds a block is still served: when serve_transport is through with an
\* association, disable_conn has left it neither a subscription nor a
\* reservation.
THEOREM HolderServed == Spec => []HolderIsServed
<1>1. Inv => HolderIsServed
  BY DEF Inv
<1> QED  BY <1>1, InitInv, NextInv, PTL DEF Spec

=============================================================================
