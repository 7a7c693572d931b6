--------------------------- MODULE ReportControl ---------------------------
(***************************************************************************)
(* One report control block of the server's report engine                  *)
(* (server/reporting.rs, server/rcb.rs) together with the associations     *)
(* that write it, the process that updates the data and the timer tasks    *)
(* that reach back into it.                                                *)
(*                                                                         *)
(* The engine does everything to a block under the model write lock, so    *)
(* each client write, update, timer expiry and disconnection is one        *)
(* action.  The functions of the engine are operators from RcbRuntime      *)
(* records to RcbRuntime records, composed as the code composes its calls. *)
(* An abort only stops a timer task that is still asleep; a task that      *)
(* already woke runs when it gets the lock, and must see from its          *)
(* generation that it is stale.                                            *)
(***************************************************************************)
EXTENDS Integers, Sequences, FiniteSets

CONSTANTS
  Conn, NoConn,      \* association identifiers (ConnId), never reused
  Addr, NoAddr,      \* client addresses
  Ip,                \* the address each association came from, or NoAddr
  Item,              \* data attributes the data sets name
  DataSet, NoDataSet,\* references that resolve, and the empty DatSet
  Members,           \* the items of each data set, in order
  Kinds,             \* whether the block is buffered: {TRUE}, {FALSE} or both
  MaxBuffer,         \* max_buffer: how many reports a BRCB retains
  SqNum16, SqNum8,   \* 2^16 and 2^8: where the SqNum of a BRCB, of a URCB wraps
  ResvCfg,           \* the ClientLN address reserved by configuration, or NoAddr
  BufTms, IntgPds, ResvTmss, TrgOpss, \* the values these settings may take
  MaxUpdates,        \* bound: updates of the process
  MaxReports,        \* bound: reports after which no new event is raised
  MaxConfRev         \* bound: DatSet writes

ASSUME ConnAssumption == NoConn \notin Conn /\ NoAddr \notin Addr
ASSUME IpAssumption == Ip \in [Conn -> Addr \cup {NoAddr}]
ASSUME DataSetAssumption ==
  NoDataSet \notin DataSet /\ Members \in [DataSet -> Seq(Item)]
ASSUME ConfigAssumption ==
  /\ Kinds \subseteq BOOLEAN
  /\ MaxBuffer \in Nat \ {0}
  /\ SqNum16 \in Nat \ {0} /\ SqNum8 \in Nat \ {0}
  /\ ResvCfg \in Addr \cup {NoAddr}
ASSUME SettingAssumption ==
  /\ BufTms \subseteq Nat /\ IntgPds \subseteq Nat /\ ResvTmss \subseteq Nat
  /\ TrgOpss \subseteq SUBSET {"dchg", "integrity", "gi"}
ASSUME BoundAssumption == MaxUpdates \in Nat /\ MaxReports \in Nat /\ MaxConfRev \in Nat

VARIABLES
  conns,   \* the connection table: associations being served
  ended,   \* associations that have ended
  cfg,     \* the block's writable attributes in the model
  rcb,     \* the block's RcbRuntime
  val,     \* item -> number of the update that last changed it
  updates, \* updates so far
  shut     \* Server::close has stopped the engine

vars == <<conns, ended, cfg, rcb, val, updates, shut>>

Option(S, none) == S \cup {none}

Setting == [datSet : Option(DataSet, NoDataSet), bufTm : BufTms, intgPd : IntgPds,
            resvTms : Nat, trgOps : TrgOpss, confRev : Nat, buffered : BOOLEAN]

\* One member's contribution to a report: its index in the data set, the
\* update its value stems from, and the ConfRev it was collected under.
MemberValue == Nat \X Nat \X Nat

ReportEntry == [id : Nat, vals : SUBSET MemberValue, reason : {"change", "integrity", "gi"}]

\* A report the association's queue accepted.  "pos" counts the transmissions
\* of the subscription without wrapping; sqNum is what the report carries.
Report == [id : Nat, pos : Nat, sqNum : Nat, bufOvfl : BOOLEAN,
           vals : SUBSET MemberValue, reason : {"change", "integrity", "gi"}]

\* A timer task is asleep, has woken and waits for the lock, or has woken
\* although its generation is no longer the block's.
TimerTask == {"sleeping", "woken", "stale"}
Live == {"sleeping", "woken"}

NoResync == -1
ZeroEntryId == 0

RcbRuntime ==
  [enabled : BOOLEAN, conn : Option(Conn, NoConn), owner : Option(Conn, NoConn),
   resv_ip : Option(Addr, NoAddr), resv_timer : SUBSET TimerTask,
   sq_num : Nat, integrity : SUBSET TimerTask,
   pending : SUBSET MemberValue, pending_timer : SUBSET TimerTask,
   buffer : Seq(ReportEntry), next : Nat, resync_id : Int, buf_overflow : BOOLEAN,
   \* The rest observes the block: reports numbered so far, what the current
   \* subscription sent, and what became of the entries it did not.
   entries : Nat,                \* EntryIDs drawn
   attempts : Nat,               \* transmissions of the current subscription
   stream : SUBSET Report,       \* those the association's queue accepted
   seen : SUBSET Nat,            \* buffered entries that were ever accepted
   unseen : SUBSET Nat,          \* refused or discarded unsent since the last accepted
   skipped : SUBSET Nat,         \* passed over with no association to send to
   owed : SUBSET MemberValue]    \* changes captured and not yet emitted

----------------------------------------------------------------------------
(* RcbRuntime and the functions of the engine.  "cs" is the connection      *)
(* table, "refused" the entries whose PDUs the association's queue refuses  *)
(* (any segment refused fails the whole report).                            *)

\* The kind of the block, which its logical node fixes (BR or RP).
Buffered == cfg.buffered

SqNumMod == IF Buffered THEN SqNum16 ELSE SqNum8

stop_timer(tasks) == IF "woken" \in tasks THEN {"stale"} ELSE tasks \cap {"stale"}

allowed(r, c) ==
  IF r.owner # NoConn THEN r.owner = c ELSE r.resv_ip \in {NoAddr, Ip[c]}

take(r, c) ==
  [r EXCEPT !.owner = c,
            !.resv_timer = stop_timer(@),
            !.resv_ip = IF ResvCfg = NoAddr THEN NoAddr ELSE @]

purge(r) ==
  [r EXCEPT !.buffer = <<>>, !.next = 0, !.buf_overflow = FALSE, !.resync_id = NoResync,
            !.seen = {}, !.unseen = {}, !.skipped = {}]

\* Mutant of release: the address keeps the block and no timer is started.
release_NoTimer(r, resvTms) ==
  [r EXCEPT !.owner = NoConn,
            !.resv_ip = IF resvTms > 0 /\ r.owner # NoConn THEN Ip[r.owner] ELSE NoAddr,
            !.resv_timer = stop_timer(@)]

release(r, resvTms) ==
  LET hold == /\ Buffered
              /\ resvTms > 0
              /\ r.owner # NoConn
              /\ Ip[r.owner] # NoAddr
  IN  IF ResvCfg # NoAddr
      THEN [r EXCEPT !.owner = NoConn]
      ELSE [r EXCEPT !.owner = NoConn,
                     !.resv_ip = IF hold THEN Ip[r.owner] ELSE NoAddr,
                     !.resv_timer = stop_timer(@) \cup IF hold THEN {"sleeping"} ELSE {}]

\* One report of a URCB.  It has no EntryID: the id is its number.
transmit(r, e, cs, refused) ==
  IF r.conn \notin cs
  THEN r
  ELSE LET id == r.entries + 1
           sent == [id |-> id, pos |-> r.attempts, sqNum |-> r.sq_num, bufOvfl |-> FALSE,
                    vals |-> e.vals, reason |-> e.reason]
       IN  [r EXCEPT !.entries = id,
                     !.sq_num = (@ + 1) % SqNumMod,
                     !.attempts = @ + 1,
                     !.stream = IF id \in refused THEN @ ELSE @ \cup {sent}]

\* The reports transmit_buffered sends: the i-th carries BufOvfl when the one
\* before it was refused, the first when the block had entries to announce.
Outgoing(r, i, refused) ==
  LET e == r.buffer[r.next + i]
  IN  [id |-> e.id, pos |-> r.attempts + i - 1, sqNum |-> (r.sq_num + i - 1) % SqNumMod,
       bufOvfl |-> IF i = 1 THEN r.buf_overflow ELSE r.buffer[r.next + i - 1].id \in refused,
       vals |-> e.vals, reason |-> e.reason]

transmit_buffered(r, cs, refused) ==
  LET n        == Len(r.buffer) - r.next
      Id(i)    == r.buffer[r.next + i].id
      accepted == {i \in 1..n : Id(i) \notin refused}
      trailing == {i \in 1..n : \A j \in i..n : Id(j) \in refused}
  IN  IF n = 0 THEN r
      ELSE IF r.conn \notin cs
      THEN [r EXCEPT !.next = Len(r.buffer), !.skipped = @ \cup {Id(i) : i \in 1..n}]
      ELSE [r EXCEPT
             !.next = Len(r.buffer),
             !.sq_num = (@ + n) % SqNumMod,
             !.attempts = @ + n,
             !.buf_overflow = Id(n) \in refused,
             !.stream = @ \cup {Outgoing(r, i, refused) : i \in accepted},
             !.seen = @ \cup {Id(i) : i \in accepted},
             !.unseen = {Id(i) : i \in trailing} \cup IF accepted = {} THEN @ ELSE {},
             !.skipped = IF accepted = {} THEN @ ELSE {}]

\* Mutants of push: the index of the next entry moves although nobody is
\* subscribed; an entry discarded unsent raises no overflow.
push_IndexBack(r, e) ==
  LET full == Append(r.buffer, [id |-> r.entries + 1, vals |-> e.vals, reason |-> e.reason])
      over == Len(full) > MaxBuffer
  IN  [r EXCEPT !.entries = @ + 1,
                !.buffer = IF over THEN Tail(full) ELSE full,
                !.next = IF @ > 0 /\ (over \/ ~r.enabled) THEN @ - 1 ELSE @,
                !.seen = @ \ IF over THEN {full[1].id} ELSE {}]

push_NoOverflow(r, e) ==
  LET full == Append(r.buffer, [id |-> r.entries + 1, vals |-> e.vals, reason |-> e.reason])
      over == Len(full) > MaxBuffer
  IN  [r EXCEPT !.entries = @ + 1,
                !.buffer = IF over THEN Tail(full) ELSE full,
                !.next = IF over /\ @ > 0 THEN @ - 1 ELSE @,
                !.unseen = @ \cup IF over /\ r.next = 0 THEN {full[1].id} ELSE {}]

\* Numbers the entry, pushes it and discards the oldest past max_buffer.  The
\* buffer was within max_buffer before, so the code's loop runs at most once.
push(r, e) ==
  LET id    == r.entries + 1
      full  == Append(r.buffer, [id |-> id, vals |-> e.vals, reason |-> e.reason])
      over  == Len(full) > MaxBuffer
      sent  == r.next > 0
  IN  [r EXCEPT
        !.entries = id,
        !.buffer = IF over THEN Tail(full) ELSE full,
        !.next = IF over /\ sent THEN @ - 1 ELSE @,
        !.buf_overflow = @ \/ (over /\ ~sent),
        !.seen = @ \ IF over THEN {full[1].id} ELSE {},
        !.unseen = @ \cup IF over /\ ~sent THEN {full[1].id} ELSE {}]

emit(r, e, cs, refused) ==
  LET q == [r EXCEPT !.owed = @ \ e.vals]
  IN  IF ~Buffered
      THEN IF r.enabled THEN transmit(q, e, cs, refused) ELSE q
      ELSE IF r.enabled THEN transmit_buffered(push(q, e), cs, refused) ELSE push(q, e)

flush_pending(r, cs, refused) ==
  IF r.pending = {} THEN r
  ELSE emit([r EXCEPT !.pending = {}, !.pending_timer = stop_timer(@)],
            [vals |-> r.pending, reason |-> "change"], cs, refused)

Overlaps(vs, ws) == \E v \in vs, w \in ws : v[1] = w[1]

\* Mutant of Collect: a new window has no timer.
Collect_NoTimer(r, vs) == [r EXCEPT !.pending = @ \cup vs]

\* Opens a window if none is open and merges the entry into it.
Collect(r, vs) ==
  [r EXCEPT !.pending = @ \cup vs,
            !.pending_timer = IF r.pending = {} THEN @ \cup {"sleeping"} ELSE @]

\* Mutant of event: a member that changes again overwrites its value.
event_Overwrites(r, bufTm, vs, cs, refused) ==
  IF bufTm = 0 THEN emit(r, [vals |-> vs, reason |-> "change"], cs, refused)
  ELSE LET q == Collect(r, vs)
       IN  [q EXCEPT !.pending = {v \in @ : v \in vs \/ \A w \in vs : v[1] # w[1]}]

event(r, bufTm, vs, cs, refused) ==
  IF bufTm = 0 THEN emit(r, [vals |-> vs, reason |-> "change"], cs, refused)
  ELSE Collect(IF Overlaps(r.pending, vs) THEN flush_pending(r, cs, refused) ELSE r, vs)

\* The current value of every member of the block's data set.
AllMembers ==
  IF cfg.datSet = NoDataSet THEN {}
  ELSE {<<i, val[Members[cfg.datSet][i]], cfg.confRev>> : i \in DOMAIN Members[cfg.datSet]}

report_all(r, reason, cs, refused) ==
  LET q == flush_pending(r, cs, refused)
  IN  IF AllMembers = {} THEN q
      ELSE emit(q, [vals |-> AllMembers, reason |-> reason], cs, refused)

disable(r, resvTms, cs, refused) ==
  LET q == [flush_pending(r, cs, refused) EXCEPT
              !.enabled = FALSE, !.conn = NoConn, !.integrity = stop_timer(@)]
  IN  IF Buffered THEN release(q, resvTms) ELSE q

\* Where delivery resumes: after the resync point, from the oldest entry for
\* all zeros, and otherwise where it left off.
Resume(r) ==
  LET held == {i \in DOMAIN r.buffer : r.buffer[i].id = r.resync_id}
  IN  IF r.resync_id = NoResync THEN r
      ELSE IF r.resync_id = ZeroEntryId THEN [r EXCEPT !.next = 0, !.resync_id = NoResync]
      ELSE IF held # {}
      THEN [r EXCEPT !.next = CHOOSE i \in held : TRUE, !.resync_id = NoResync]
      ELSE [r EXCEPT !.next = 0, !.resync_id = NoResync, !.buf_overflow = TRUE]

IntegrityWanted == cfg.intgPd > 0 /\ "integrity" \in cfg.trgOps

enable(r, c, cs, refused) ==
  LET q == [(IF r.owner # c THEN take(r, c) ELSE r) EXCEPT
              !.enabled = TRUE, !.conn = c, !.sq_num = 0, !.attempts = 0, !.stream = {},
              !.integrity = stop_timer(@)]
      s == IF Buffered THEN transmit_buffered(Resume(q), cs, refused) ELSE q
  IN  [s EXCEPT !.integrity = @ \cup IF IntegrityWanted THEN {"sleeping"} ELSE {}]

----------------------------------------------------------------------------
(* Actions *)

InitRcb ==
  [enabled |-> FALSE, conn |-> NoConn, owner |-> NoConn, resv_ip |-> ResvCfg,
   resv_timer |-> {}, sq_num |-> 0, integrity |-> {}, pending |-> {}, pending_timer |-> {},
   buffer |-> <<>>, next |-> 0, resync_id |-> NoResync, buf_overflow |-> FALSE,
   entries |-> 0, attempts |-> 0, stream |-> {}, seen |-> {}, unseen |-> {}, skipped |-> {},
   owed |-> {}]

Init ==
  /\ conns = {} /\ ended = {}
  /\ cfg \in [datSet : Option(DataSet, NoDataSet), bufTm : BufTms, intgPd : IntgPds,
              resvTms : {0}, trgOps : TrgOpss, confRev : {0}, buffered : Kinds]
  /\ rcb = InitRcb
  /\ val = [i \in Item |-> 0]
  /\ updates = 0
  /\ shut = FALSE

\* The entries a step may try to send: any it holds and the two it may add.
Sendable == {rcb.buffer[i].id : i \in DOMAIN rcb.buffer} \cup {rcb.entries + 1, rcb.entries + 2}

Connect(c) ==
  /\ c \notin conns \cup ended
  /\ conns' = conns \cup {c}
  /\ UNCHANGED <<ended, cfg, rcb, val, updates, shut>>

\* Mutant of Disconnect: only a subscription is given up, not a reservation.
Disconnect_KeepsBlock(c) ==
  /\ c \in conns
  /\ conns' = conns \ {c}
  /\ ended' = ended \cup {c}
  /\ rcb' = IF rcb.conn = c THEN disable(rcb, cfg.resvTms, conns \ {c}, {}) ELSE rcb
  /\ UNCHANGED <<cfg, val, updates, shut>>

\* serve_transport's end: the association leaves the connection table, then
\* disable_conn gives up what it held.
Disconnect(c) ==
  LET cs == conns \ {c}
      q  == IF rcb.conn = c THEN disable(rcb, cfg.resvTms, cs, {}) ELSE rcb
  IN  /\ c \in conns
      /\ conns' = cs
      /\ ended' = ended \cup {c}
      /\ rcb' = IF q.owner = c THEN release(q, cfg.resvTms) ELSE q
      /\ UNCHANGED <<cfg, val, updates, shut>>

\* Every write reserves an unheld block for the writer.
Implicit(c) == IF rcb.owner = NoConn THEN take(rcb, c) ELSE rcb

MayWrite(c) == c \in conns /\ allowed(rcb, c)

WriteResv(c, v) ==
  /\ ~Buffered
  /\ MayWrite(c)
  /\ ~v => ResvCfg = NoAddr /\ ~rcb.enabled
  /\ rcb' = IF v THEN take(rcb, c) ELSE release(rcb, cfg.resvTms)
  /\ UNCHANGED <<conns, ended, cfg, val, updates, shut>>

WriteRptEna(c, v, refused) ==
  /\ MayWrite(c)
  /\ v => ~rcb.enabled /\ cfg.datSet # NoDataSet
  /\ rcb' = IF v THEN enable(Implicit(c), c, conns, refused)
            ELSE disable(Implicit(c), cfg.resvTms, conns, refused)
  /\ UNCHANGED <<conns, ended, cfg, val, updates, shut>>

WriteGI(c, refused) ==
  /\ MayWrite(c)
  /\ rcb.enabled
  /\ rcb.entries < MaxReports
  /\ rcb' = IF "gi" \in cfg.trgOps
            THEN report_all(Implicit(c), "gi", conns, refused) ELSE Implicit(c)
  /\ UNCHANGED <<conns, ended, cfg, val, updates, shut>>

WritePurgeBuf(c) ==
  /\ Buffered
  /\ MayWrite(c) /\ ~rcb.enabled
  /\ rcb' = purge(Implicit(c))
  /\ UNCHANGED <<conns, ended, cfg, val, updates, shut>>

WriteEntryID(c, id) ==
  /\ Buffered
  /\ MayWrite(c) /\ ~rcb.enabled
  /\ id = ZeroEntryId \/ \E i \in DOMAIN rcb.buffer : rcb.buffer[i].id = id
  /\ rcb' = [Implicit(c) EXCEPT !.resync_id = id]
  /\ UNCHANGED <<conns, ended, cfg, val, updates, shut>>

WriteResvTms(c, v) ==
  /\ Buffered
  /\ MayWrite(c) /\ ~rcb.enabled
  /\ ResvCfg = NoAddr
  /\ cfg' = [cfg EXCEPT !.resvTms = v]
  /\ rcb' = IF v = 0 THEN [Implicit(c) EXCEPT !.resv_timer = stop_timer(@)] ELSE Implicit(c)
  /\ UNCHANGED <<conns, ended, val, updates, shut>>

WriteDatSet(c, d) ==
  /\ MayWrite(c) /\ ~rcb.enabled
  /\ cfg.confRev < MaxConfRev
  /\ cfg' = [cfg EXCEPT !.datSet = d, !.confRev = @ + 1]
  /\ rcb' = purge(Implicit(c))
  /\ UNCHANGED <<conns, ended, val, updates, shut>>

\* BufTm, IntgPd and TrgOps take effect when the block next uses them.
WriteSetting(c, s) ==
  /\ MayWrite(c) /\ ~rcb.enabled
  /\ cfg' = s
  /\ rcb' = Implicit(c)
  /\ UNCHANGED <<conns, ended, val, updates, shut>>

WriteBufTm(c, v) == WriteSetting(c, [cfg EXCEPT !.bufTm = v])
WriteIntgPd(c, v) == WriteSetting(c, [cfg EXCEPT !.intgPd = v])
WriteTrgOps(c, v) == WriteSetting(c, [cfg EXCEPT !.trgOps = v])

\* RptID and OptFlds, and PurgeBuf or GI written FALSE, only reserve the block.
WriteOther(c) == WriteSetting(c, cfg)

\* Server::update changes a set of items in one transaction; on_update then
\* reports the members of the block's data set among them.
Update(items, refused) ==
  LET n == updates + 1
      vs == IF cfg.datSet = NoDataSet \/ "dchg" \notin cfg.trgOps THEN {}
            ELSE {<<i, n, cfg.confRev>> :
                    i \in {j \in DOMAIN Members[cfg.datSet] : Members[cfg.datSet][j] \in items}}
  IN  /\ updates < MaxUpdates
      /\ rcb.entries < MaxReports
      /\ updates' = n
      /\ val' = [i \in Item |-> IF i \in items THEN n ELSE val[i]]
      /\ rcb' = IF vs = {} \/ (~Buffered /\ ~rcb.enabled) THEN rcb
                ELSE event([rcb EXCEPT !.owed = @ \cup vs], cfg.bufTm, vs, conns, refused)
      /\ UNCHANGED <<conns, ended, cfg, shut>>

----------------------------------------------------------------------------
(* Timer tasks *)

Wake(timer) ==
  /\ "sleeping" \in rcb[timer]
  /\ rcb' = [rcb EXCEPT ![timer] = (@ \ {"sleeping"}) \cup {"woken"}]
  /\ UNCHANGED <<conns, ended, cfg, val, updates, shut>>

\* A task whose generation has passed finds so and ends.
RunStale(timer) ==
  /\ "stale" \in rcb[timer]
  /\ rcb' = [rcb EXCEPT ![timer] = @ \ {"stale"}]
  /\ UNCHANGED <<conns, ended, cfg, val, updates, shut>>

BufferTimeWindow(refused) ==
  /\ "woken" \in rcb.pending_timer
  /\ rcb' = flush_pending([rcb EXCEPT !.pending_timer = @ \ {"woken"}], conns, refused)
  /\ UNCHANGED <<conns, ended, cfg, val, updates, shut>>

\* One turn of integrity_loop; the task sleeps again until the next period.
IntegrityTick(refused) ==
  /\ "woken" \in rcb.integrity
  /\ rcb.entries < MaxReports
  /\ rcb' = IF rcb.enabled
            THEN report_all([rcb EXCEPT !.integrity = (@ \ {"woken"}) \cup {"sleeping"}],
                            "integrity", conns, refused)
            ELSE [rcb EXCEPT !.integrity = @ \ {"woken"}]
  /\ UNCHANGED <<conns, ended, cfg, val, updates, shut>>

ReservationTimeout ==
  /\ "woken" \in rcb.resv_timer
  /\ rcb' = [rcb EXCEPT !.resv_timer = @ \ {"woken"},
                        !.resv_ip = IF rcb.owner = NoConn THEN NoAddr ELSE @]
  /\ UNCHANGED <<conns, ended, cfg, val, updates, shut>>

\* ReportManager::shutdown, from Server::close.
Shutdown ==
  /\ ~shut
  /\ shut' = TRUE
  /\ rcb' = [rcb EXCEPT !.enabled = FALSE, !.conn = NoConn,
                        !.integrity = stop_timer(@), !.resv_timer = stop_timer(@),
                        !.pending_timer = stop_timer(@)]
  /\ UNCHANGED <<conns, ended, cfg, val, updates>>

Timers == {"resv_timer", "integrity", "pending_timer"}

ClientStep ==
  \E c \in Conn :
    \/ Connect(c)
    \/ Disconnect(c)
    \/ \E v \in BOOLEAN : WriteResv(c, v)
    \/ \E v \in BOOLEAN, refused \in SUBSET Sendable : WriteRptEna(c, v, refused)
    \/ \E refused \in SUBSET Sendable : WriteGI(c, refused)
    \/ WritePurgeBuf(c)
    \/ \E id \in 0..rcb.entries : WriteEntryID(c, id)
    \/ \E v \in ResvTmss : WriteResvTms(c, v)
    \/ \E d \in Option(DataSet, NoDataSet) : WriteDatSet(c, d)
    \/ \E v \in BufTms : WriteBufTm(c, v)
    \/ \E v \in IntgPds : WriteIntgPd(c, v)
    \/ \E v \in TrgOpss : WriteTrgOps(c, v)
    \/ WriteOther(c)

TimerStep ==
  \/ \E timer \in Timers : Wake(timer) \/ RunStale(timer)
  \/ \E refused \in SUBSET Sendable : BufferTimeWindow(refused) \/ IntegrityTick(refused)
  \/ ReservationTimeout

Next ==
  \/ ClientStep
  \/ \E items \in SUBSET Item \ {{}}, refused \in SUBSET Sendable : Update(items, refused)
  \/ TimerStep
  \/ Shutdown

Spec == Init /\ [][Next]_vars

\* Tokio wakes a sleeping task when its time comes and the lock is fair enough
\* for a woken task to get it.  Clients and the process may do nothing.
Fairness ==
  /\ \A timer \in Timers : WF_vars(Wake(timer))
  /\ WF_vars(\E refused \in SUBSET Sendable : BufferTimeWindow(refused))
  /\ WF_vars(ReservationTimeout)

FairSpec == Spec /\ Fairness

----------------------------------------------------------------------------
(* Properties *)

\* Every variable has its type.
TypeOK ==
  /\ conns \subseteq Conn /\ ended \subseteq Conn
  /\ cfg \in Setting
  /\ rcb \in RcbRuntime
  /\ val \in [Item -> Nat]
  /\ updates \in Nat
  /\ shut \in BOOLEAN

\* A block is enabled exactly for the association that holds it, and whoever
\* holds it is still being served: an ended association keeps neither a
\* subscription nor a reservation (serve_transport, disable_conn).
HolderIsServed ==
  /\ rcb.enabled => rcb.conn = rcb.owner
  /\ rcb.enabled <=> rcb.conn # NoConn
  /\ rcb.owner # NoConn => rcb.owner \in conns

\* Until the engine is shut down, collected events always have a timer that
\* will report them, and no timer runs for a window that was closed.
WindowHasTimer == ~shut => (rcb.pending # {} <=> rcb.pending_timer \cap Live # {})

\* Within a subscription SqNum counts entries: two reports the client gets are
\* as many numbers apart as they are entries apart, so a missing number is a
\* missing entry (set_sq_num, transmit).
SqNumCountsEntries ==
  Buffered => \A a, b \in rcb.stream :
                /\ a.id - b.id = a.pos - b.pos
                /\ a.sqNum = a.pos % SqNumMod

\* Within a subscription a buffered report carries BufOvfl exactly when the
\* report before it did not reach the client.
GapIsAnnounced ==
  Buffered => \A a \in rcb.stream :
                a.pos > 0 => (a.bufOvfl <=> \A b \in rcb.stream : b.pos # a.pos - 1)

\* buf_overflow stands for entries the next report has to announce: it is set
\* exactly while entries were refused or discarded unsent since the last
\* report that got through.
OverflowMeansLoss == Buffered => (rcb.buf_overflow <=> rcb.unseen # {})

\* What a client can conclude from the reports of a subscription about those it
\* did not get.
LossAnnounced == SqNumCountsEntries /\ GapIsAnnounced /\ OverflowMeansLoss

\* What is still to be sent was never sent before: a re-enabled block resumes
\* where delivery left off, however the buffer was trimmed in between.
NoReplay == \A i \in DOMAIN rcb.buffer : i > rcb.next => rcb.buffer[i].id \notin rcb.seen

\* An enabled buffered block has nothing left to send, and the buffer holds
\* at most max_buffer reports with consecutive EntryIDs, the newest last.
BufferIsSuffix ==
  Buffered =>
    /\ rcb.next <= Len(rcb.buffer) /\ Len(rcb.buffer) <= MaxBuffer
    /\ rcb.enabled => rcb.next = Len(rcb.buffer)
    /\ \A i \in DOMAIN rcb.buffer : rcb.buffer[i].id = rcb.entries - Len(rcb.buffer) + i

\* What the buffer of a block holds, and what of it is still to be sent.
BufferHolds == NoReplay /\ BufferIsSuffix

\* Every captured change is either in the open window or was emitted with the
\* value it had: a member that changes again never overwrites its earlier
\* value (event, ReportEntry::overlaps and merge).
NoEventOverwritten == rcb.owed = rcb.pending /\
  \A v, w \in rcb.pending : v[1] = w[1] => v = w

\* What an open window holds, and that it will be closed.
WindowHolds == NoEventOverwritten /\ WindowHasTimer

\* Until the engine is shut down, the reports of a subscription show each
\* member's values in the order they were taken.
ValuesInOrder ==
  ~shut => \A a, b \in rcb.stream : a.pos < b.pos =>
             \A v \in a.vals, w \in b.vals : v[1] = w[1] /\ v[3] = w[3] => v[2] <= w[2]

\* Every buffered report stems from the present data set: a changed DatSet
\* voids the reports of the old one.
BufferIsCurrent ==
  \A i \in DOMAIN rcb.buffer : \A v \in rcb.buffer[i].vals : v[3] = cfg.confRev

\* An entry that counts as sent was sent, or the next report says it was not.
NothingSkipped == rcb.skipped # {} => rcb.buf_overflow

\* A captured change is eventually reported or buffered.
EventsAreEmitted ==
  \A v \in (UNION {DOMAIN Members[d] : d \in DataSet}) \X (1..MaxUpdates) \X (0..MaxConfRev) :
    v \in rcb.owed ~> (v \notin rcb.owed \/ shut)

\* A reservation for a client that stays away ends (a client that is back may
\* renew it for ever).
ReservationEnds ==
  ResvCfg = NoAddr =>
    (rcb.resv_ip # NoAddr
       ~> (shut \/ rcb.resv_ip = NoAddr \/ \E c \in conns : Ip[c] = rcb.resv_ip))
=============================================================================
