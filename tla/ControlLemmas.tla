--------------------------- MODULE ControlLemmas ---------------------------
(***************************************************************************)
(* The inductive invariant of control objects, and the steps that keep it  *)
(* up to the moment an operate reaches its handler: associations that come *)
(* and go, selections, cancels and the check of an operate.                *)
(***************************************************************************)
EXTENDS Control, TLAPS

\* An association whose operate has passed its check, and one whose operate has
\* reached its handler.
Checked(c) ==
  req[c].pc \in {"handler", "running", "apply", "clear", "conclude"} /\ req[c].phase = "Oper"
Begun(c) == req[c].pc \in {"running", "apply", "clear", "conclude"} /\ req[c].phase = "Oper"

\* An operate that took effect.
Ran(t) == ops[t].result \in {"executed", "accepted"}

\* A request under way: its association is served, it began in the past, and its
\* operate is the one recorded for it.
ReqInv ==
  \A c \in Conn :
    /\ req[c].pc # "idle" => c \in conns /\ req[c].now <= clock
    /\ req[c].pc \in {"handler", "running"} => req[c].phase \in {"Oper", "SBOw"}
    /\ req[c].pc \in {"apply", "clear", "conclude"} => req[c].phase = "Oper"
    /\ Begun(c) => LET t == req[c].op IN
         /\ t \in 1..nops /\ ops[t].conn = c /\ ops[t].obj = req[c].obj /\ ops[t].sel = req[c].sel
         /\ ops[t].result = IF req[c].pc \in {"running", "apply"} THEN "pending" ELSE "executed"

\* An operate sends only once it is done, and then once; one of normal security
\* never, and a refused one begins no more.
OpGood(p) ==
  /\ p.sending + p.sent <= 1 /\ (~p.done => p.sending + p.sent = 0)
  /\ ~is_enhanced(p.obj) => ~p.deferred /\ ~p.timer /\ p.sending + p.sent = 0
  /\ p.result = "refused" => p.done

OpInv == \A t \in 1..nops : OpGood(ops[t])

\* The operate of the same request.
SameOperate(p, q) == p.conn = q.conn /\ p.obj = q.obj /\ p.sel = q.sel

\* Reservations are numbered as they are made.
Numbered ==
  /\ \A o \in Obj : Selected(o) => active[o].id \in 1..selects
  /\ \A o, p \in Obj : Selected(o) /\ Selected(p) /\ active[o].id = active[p].id => o = p

\* Whoever was checked against a reservation made it.
CheckedOwns ==
  \A c \in Conn : Checked(c) =>
    /\ req[c].sel <= selects /\ (has_select(req[c].obj) => req[c].sel > 0)
    /\ \A o \in Obj : Selected(o) /\ active[o].id = req[c].sel => active[o].conn = c /\ o = req[c].obj
    /\ \A d \in Conn : Checked(d) /\ req[d].sel = req[c].sel => d = c \/ req[c].sel = 0

\* An operate that took effect and the reservation it was checked against do not
\* outlive each other but for the step in between.
OperatedEnds ==
  \A t \in 1..nops :
    /\ ops[t].sel <= selects /\ (has_select(ops[t].obj) => ops[t].sel > 0)
    /\ \A o \in Obj : Selected(o) /\ active[o].id = ops[t].sel =>
         /\ active[o].conn = ops[t].conn /\ o = ops[t].obj
         /\ Ran(t) => req[ops[t].conn].pc = "clear" /\ req[ops[t].conn].op = t
    /\ Ran(t) => \A c \in Conn : Checked(c) /\ req[c].sel = ops[t].sel =>
         req[c].sel = 0 \/ (req[c].pc \in {"clear", "conclude"} /\ req[c].op = t)
    /\ Ran(t) => \A u \in 1..nops : Ran(u) /\ ops[u].sel = ops[t].sel => u = t \/ ops[t].sel = 0

SelInv == NoOrphanSelection /\ Numbered /\ CheckedOwns /\ OperatedEnds

IndInv == TypeOK /\ ReqInv /\ OpInv /\ SelInv

----------------------------------------------------------------------------
(* The pieces an action changes *)

\* A request under way has all its fields.
LEMMA ReqType ==
  ASSUME TypeOK, NEW c \in Conn, req[c].pc # "idle"
  PROVE  req[c] \in Req
BY DEF TypeOK, Idle

\* Moving a request on changes its program counter only.
LEMMA GotoType ==
  ASSUME NEW r \in Req, NEW pc \in {"clear_cancel", "reserve", "apply", "clear", "conclude"}
  PROVE  LET q == [r EXCEPT !.pc = pc]
         IN  /\ q \in Req /\ q.pc = pc /\ q.phase = r.phase /\ q.obj = r.obj
             /\ q.ctl_num = r.ctl_num /\ q.now = r.now /\ q.sel = r.sel /\ q.op = r.op
BY DEF Req

\* finish marks the operate done, and sends for it unless it was.
LEMMA FinishType ==
  ASSUME NEW p \in Op
  PROVE  LET q == finish(p)
         IN  /\ q \in Op /\ q.conn = p.conn /\ q.obj = p.obj /\ q.sel = p.sel
             /\ q.result = p.result /\ q.deferred = p.deferred /\ q.timer = p.timer
             /\ q.done /\ q.sent = p.sent
             /\ q.sending = IF p.done THEN p.sending ELSE p.sending + 1
<1>1. CASE p.done
  BY <1>1 DEF finish, Op
<1>2. CASE ~p.done
  <2> DEFINE g == p.sending + 1
  <2>1. g \in Nat
    BY DEF Op
  <2> HIDE DEF g
  <2> DEFINE q == [p EXCEPT !.done = TRUE, !.sending = g]
  <2>2. /\ q \in Op /\ q.conn = p.conn /\ q.obj = p.obj /\ q.sel = p.sel
        /\ q.result = p.result /\ q.deferred = p.deferred /\ q.timer = p.timer
        /\ q.done /\ q.sent = p.sent /\ q.sending = g
    BY <2>1, Zenon DEF Op
  <2>3. finish(p) = q
    BY <1>2, Zenon DEF finish, g
  <2> QED  BY <1>2, <2>2, <2>3, Zenon DEF g
<1> QED  BY <1>1, <1>2

----------------------------------------------------------------------------
(* The inductive step *)

\* The invariant holds when the server starts.
LEMMA ControlStarts == Init => IndInv
<1> SUFFICES ASSUME Init PROVE IndInv
  OBVIOUS
<1>1. TypeOK
  BY DeclaredAssumption DEF Init, TypeOK, NoSelection, Idle
<1>2. ReqInv
  BY DEF Init, ReqInv, Idle, Begun
<1>3. OpInv
  BY DEF Init, OpInv
<1>4. SelInv
  BY DEF Init, SelInv, Numbered, CheckedOwns, OperatedEnds, NoOrphanSelection, Selected, Checked, Idle
<1> QED  BY <1>1, <1>2, <1>3, <1>4 DEF IndInv

\* Time and associations: nothing of the requests or the operates moves, and a
\* reservation goes only with its association.
LEMMA AssociationsKeep ==
  ASSUME IndInv, NEW c \in Conn,
         Tick \/ Connect(c) \/ Disconnect(c) \/ release_conn(c)
  PROVE  IndInv'
<1>1. /\ ctlModel' = ctlModel /\ selects' = selects /\ req' = req /\ ops' = ops /\ nops' = nops
      /\ clock \in Nat /\ clock' \in Nat /\ clock <= clock'
  BY DEF IndInv, TypeOK, Tick, Connect, Disconnect, release_conn
<1>2. /\ active' \in [Obj -> Selection \cup {NoSelection}]
      /\ \A o \in Obj : active'[o] \in {active[o], NoSelection}
  BY DEF IndInv, TypeOK, Tick, Connect, Disconnect, release_conn
<1>3. /\ conns' \subseteq Conn /\ closing' \subseteq Conn /\ ended' \subseteq Conn
      /\ \A d \in conns : req[d].pc # "idle" => d \in conns'
  BY DEF IndInv, TypeOK, Tick, Connect, Disconnect, release_conn, Idle
<1>4. TypeOK'
  BY <1>1, <1>2, <1>3 DEF IndInv, TypeOK
<1>5. ReqInv'
  <2>1. \A d \in Conn : req[d].pc # "idle" => req[d].now \in Nat
    BY ReqType DEF IndInv, Req
  <2> QED  BY <1>1, <1>3, <2>1 DEF IndInv, ReqInv, Begun
<1>6. OpInv'
  BY <1>1 DEF IndInv, OpInv, OpGood, is_enhanced
<1>7. SelInv'
  <2>1. NoOrphanSelection'
    BY DEF IndInv, SelInv, NoOrphanSelection, Selected, Tick, Connect, Disconnect, release_conn
  <2>2. \A o \in Obj : Selected(o)' => Selected(o) /\ active'[o] = active[o]
    BY <1>2 DEF Selected
  <2> QED  BY <1>1, <2>1, <2>2 DEF IndInv, SelInv, Numbered, CheckedOwns, OperatedEnds, Checked, Ran, has_select
<1> QED  BY <1>4, <1>5, <1>6, <1>7 DEF IndInv

\* What most steps do to reservations: they make none but one with the next
\* number, the requests checked after them were checked before or need no
\* reservation, and the operates that took effect are the same.
LEMMA SelectionsKeep ==
  ASSUME IndInv, NoOrphanSelection', ctlModel' = ctlModel, nops' = nops,
         selects' \in {selects, selects + 1}, NEW o \in Obj,
         \A p \in Obj : Selected(p)' =>
           \/ Selected(p) /\ active'[p] = active[p]
           \/ p = o /\ active'[p].id = selects + 1 /\ selects' = selects + 1,
         \A d \in Conn : Checked(d)' =>
           \/ /\ Checked(d) /\ req'[d].sel = req[d].sel /\ req'[d].obj = req[d].obj
              /\ req[d].pc \in {"clear", "conclude"} =>
                   req'[d].pc = req[d].pc /\ req'[d].op = req[d].op
           \/ req'[d].sel = 0 /\ ~has_select(req'[d].obj),
         \A d \in Conn : req[d].pc = "clear" => req'[d] = req[d],
         \A t \in 1..nops : /\ ops'[t].conn = ops[t].conn /\ ops'[t].obj = ops[t].obj
                            /\ ops'[t].sel = ops[t].sel /\ (Ran(t)' => Ran(t))
  PROVE  SelInv'
<1>0. /\ selects \in Nat
      /\ \A t \in 1..nops : ops[t].sel \in Nat /\ ops[t].conn \in Conn
      /\ \A d \in Conn : Checked(d) => req[d].sel \in Nat /\ req[d].obj \in Obj
  <2>1. \A t \in 1..nops : ops[t].sel \in Nat /\ ops[t].conn \in Conn
    BY DEF IndInv, TypeOK, Op
  <2>2. \A d \in Conn : Checked(d) => req[d] \in Req
    BY ReqType DEF IndInv, Checked
  <2>3. \A d \in Conn : Checked(d) => req[d].sel \in Nat /\ req[d].obj \in Obj
    BY <2>2 DEF Req
  <2> QED  BY <2>1, <2>3 DEF IndInv, TypeOK
<1>1. \A p \in Obj : Selected(p)' => active'[p].id \in 1..selects'
  BY <1>0 DEF IndInv, SelInv, Numbered
<1>2. \A p, q \in Obj : Selected(p)' /\ Selected(q)' /\ active'[p].id = active'[q].id => p = q
  BY <1>0 DEF IndInv, SelInv, Numbered
<1>3. ASSUME NEW c \in Conn, Checked(c)'
      PROVE  /\ req'[c].sel <= selects' /\ (has_select(req'[c].obj) => req'[c].sel > 0)
             /\ \A p \in Obj : Selected(p)' /\ active'[p].id = req'[c].sel =>
                  active'[p].conn = c /\ p = req'[c].obj
             /\ \A d \in Conn : Checked(d)' /\ req'[d].sel = req'[c].sel =>
                  d = c \/ req'[c].sel = 0
  BY <1>0, <1>1, <1>3 DEF IndInv, SelInv, CheckedOwns
<1>4. ASSUME NEW t \in 1..nops
      PROVE  /\ ops'[t].sel <= selects' /\ (has_select(ops[t].obj) => ops'[t].sel > 0)
             /\ \A p \in Obj : Selected(p)' /\ active'[p].id = ops'[t].sel =>
                  /\ active'[p].conn = ops'[t].conn /\ p = ops'[t].obj
                  /\ Ran(t)' => req'[ops'[t].conn].pc = "clear" /\ req'[ops'[t].conn].op = t
  BY <1>0 DEF IndInv, SelInv, OperatedEnds
<1>5. ASSUME NEW t \in 1..nops, Ran(t)'
      PROVE  \A c \in Conn : Checked(c)' /\ req'[c].sel = ops'[t].sel =>
               req'[c].sel = 0 \/ (req'[c].pc \in {"clear", "conclude"} /\ req'[c].op = t)
  BY <1>5 DEF IndInv, SelInv, OperatedEnds
<1>6. ASSUME NEW t \in 1..nops, Ran(t)'
      PROVE  \A u \in 1..nops : Ran(u)' /\ ops'[u].sel = ops'[t].sel => u = t \/ ops'[t].sel = 0
  BY <1>6 DEF IndInv, SelInv, OperatedEnds
<1> QED  BY <1>1, <1>2, <1>3, <1>4, <1>5, <1>6 DEF SelInv, Numbered, CheckedOwns, OperatedEnds, has_select

\* reserve leaves every reservation but the object's, which becomes one of the
\* association with the next number unless another holds the object.
LEMMA ReserveMakes ==
  ASSUME IndInv, NEW c \in conns, NEW o \in Obj, NEW num \in CtlNum \cup {NoNum}, NEW now \in Nat,
         reserve(o, c, num, now), UNCHANGED <<conns, closing>>
  PROVE  /\ active' \in [Obj -> Selection \cup {NoSelection}]
         /\ selects' \in {selects, selects + 1} /\ selects' \in Nat
         /\ NoOrphanSelection'
         /\ \A p \in Obj : Selected(p)' =>
              \/ Selected(p) /\ active'[p] = active[p]
              \/ p = o /\ active'[p].id = selects + 1 /\ selects' = selects + 1
<1>0. c \in Conn /\ selects \in Nat /\ active \in [Obj -> Selection \cup {NoSelection}]
  BY DEF IndInv, TypeOK
<1>1. CASE HeldByOther(o, c, now)
  <2>1. active' = active /\ selects' = selects
    BY <1>1 DEF reserve
  <2> QED  BY <1>0, <2>1 DEF IndInv, SelInv, NoOrphanSelection, Selected
<1>2. CASE ~HeldByOther(o, c, now)
  <2> DEFINE k == selects + 1
             e == now + SboTimeout
             s == [conn |-> c, expiry |-> e, ctl_num |-> num, id |-> k]
  <2>1. k \in Nat /\ e \in Nat
    BY <1>0, TimeAssumption
  <2>2. active' = [active EXCEPT ![o] = s] /\ selects' = k
    BY <1>2 DEF reserve
  <2> HIDE DEF k, e
  <2>3. s \in Selection /\ s.conn = c /\ s.id = k
    BY <1>0, <2>1 DEF Selection
  <2> HIDE DEF s
  <2>4. active'[o] = s /\ \A p \in Obj : p # o => active'[p] = active[p]
    BY <1>0, <2>2
  <2>5. NoOrphanSelection'
    BY <2>3, <2>4 DEF IndInv, SelInv, NoOrphanSelection, Selected
  <2>6. active' \in [Obj -> Selection \cup {NoSelection}]
    BY <1>0, <2>2, <2>3
  <2> QED  BY <2>1, <2>2, <2>3, <2>4, <2>5, <2>6 DEF k, Selected
<1> QED  BY <1>1, <1>2

\* The SBO read reserves.
LEMMA ReadSBOKeeps ==
  ASSUME IndInv, NEW c \in Conn, NEW o \in Obj, ReadSBO(c, o)
  PROVE  IndInv'
<1>1. /\ UNCHANGED <<ctlModel, clock, conns, closing, ended, req, ops, nops>>
      /\ c \in conns /\ clock \in Nat /\ reserve(o, c, NoNum, clock)
  BY DEF ReadSBO, Free, IndInv, TypeOK
<1>2. /\ active' \in [Obj -> Selection \cup {NoSelection}]
      /\ selects' \in {selects, selects + 1} /\ selects' \in Nat
      /\ NoOrphanSelection'
      /\ \A p \in Obj : Selected(p)' =>
           \/ Selected(p) /\ active'[p] = active[p]
           \/ p = o /\ active'[p].id = selects + 1 /\ selects' = selects + 1
  BY <1>1, ReserveMakes
<1>3. TypeOK'
  BY <1>1, <1>2 DEF IndInv, TypeOK
<1>4. ReqInv' /\ OpInv'
  BY <1>1 DEF IndInv, ReqInv, OpInv, OpGood, Begun, is_enhanced
<1>5. SelInv'
  BY <1>1, <1>2, SelectionsKeep DEF Checked, Ran
<1> QED  BY <1>3, <1>4, <1>5 DEF IndInv

\* A request begins: it is not checked yet, or needs no reservation.
LEMMA WriteKeeps ==
  ASSUME IndInv, NEW c \in Conn, NEW phase \in Phases, NEW o \in Obj, NEW num \in CtlNum,
         control_write(c, phase, o, num)
  PROVE  IndInv'
<1> DEFINE pc == IF phase = "Cancel" \/ (phase = "Oper" /\ has_select(o)) THEN "check" ELSE "handler"
           q  == [pc |-> pc, phase |-> phase, obj |-> o, ctl_num |-> num, now |-> clock,
                  sel |-> 0, op |-> 0]
<1>1. /\ UNCHANGED <<ctlModel, clock, conns, closing, ended, active, selects, ops, nops>>
      /\ c \in conns /\ clock \in Nat /\ req[c] = Idle /\ req' = [req EXCEPT ![c] = q]
  BY DEF control_write, Free, IndInv, TypeOK
<1>2. /\ pc \in {"check", "handler"}
      /\ pc = "handler" => phase # "Cancel" /\ (phase # "Oper" \/ ~has_select(o))
  BY DEF Phases
<1> HIDE DEF pc
<1>3. /\ q \in Req /\ q.pc = pc /\ q.now = clock /\ q.sel = 0 /\ q.obj = o /\ q.phase = phase
  BY <1>1, <1>2 DEF Req
<1> HIDE DEF q
<1>4. /\ req'[c] = q /\ \A d \in Conn : d # c => req'[d] = req[d]
      /\ req' \in [Conn -> Req \cup {Idle}]
  BY <1>1, <1>3 DEF IndInv, TypeOK
<1>5. TypeOK'
  BY <1>1, <1>4 DEF IndInv, TypeOK
<1>6. ReqInv'
  BY <1>1, <1>2, <1>3, <1>4 DEF IndInv, ReqInv, Begun, Phases
<1>7. OpInv'
  BY <1>1 DEF IndInv, OpInv, OpGood, is_enhanced
<1>8. SelInv'
  <2>1. NoOrphanSelection'
    BY <1>1 DEF IndInv, SelInv, NoOrphanSelection, Selected
  <2>2. \A d \in Conn : Checked(d)' =>
          \/ /\ Checked(d) /\ req'[d].sel = req[d].sel /\ req'[d].obj = req[d].obj
             /\ req[d].pc \in {"clear", "conclude"} =>
                  req'[d].pc = req[d].pc /\ req'[d].op = req[d].op
          \/ req'[d].sel = 0 /\ ~has_select(req'[d].obj)
    BY <1>2, <1>3, <1>4 DEF Checked
  <2>3. \A d \in Conn : req[d].pc = "clear" => req'[d] = req[d]
    BY <1>1, <1>4 DEF Idle
  <2> QED  BY <1>1, <2>1, <2>2, <2>3, SelectionsKeep DEF Selected, Ran
<1> QED  BY <1>5, <1>6, <1>7, <1>8 DEF IndInv

\* A request that ends, or a cancel that passed its check, while reservations
\* only go or one is made and the operates stay as they are.
LEMMA EndKeeps ==
  ASSUME IndInv, NEW c \in Conn, req[c].pc \in {"check", "clear_cancel", "reserve"},
         req' \in {Refuse(c), Goto(c, "clear_cancel")},
         UNCHANGED <<ctlModel, clock, conns, closing, ended, ops, nops>>,
         active' \in [Obj -> Selection \cup {NoSelection}], NoOrphanSelection',
         selects' \in {selects, selects + 1}, selects' \in Nat, NEW o \in Obj,
         \A p \in Obj : Selected(p)' =>
           \/ Selected(p) /\ active'[p] = active[p]
           \/ p = o /\ active'[p].id = selects + 1 /\ selects' = selects + 1
  PROVE  IndInv'
<1>0. req \in [Conn -> Req \cup {Idle}] /\ req[c] \in Req /\ c \in conns
  BY ReqType DEF IndInv, TypeOK, ReqInv
<1> DEFINE g == [req[c] EXCEPT !.pc = "clear_cancel"]
<1>1. g \in Req /\ g.pc = "clear_cancel" /\ g.now = req[c].now
  BY <1>0, GotoType, Zenon
<1>2. \E q \in {Idle, g} : req' = [req EXCEPT ![c] = q]
  BY <1>0 DEF Refuse, Goto
<1> HIDE DEF g
<1>3. PICK q \in {Idle, g} : req' = [req EXCEPT ![c] = q]
  BY <1>2, Zenon
<1>4. /\ q.pc \in {"idle", "clear_cancel"} /\ (q.pc # "idle" => q.now = req[c].now)
      /\ q \in Req \cup {Idle}
  BY <1>1, <1>3 DEF Idle
<1>5. /\ req'[c] = q /\ \A d \in Conn : d # c => req'[d] = req[d]
      /\ req' \in [Conn -> Req \cup {Idle}]
  BY <1>0, <1>3, <1>4
<1>6. TypeOK'
  BY <1>5 DEF IndInv, TypeOK
<1>7. ReqInv'
  BY <1>0, <1>4, <1>5 DEF IndInv, ReqInv, Begun
<1>8. OpInv'
  BY DEF IndInv, OpInv, OpGood, is_enhanced
<1>9. SelInv'
  <2>1. \A d \in Conn : Checked(d)' => Checked(d) /\ req'[d] = req[d]
    BY <1>4, <1>5 DEF Checked
  <2>2. \A d \in Conn : req[d].pc = "clear" => req'[d] = req[d]
    BY <1>5
  <2> QED  BY <2>1, <2>2, SelectionsKeep DEF Ran
<1> QED  BY <1>6, <1>7, <1>8, <1>9 DEF IndInv

\* A cancel looks at the reservation, and clears it.
LEMMA CancelKeeps ==
  ASSUME IndInv, NEW c \in Conn, CheckCancel(c) \/ ClearCancel(c)
  PROVE  IndInv'
<1>0. req[c] \in Req /\ active \in [Obj -> Selection \cup {NoSelection}] /\ selects \in Nat
  <2>1. req[c].pc # "idle"
    BY DEF CheckCancel, ClearCancel, At
  <2> QED  BY <2>1, ReqType DEF IndInv, TypeOK
<1>1. req[c].phase \in Phases /\ req[c].obj \in Obj
  BY <1>0 DEF Req
<1>2. /\ req[c].pc \in {"check", "clear_cancel"}
      /\ req' \in {Refuse(c), Goto(c, "clear_cancel")}
      /\ UNCHANGED <<ctlModel, clock, conns, closing, ended, selects, ops, nops>>
  BY DEF CheckCancel, ClearCancel, At, Refuse
<1>3. \/ active' = active
      \/ active' = [active EXCEPT ![req[c].obj] = NoSelection]
  BY DEF CheckCancel, ClearCancel, clear
<1>4. /\ active' \in [Obj -> Selection \cup {NoSelection}]
      /\ \A p \in Obj : active'[p] \in {active[p], NoSelection}
  BY <1>0, <1>1, <1>3
<1>5. NoOrphanSelection' /\ \A p \in Obj : Selected(p)' => Selected(p) /\ active'[p] = active[p]
  BY <1>2, <1>4 DEF IndInv, SelInv, NoOrphanSelection, Selected
<1> QED  BY <1>0, <1>1, <1>2, <1>4, <1>5, EndKeeps

\* A select with value reserves.
LEMMA ReserveKeeps ==
  ASSUME IndInv, NEW c \in Conn, Reserve(c)
  PROVE  IndInv'
<1>0. req[c] \in Req /\ c \in conns
  <2>1. req[c].pc # "idle"
    BY DEF Reserve, At
  <2> QED  BY <2>1, ReqType DEF IndInv, ReqInv
<1>1. req[c].obj \in Obj /\ req[c].ctl_num \in CtlNum \cup {NoNum} /\ req[c].now \in Nat
  BY <1>0 DEF Req
<1>2. /\ req[c].pc = "reserve" /\ req' = Refuse(c)
      /\ UNCHANGED <<ctlModel, clock, conns, closing, ended, ops, nops>>
      /\ reserve(req[c].obj, c, req[c].ctl_num, req[c].now)
  BY DEF Reserve, At, Refuse
<1>3. /\ active' \in [Obj -> Selection \cup {NoSelection}]
      /\ selects' \in {selects, selects + 1} /\ selects' \in Nat
      /\ NoOrphanSelection'
      /\ \A p \in Obj : Selected(p)' =>
           \/ Selected(p) /\ active'[p] = active[p]
           \/ p = req[c].obj /\ active'[p].id = selects + 1 /\ selects' = selects + 1
  BY <1>0, <1>1, <1>2, ReserveMakes, Zenon
<1> QED  BY <1>1, <1>2, <1>3, EndKeeps

\* The check of an operate takes the number of a live reservation its own
\* association made, which no operate has used.
LEMMA CheckOperateKeeps ==
  ASSUME IndInv, NEW c \in Conn, CheckOperate(c)
  PROVE  IndInv'
<1>0. /\ req \in [Conn -> Req \cup {Idle}] /\ req[c] \in Req /\ c \in conns
      /\ active \in [Obj -> Selection \cup {NoSelection}] /\ selects \in Nat
      /\ req[c].pc = "check" /\ req[c].phase = "Oper"
      /\ UNCHANGED <<ctlModel, clock, conns, closing, ended, active, selects, ops, nops>>
  <2>1. req[c].pc = "check"
    BY DEF CheckOperate, At
  <2> QED  BY <2>1, ReqType DEF IndInv, TypeOK, ReqInv, CheckOperate
<1>1. req[c].obj \in Obj /\ req[c].phase \in Phases
  BY <1>0 DEF Req
<1>2. CASE ~check_operate(req[c].obj, c, req[c].ctl_num, req[c].now)
  <2>1. req' = Refuse(c)
    BY <1>2 DEF CheckOperate
  <2>2. NoOrphanSelection' /\ \A p \in Obj : Selected(p)' => Selected(p) /\ active'[p] = active[p]
    BY <1>0 DEF IndInv, SelInv, NoOrphanSelection, Selected
  <2> QED  BY <1>0, <1>1, <2>1, <2>2, EndKeeps
<1>3. CASE check_operate(req[c].obj, c, req[c].ctl_num, req[c].now)
  <2> DEFINE o == req[c].obj
             k == active[o].id
             q == [req[c] EXCEPT !.pc = "handler", !.sel = k]
  <2>1. Selected(o) /\ active[o].conn = c /\ k \in Nat /\ k \in 1..selects
    BY <1>1, <1>3 DEF check_operate, IndInv, SelInv, Numbered
  <2>2. req' = [req EXCEPT ![c] = q]
    BY <1>0, <1>3, Zenon DEF CheckOperate
  <2> HIDE DEF k
  <2>3. /\ q \in Req /\ q.pc = "handler" /\ q.phase = req[c].phase /\ q.obj = o /\ q.now = req[c].now
        /\ q.sel = k
    BY <1>0, <2>1, Zenon DEF Req
  <2> HIDE DEF q
  <2>4. /\ req'[c] = q /\ \A d \in Conn : d # c => req'[d] = req[d]
        /\ req' \in [Conn -> Req \cup {Idle}]
    BY <1>0, <2>2, <2>3
  <2>5. TypeOK'
    BY <1>0, <2>4 DEF IndInv, TypeOK
  <2>6. ReqInv'
    BY <1>0, <2>3, <2>4 DEF IndInv, ReqInv, Begun
  <2>7. OpInv'
    BY <1>0, Zenon DEF IndInv, OpInv, OpGood, is_enhanced
  <2>8. SelInv'
    <3>1. \A t \in 1..nops : Ran(t) => ops[t].sel # k
      BY <1>0, <1>1, <2>1 DEF IndInv, SelInv, OperatedEnds, k
    <3>2. \A d \in Conn : Checked(d) => req[d].sel # k
      BY <1>0, <1>1, <2>1 DEF IndInv, SelInv, CheckedOwns, k, Checked
    <3>3. \A d \in Conn : Checked(d)' => d = c \/ Checked(d)
      BY <2>4 DEF Checked
    <3>4. \A d \in Conn : req[d].pc = "clear" => d # c
      BY <1>0
    <3>5. \A t \in 1..nops : ops[t].conn \in Conn
      BY DEF IndInv, TypeOK, Op
    <3>6. ASSUME NEW d \in Conn, Checked(d)'
          PROVE  /\ req'[d].sel <= selects /\ (has_select(req'[d].obj) => req'[d].sel > 0)
                 /\ \A p \in Obj : Selected(p) /\ active[p].id = req'[d].sel =>
                      active[p].conn = d /\ p = req'[d].obj
                 /\ \A e \in Conn : Checked(e)' /\ req'[e].sel = req'[d].sel =>
                      e = d \/ req'[d].sel = 0
      <4>1. CASE d = c
        <5>1. k <= selects /\ k > 0
          BY <1>0, <2>1
        <5>2. \A p \in Obj : Selected(p) /\ active[p].id = k => p = o
          BY <1>1, <2>1 DEF IndInv, SelInv, Numbered, k
        <5> QED  BY <2>1, <2>3, <2>4, <3>2, <3>3, <4>1, <5>1, <5>2
      <4>2. CASE d # c
        BY <2>3, <2>4, <3>2, <3>3, <3>6, <4>2 DEF IndInv, SelInv, CheckedOwns
      <4> QED  BY <4>1, <4>2
    <3>7. ASSUME NEW t \in 1..nops
          PROVE  \A p \in Obj : Selected(p) /\ active[p].id = ops[t].sel /\ Ran(t) =>
                   req'[ops[t].conn].pc = "clear" /\ req'[ops[t].conn].op = t
      BY <2>4, <3>4, <3>5 DEF IndInv, SelInv, OperatedEnds
    <3>8. ASSUME NEW t \in 1..nops, Ran(t)
          PROVE  \A d \in Conn : Checked(d)' /\ req'[d].sel = ops[t].sel =>
                   req'[d].sel = 0 \/ (req'[d].pc \in {"clear", "conclude"} /\ req'[d].op = t)
      BY <2>3, <2>4, <3>1, <3>3, <3>8 DEF IndInv, SelInv, OperatedEnds
    <3>9. NoOrphanSelection' /\ Numbered'
      BY <1>0, Zenon DEF IndInv, SelInv, Numbered, NoOrphanSelection, Selected
    <3>10. CheckedOwns'
      BY <1>0, <3>6, Zenon DEF CheckedOwns, Selected, has_select
    <3>11. OperatedEnds'
      <4>1. \A t \in 1..nops :
              /\ ops[t].sel <= selects /\ (has_select(ops[t].obj) => ops[t].sel > 0)
              /\ \A p \in Obj : Selected(p) /\ active[p].id = ops[t].sel =>
                   active[p].conn = ops[t].conn /\ p = ops[t].obj
              /\ Ran(t) => \A u \in 1..nops : Ran(u) /\ ops[u].sel = ops[t].sel => u = t \/ ops[t].sel = 0
        BY DEF IndInv, SelInv, OperatedEnds
      <4>2. \A b \in Obj : (Selected(b)' <=> Selected(b)) /\ (has_select(b)' <=> has_select(b))
        BY <1>0, Zenon DEF Selected, has_select
      <4>3. /\ nops' = nops /\ active' = active /\ selects' = selects /\ ops' = ops
            /\ \A t \in 1..nops : ops[t].obj \in Obj /\ (Ran(t)' <=> Ran(t))
        BY <1>0 DEF IndInv, TypeOK, Op, Ran
      <4> QED  BY <3>7, <3>8, <4>1, <4>2, <4>3 DEF OperatedEnds
    <3> QED  BY <3>9, <3>10, <3>11 DEF SelInv
  <2> QED  BY <2>5, <2>6, <2>7, <2>8 DEF IndInv
<1> QED  BY <1>2, <1>3

\* The handler starts: an operate is recorded with the request's reservation.
LEMMA InvokeKeeps ==
  ASSUME IndInv, NEW c \in Conn, NEW defer \in BOOLEAN, Invoke(c, defer)
  PROVE  IndInv'
<1>0. /\ req \in [Conn -> Req \cup {Idle}] /\ req[c] \in Req /\ c \in conns
      /\ ops \in [1..nops -> Op] /\ nops \in Nat /\ req[c].pc = "handler"
      /\ UNCHANGED <<ctlModel, clock, conns, closing, ended, active, selects>>
  <2>1. req[c].pc = "handler"
    BY DEF Invoke, At
  <2> QED  BY <2>1, ReqType DEF IndInv, TypeOK, ReqInv, Invoke
<1> DEFINE n == IF req[c].phase = "Oper" THEN nops + 1 ELSE 0
           q == [req[c] EXCEPT !.pc = "running", !.op = n]
<1>1. n \in Nat
  BY <1>0
<1>1a. req' = [req EXCEPT ![c].pc = "running", ![c].op = n]
  BY Zenon DEF Invoke
<1> HIDE DEF n
<1>1b. req' = [req EXCEPT ![c] = q]
  BY <1>0, <1>1a, Zenon
<1>2. /\ q \in Req /\ q.pc = "running" /\ q.phase = req[c].phase /\ q.obj = req[c].obj
      /\ q.now = req[c].now /\ q.sel = req[c].sel /\ q.op = n
  BY <1>0, <1>1, Zenon DEF Req
<1> HIDE DEF q
<1>3. /\ req'[c] = q /\ \A d \in Conn : d # c => req'[d] = req[d]
      /\ req' \in [Conn -> Req \cup {Idle}]
  BY <1>0, <1>1b, <1>2
<1>4. \A d \in Conn : /\ Checked(d)' <=> Checked(d)
                      /\ Checked(d) => req'[d].sel = req[d].sel /\ req'[d].obj = req[d].obj
                      /\ req[d].pc = "clear" \/ req[d].pc = "conclude" => req'[d] = req[d]
  BY <1>0, <1>2, <1>3 DEF Checked
<1>5. CASE req[c].phase # "Oper"
  <2>1. ops' = ops /\ nops' = nops
    BY <1>5 DEF Invoke
  <2>2. TypeOK'
    BY <1>0, <1>3, <2>1 DEF IndInv, TypeOK
  <2>3. ReqInv' /\ OpInv'
    BY <1>0, <1>2, <1>3, <1>5, <2>1 DEF IndInv, ReqInv, OpInv, OpGood, Begun, is_enhanced
  <2>4. NoOrphanSelection' /\ req[c].obj \in Obj
    BY <1>0, Zenon DEF IndInv, SelInv, OperatedEnds, NoOrphanSelection, Selected, Req
  <2>5. SelInv'
    BY <1>0, <1>4, <2>1, <2>4, SelectionsKeep, Zenon DEF Selected, Ran
  <2> QED  BY <2>2, <2>3, <2>5 DEF IndInv
<1>6. CASE req[c].phase = "Oper"
  <2> DEFINE o == req[c].obj
             k == req[c].sel
             p == [conn |-> c, obj |-> o, sel |-> k, result |-> "pending", deferred |-> defer,
                   done |-> FALSE, timer |-> FALSE, sending |-> 0, sent |-> 0]
  <2>0. PICK m \in Nat : m = nops + 1
    BY <1>0
  <2>1. o \in Obj /\ k \in Nat /\ (defer => is_enhanced(o)) /\ Checked(c)
    BY <1>0, <1>6 DEF Req, Invoke, Checked
  <2>2. n = m /\ nops' = m /\ ops' = [t \in 1..m |-> IF t <= nops THEN ops[t] ELSE p]
    BY <1>6, <2>0 DEF Invoke, n
  <2> HIDE DEF o, k
  <2>3. /\ p \in Op /\ p.conn = c /\ p.obj = o /\ p.sel = k /\ p.result = "pending" /\ ~p.done
        /\ p.deferred = defer /\ ~p.timer /\ p.sending = 0 /\ p.sent = 0
    BY <2>1 DEF Op
  <2> HIDE DEF p
  <2>4. /\ ops' \in [1..m -> Op] /\ ops'[m] = p /\ \A t \in 1..nops : ops'[t] = ops[t]
        /\ m \in Nat /\ \A t \in 1..m : t = m \/ t \in 1..nops
    BY <1>0, <2>0, <2>2, <2>3
  <2>5. TypeOK'
    BY <1>0, <1>3, <2>2, <2>4 DEF IndInv, TypeOK
  <2>6. ReqInv'
    <3>1. ASSUME NEW d \in Conn, d # c
          PROVE  /\ req'[d].pc # "idle" => d \in conns /\ req'[d].now <= clock
                 /\ req'[d].pc \in {"handler", "running"} => req'[d].phase \in {"Oper", "SBOw"}
                 /\ req'[d].pc \in {"apply", "clear", "conclude"} => req'[d].phase = "Oper"
                 /\ Begun(d)' => LET t == req'[d].op IN
                      /\ t \in 1..nops /\ ops[t].conn = d /\ ops[t].obj = req'[d].obj
                      /\ ops[t].sel = req'[d].sel
                      /\ ops[t].result = IF req'[d].pc \in {"running", "apply"} THEN "pending" ELSE "executed"
      BY <1>3, <3>1 DEF IndInv, ReqInv, Begun
    <3>2. m \in 1..m /\ \A t \in 1..nops : t \in 1..m
      BY <1>0, <2>0
    <3>3. req'[c].now <= clock
      BY <1>0, <1>2, <1>3, Zenon DEF IndInv, ReqInv
    <3>4. /\ c \in conns /\ req'[c].pc = "running" /\ req'[c].phase = "Oper" /\ req'[c].op = m
          /\ ops'[m].conn = c /\ ops'[m].obj = req'[c].obj /\ ops'[m].sel = req'[c].sel
          /\ ops'[m].result = "pending"
      BY <1>0, <1>2, <1>3, <1>6, <2>2, <2>3, <2>4, Zenon DEF o, k
    <3> QED  BY <1>0, <2>2, <2>4, <3>1, <3>2, <3>3, <3>4 DEF ReqInv
  <2>7. OpInv'
    <3>1. OpGood(ops'[m]) /\ \A t \in 1..nops : OpGood(ops'[t])
      BY <2>1, <2>3, <2>4 DEF IndInv, OpInv, OpGood
    <3>2. \A t \in 1..m : OpGood(ops'[t])
      BY <2>4, <3>1, Zenon
    <3> QED  BY <1>0, <2>2, <3>2, Zenon DEF OpInv, OpGood, is_enhanced
  <2>8. SelInv'
    <3>1. ~Ran(m)' /\ \A t \in 1..nops : Ran(t)' <=> Ran(t)
      BY <2>3, <2>4 DEF Ran
    <3>2. /\ k <= selects /\ (has_select(o) => k > 0)
          /\ \A b \in Obj : Selected(b) /\ active[b].id = k => active[b].conn = c /\ b = o
      BY <2>1, Zenon DEF IndInv, SelInv, CheckedOwns, o, k
    <3>3. \A t \in 1..nops : ops[t].conn \in Conn
      BY <1>0 DEF Op
    <3>4. ASSUME NEW d \in Conn, Checked(d)'
          PROVE  /\ req'[d].sel <= selects /\ (has_select(req'[d].obj) => req'[d].sel > 0)
                 /\ \A b \in Obj : Selected(b) /\ active[b].id = req'[d].sel =>
                      active[b].conn = d /\ b = req'[d].obj
                 /\ \A e \in Conn : Checked(e)' /\ req'[e].sel = req'[d].sel =>
                      e = d \/ req'[d].sel = 0
      BY <1>4, <3>4 DEF IndInv, SelInv, CheckedOwns
    <3>5. ASSUME NEW t \in 1..m
          PROVE  /\ ops'[t].sel <= selects /\ (has_select(ops'[t].obj) => ops'[t].sel > 0)
                 /\ \A b \in Obj : Selected(b) /\ active[b].id = ops'[t].sel =>
                      /\ active[b].conn = ops'[t].conn /\ b = ops'[t].obj
                      /\ Ran(t)' => req'[ops'[t].conn].pc = "clear" /\ req'[ops'[t].conn].op = t
      <4>1. CASE t = m
        BY <2>3, <2>4, <3>1, <3>2, <4>1, Zenon
      <4>2. CASE t \in 1..nops
        <5>1. /\ ops[t].sel <= selects /\ (has_select(ops[t].obj) => ops[t].sel > 0)
              /\ \A b \in Obj : Selected(b) /\ active[b].id = ops[t].sel =>
                   /\ active[b].conn = ops[t].conn /\ b = ops[t].obj
                   /\ Ran(t) => req[ops[t].conn].pc = "clear" /\ req[ops[t].conn].op = t
          BY <4>2, Zenon DEF IndInv, SelInv, OperatedEnds
        <5> QED  BY <1>4, <2>4, <3>1, <3>3, <4>2, <5>1
      <4> QED  BY <2>4, <4>1, <4>2
    <3>6. ASSUME NEW t \in 1..m, Ran(t)'
          PROVE  /\ \A d \in Conn : Checked(d)' /\ req'[d].sel = ops'[t].sel =>
                      req'[d].sel = 0 \/ (req'[d].pc \in {"clear", "conclude"} /\ req'[d].op = t)
                 /\ \A u \in 1..m : Ran(u)' /\ ops'[u].sel = ops'[t].sel => u = t \/ ops'[t].sel = 0
      <4>1. t \in 1..nops /\ ops'[t] = ops[t] /\ Ran(t)
        BY <2>4, <3>1, <3>6
      <4>2. \A d \in Conn : Checked(d) /\ req[d].sel = ops[t].sel =>
              req[d].sel = 0 \/ (req[d].pc \in {"clear", "conclude"} /\ req[d].op = t)
        BY <4>1, Zenon DEF IndInv, SelInv, OperatedEnds
      <4>3. \A d \in Conn : Checked(d)' /\ req'[d].sel = ops'[t].sel =>
              req'[d].sel = 0 \/ (req'[d].pc \in {"clear", "conclude"} /\ req'[d].op = t)
        BY <1>4, <4>1, <4>2
      <4>4. \A u \in 1..m : Ran(u)' => u \in 1..nops /\ Ran(u) /\ ops'[u] = ops[u]
        BY <2>4, <3>1
      <4> QED  BY <4>1, <4>3, <4>4 DEF IndInv, SelInv, OperatedEnds
    <3>7. NoOrphanSelection' /\ Numbered'
      BY <1>0, Zenon DEF IndInv, SelInv, Numbered, NoOrphanSelection, Selected
    <3>8. CheckedOwns'
      BY <1>0, <3>4, Zenon DEF CheckedOwns, Selected, has_select
    <3>9. OperatedEnds'
      <4>1. \A b \in Obj : (Selected(b)' <=> Selected(b)) /\ (has_select(b)' <=> has_select(b))
        BY <1>0, Zenon DEF Selected, has_select
      <4>2. nops' = m /\ active' = active /\ selects' = selects /\ \A t \in 1..m : ops'[t].obj \in Obj
        BY <1>0, <2>2, <2>4 DEF Op
      <4> QED  BY <3>5, <3>6, <4>1, <4>2 DEF OperatedEnds
    <3> QED  BY <3>7, <3>8, <3>9 DEF SelInv
  <2> QED  BY <2>5, <2>6, <2>7, <2>8 DEF IndInv
<1> QED  BY <1>5, <1>6

=============================================================================
