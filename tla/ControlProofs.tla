--------------------------- MODULE ControlProofs ---------------------------
(***************************************************************************)
(* What holds of control objects for every set of objects, associations    *)
(* and control numbers, every timeout and every interleaving of the        *)
(* requests' steps.  The steps of an operate that has reached its handler  *)
(* keep the invariant of ControlLemmas, and the theorems follow from it.   *)
(***************************************************************************)
EXTENDS ControlLemmas

----------------------------------------------------------------------------
(* The steps of an operate *)

\* What the steps of one operate change: its result, and its termination
\* within what OpInv allows.
LEMMA OperateKeeps ==
  ASSUME IndInv, NEW t \in 1..nops, NEW p \in Op, ops' = [ops EXCEPT ![t] = p],
         SameOperate(p, ops[t]), OpGood(p), UNCHANGED <<ctlModel, nops>>
  PROVE  /\ ops' \in [1..nops' -> Op] /\ ops'[t] = p
         /\ \A u \in 1..nops : /\ u # t => ops'[u] = ops[u]
                               /\ SameOperate(ops'[u], ops[u])
         /\ OpInv'
<1>1. ops \in [1..nops -> Op]
  BY DEF IndInv, TypeOK
<1>2. ops' \in [1..nops -> Op] /\ ops'[t] = p /\ \A u \in 1..nops : u # t => ops'[u] = ops[u]
  BY <1>1
<1>3. OpInv'
  BY <1>2 DEF IndInv, OpInv, OpGood, is_enhanced
<1> QED  BY <1>2, <1>3 DEF SameOperate

\* A call of finish, the time limit and a send: the operate's result stays.
LEMMA TerminationKeeps ==
  ASSUME IndInv, NEW t \in 1..nops, AppFinish(t) \/ TimeLimitOver(t) \/ Send(t)
  PROVE  IndInv'
<1>0. /\ ops \in [1..nops -> Op] /\ ops[t] \in Op
      /\ UNCHANGED <<ctlModel, clock, conns, closing, ended, active, selects, req, nops>>
  BY DEF IndInv, TypeOK, AppFinish, TimeLimitOver, Send
<1>1. ops[t].sending \in Nat /\ ops[t].sent \in Nat /\ OpGood(ops[t])
  BY <1>0 DEF IndInv, OpInv, Op
<1>2. \E p \in Op : /\ ops' = [ops EXCEPT ![t] = p] /\ p.result = ops[t].result
                    /\ SameOperate(p, ops[t]) /\ OpGood(p)
  <2>1. CASE AppFinish(t)
    <3>1. ops' = [ops EXCEPT ![t] = finish(ops[t])] /\ ops[t].deferred
      BY <2>1 DEF AppFinish
    <3> DEFINE p == finish(ops[t])
    <3>2. /\ p \in Op /\ p.conn = ops[t].conn /\ p.obj = ops[t].obj /\ p.sel = ops[t].sel
          /\ p.result = ops[t].result /\ p.deferred = ops[t].deferred /\ p.timer = ops[t].timer
          /\ p.done /\ p.sent = ops[t].sent
          /\ p.sending = IF ops[t].done THEN ops[t].sending ELSE ops[t].sending + 1
      BY <1>0, FinishType
    <3> HIDE DEF p
    <3>3. SameOperate(p, ops[t]) /\ OpGood(p)
      BY <1>1, <3>1, <3>2 DEF OpGood, SameOperate
    <3> QED  BY <3>1, <3>2, <3>3, Zenon DEF p
  <2>2. CASE TimeLimitOver(t)
    <3> DEFINE f == finish(ops[t])
               p == [f EXCEPT !.timer = FALSE]
    <3>1. ops' = [ops EXCEPT ![t] = p] /\ ops[t].timer
      BY <2>2 DEF TimeLimitOver
    <3>2. /\ f \in Op /\ f.conn = ops[t].conn /\ f.obj = ops[t].obj /\ f.sel = ops[t].sel
          /\ f.result = ops[t].result /\ f.deferred = ops[t].deferred
          /\ f.done /\ f.sent = ops[t].sent
          /\ f.sending = IF ops[t].done THEN ops[t].sending ELSE ops[t].sending + 1
      BY <1>0, FinishType
    <3> HIDE DEF f
    <3>3. /\ p \in Op /\ p.conn = f.conn /\ p.obj = f.obj /\ p.sel = f.sel /\ p.result = f.result
          /\ p.deferred = f.deferred /\ ~p.timer /\ p.done = f.done /\ p.sent = f.sent
          /\ p.sending = f.sending
      BY <3>2, Zenon DEF Op
    <3> HIDE DEF p
    <3>4. SameOperate(p, ops[t]) /\ OpGood(p)
      BY <1>1, <3>1, <3>2, <3>3 DEF OpGood, SameOperate
    <3>5. p.result = ops[t].result
      BY <3>2, <3>3
    <3> QED  BY <3>1, <3>3, <3>4, <3>5, Zenon
  <2>3. CASE Send(t)
    <3> DEFINE a == ops[t].sending - 1
               b == ops[t].sent + 1
               p == [ops[t] EXCEPT !.sending = a, !.sent = b]
    <3>1. ops' = [ops EXCEPT ![t] = p] /\ ops[t].sending > 0
      BY <1>0, <2>3, Zenon DEF Send
    <3>2. a \in Nat /\ b \in Nat /\ a + b = ops[t].sending + ops[t].sent
      BY <1>1, <3>1
    <3> HIDE DEF a, b
    <3>3. /\ p \in Op /\ p.conn = ops[t].conn /\ p.obj = ops[t].obj /\ p.sel = ops[t].sel
          /\ p.result = ops[t].result /\ p.deferred = ops[t].deferred /\ p.timer = ops[t].timer
          /\ p.done = ops[t].done /\ p.sending = a /\ p.sent = b
      BY <1>0, <3>2, Zenon DEF Op
    <3> HIDE DEF p
    <3>4. SameOperate(p, ops[t]) /\ OpGood(p)
      BY <1>1, <3>1, <3>2, <3>3 DEF OpGood, SameOperate
    <3>5. p.result = ops[t].result
      BY <3>2, <3>3
    <3> QED  BY <3>1, <3>3, <3>4, <3>5, Zenon
  <2> QED  BY <2>1, <2>2, <2>3
<1>3. PICK p \in Op : /\ ops' = [ops EXCEPT ![t] = p] /\ p.result = ops[t].result
                      /\ SameOperate(p, ops[t]) /\ OpGood(p)
  BY <1>2, Zenon
<1>4. /\ ops' \in [1..nops' -> Op] /\ OpInv'
      /\ \A u \in 1..nops : SameOperate(ops'[u], ops[u]) /\ ops'[u].result = ops[u].result
  BY <1>0, <1>3, OperateKeeps, Zenon
<1>5. TypeOK'
  BY <1>0, <1>4 DEF IndInv, TypeOK
<1>6. ReqInv'
  BY <1>0, <1>4 DEF IndInv, ReqInv, Begun, SameOperate
<1>7. SelInv'
  <2>1. \A u \in 1..nops : Ran(u)' <=> Ran(u)
    BY <1>4 DEF Ran
  <2>2. \A d \in Conn : Checked(d)' <=> Checked(d)
    BY <1>0 DEF Checked
  <2>3. \A o \in Obj : Selected(o)' <=> Selected(o)
    BY <1>0 DEF Selected
  <2>4. NoOrphanSelection' /\ Numbered'
    BY <1>0, <2>3, Zenon DEF IndInv, SelInv, Numbered, NoOrphanSelection
  <2>5. CheckedOwns'
    BY <1>0, <2>2, <2>3, Zenon DEF IndInv, SelInv, CheckedOwns, has_select
  <2>6. OperatedEnds'
    BY <1>0, <1>4, <2>1, <2>2, <2>3 DEF IndInv, SelInv, OperatedEnds, has_select, SameOperate
  <2> QED  BY <2>4, <2>5, <2>6 DEF SelInv
<1> QED  BY <1>4, <1>5, <1>6, <1>7 DEF IndInv

\* A request that goes on or ends after its handler has run, while the operate
\* it carries changes its result.
LEMMA RequestKeeps ==
  ASSUME IndInv, NEW c \in Conn, req[c].pc \in {"running", "apply", "conclude"},
         NEW q \in Req \cup {Idle}, req' = [req EXCEPT ![c] = q],
         UNCHANGED <<ctlModel, clock, conns, closing, ended, active, selects, nops>>,
         ops' \in [1..nops -> Op], OpInv',
         \A t \in 1..nops : /\ SameOperate(ops'[t], ops[t])
                            /\ t # req[c].op \/ ~Begun(c) => ops'[t] = ops[t],
         q.pc \in {"idle", "reserve", "apply", "clear"},
         q.pc # "idle" => /\ q.phase = req[c].phase /\ q.obj = req[c].obj /\ q.now = req[c].now
                          /\ q.sel = req[c].sel /\ q.op = req[c].op,
         q.pc = "apply" => req[c].pc = "running" /\ req[c].phase = "Oper" /\ ops' = ops,
         q.pc = "clear" => req[c].pc = "apply" /\ ops'[req[c].op].result = "executed"
  PROVE  /\ TypeOK' /\ ReqInv'
         /\ (\A t \in 1..nops : Ran(t)' => Ran(t)) => SelInv'
<1>0. /\ req \in [Conn -> Req \cup {Idle}] /\ req[c] \in Req /\ c \in conns
      /\ \A t \in 1..nops : ops[t].conn \in Conn
  BY ReqType, Zenon DEF IndInv, TypeOK, ReqInv, Op
<1>1. /\ req'[c] = q /\ \A d \in Conn : d # c => req'[d] = req[d]
      /\ req' \in [Conn -> Req \cup {Idle}]
  BY <1>0, Zenon
<1>2. TypeOK'
  BY <1>1, Zenon DEF IndInv, TypeOK
<1>3. ReqInv'
  <2>1. ASSUME NEW d \in Conn, d # c, Begun(d)
        PROVE  req[d].op \in 1..nops /\ ops'[req[d].op] = ops[req[d].op]
    BY <1>0, <2>1 DEF IndInv, ReqInv
  <2>2. ASSUME NEW d \in Conn, d # c
        PROVE  /\ req'[d].pc # "idle" => d \in conns /\ req'[d].now <= clock
               /\ req'[d].pc \in {"handler", "running"} => req'[d].phase \in {"Oper", "SBOw"}
               /\ req'[d].pc \in {"apply", "clear", "conclude"} => req'[d].phase = "Oper"
               /\ Begun(d)' => LET t == req'[d].op IN
                    /\ t \in 1..nops /\ ops'[t].conn = d /\ ops'[t].obj = req'[d].obj
                    /\ ops'[t].sel = req'[d].sel
                    /\ ops'[t].result = IF req'[d].pc \in {"running", "apply"} THEN "pending" ELSE "executed"
    BY <1>1, <2>1, <2>2 DEF IndInv, ReqInv, Begun
  <2>3. q.pc \in {"apply", "clear"} => Begun(c)
    BY Zenon DEF Begun, IndInv, ReqInv
  <2>4. /\ q.pc # "idle" => c \in conns /\ q.now <= clock
        /\ q.pc \in {"apply", "clear"} => LET t == q.op IN
              /\ t \in 1..nops /\ ops'[t].conn = c /\ ops'[t].obj = q.obj /\ ops'[t].sel = q.sel
              /\ q.phase = "Oper"
              /\ ops'[t].result = IF q.pc = "apply" THEN "pending" ELSE "executed"
    <3>1. CASE q.pc \in {"apply", "clear"}
      <4>1. /\ req[c].op \in 1..nops /\ ops[req[c].op].conn = c /\ ops[req[c].op].obj = req[c].obj
            /\ ops[req[c].op].sel = req[c].sel /\ req[c].now <= clock
            /\ req[c].pc \in {"running", "apply"} => ops[req[c].op].result = "pending"
        BY <2>3, <3>1, Zenon DEF IndInv, ReqInv
      <4>2. req[c].phase = "Oper"
        BY <2>3, <3>1 DEF Begun
      <4> QED  BY <1>0, <3>1, <4>1, <4>2, Zenon DEF SameOperate
    <3>2. CASE q.pc \notin {"apply", "clear"}
      BY <1>0, <3>2, Zenon DEF IndInv, ReqInv
    <3> QED  BY <3>1, <3>2, Zenon
  <2> QED  BY <1>1, <2>2, <2>4 DEF ReqInv, Begun
<1>4. ASSUME \A t \in 1..nops : Ran(t)' => Ran(t)
      PROVE  SelInv'
  <2>1. NoOrphanSelection' /\ req[c].obj \in Obj
    BY <1>0, Zenon DEF IndInv, SelInv, NoOrphanSelection, Selected, Req
  <2>2. \A d \in Conn : Checked(d)' =>
          \/ /\ Checked(d) /\ req'[d].sel = req[d].sel /\ req'[d].obj = req[d].obj
             /\ req[d].pc \in {"clear", "conclude"} =>
                  req'[d].pc = req[d].pc /\ req'[d].op = req[d].op
    BY <1>1, Zenon DEF Checked, IndInv, ReqInv
  <2>3. \A d \in Conn : req[d].pc = "clear" => req'[d] = req[d]
    BY <1>1
  <2> QED  BY <1>4, <2>1, <2>2, <2>3, SelectionsKeep, Zenon DEF Selected, SameOperate
<1> QED  BY <1>2, <1>3, <1>4

\* The handler returns: a refused operate is done before it began to terminate.
LEMMA ReturnKeeps ==
  ASSUME IndInv, NEW c \in Conn, NEW ok \in BOOLEAN, Return(c, ok)
  PROVE  IndInv'
<1>0. /\ req \in [Conn -> Req \cup {Idle}] /\ req[c] \in Req
      /\ ops \in [1..nops -> Op] /\ req[c].pc = "running" /\ req[c].phase \in {"Oper", "SBOw"}
      /\ UNCHANGED <<ctlModel, clock, conns, closing, ended, active, selects, nops>>
  <2>1. req[c].pc = "running"
    BY DEF Return, At
  <2> QED  BY <2>1, ReqType DEF IndInv, TypeOK, ReqInv, Return
<1>1. CASE ok \/ req[c].phase # "Oper"
  <2> DEFINE pc == IF req[c].phase = "SBOw" THEN "reserve" ELSE "apply"
             g  == [req[c] EXCEPT !.pc = pc]
  <2>1. ops' = ops
    BY <1>1 DEF Return
  <2>2. pc \in {"reserve", "apply"} /\ (pc = "apply" => req[c].phase = "Oper")
    BY <1>0
  <2>3. \E q \in {Idle, g} : req' = [req EXCEPT ![c] = q]
    BY <1>0 DEF Return, Refuse, Goto
  <2> HIDE DEF pc
  <2>4. /\ g \in Req /\ g.pc = pc /\ g.phase = req[c].phase /\ g.obj = req[c].obj
        /\ g.now = req[c].now /\ g.sel = req[c].sel /\ g.op = req[c].op
    BY <1>0, <2>2 DEF Req
  <2> HIDE DEF g
  <2>5. PICK q \in {Idle, g} : req' = [req EXCEPT ![c] = q]
    BY <2>3, Zenon
  <2>6. OpInv' /\ ops' \in [1..nops -> Op] /\ \A t \in 1..nops : SameOperate(ops'[t], ops[t])
    BY <1>0, <2>1 DEF IndInv, OpInv, OpGood, is_enhanced, SameOperate
  <2>7. /\ q \in Req \cup {Idle} /\ q.pc \in {"idle", "reserve", "apply"}
        /\ q.pc # "idle" => /\ q.phase = req[c].phase /\ q.obj = req[c].obj /\ q.now = req[c].now
                            /\ q.sel = req[c].sel /\ q.op = req[c].op
        /\ q.pc = "apply" => req[c].phase = "Oper"
    BY <2>2, <2>4 DEF Idle
  <2>8. TypeOK' /\ ReqInv' /\ ((\A t \in 1..nops : Ran(t)' => Ran(t)) => SelInv')
    BY <1>0, <2>1, <2>5, <2>6, <2>7, RequestKeeps, Zenon
  <2>9. \A t \in 1..nops : Ran(t)' => Ran(t)
    BY <2>1 DEF Ran
  <2> QED  BY <2>6, <2>8, <2>9 DEF IndInv
<1>2. CASE ~ok /\ req[c].phase = "Oper"
  <2> DEFINE t == req[c].op
             p == [ops[t] EXCEPT !.result = "refused", !.done = TRUE]
  <2>1. Begun(c) /\ t \in 1..nops /\ ops[t] \in Op /\ ops[t].result = "pending"
    BY <1>0, <1>2 DEF IndInv, ReqInv, Begun
  <2>2. ops' = [ops EXCEPT ![t] = p] /\ req' = [req EXCEPT ![c] = Idle]
    BY <1>0, <1>2, <2>1, Zenon DEF Return, Refuse
  <2>3. /\ p \in Op /\ p.conn = ops[t].conn /\ p.obj = ops[t].obj /\ p.sel = ops[t].sel /\ p.done
        /\ p.deferred = ops[t].deferred /\ p.timer = ops[t].timer /\ p.sending = ops[t].sending
        /\ p.sent = ops[t].sent /\ p.result = "refused"
    BY <2>1, Zenon DEF Op
  <2> HIDE DEF p
  <2>4. SameOperate(p, ops[t]) /\ OpGood(p)
    BY <2>1, <2>3, Zenon DEF IndInv, OpInv, OpGood, SameOperate
  <2>5. /\ ops' \in [1..nops' -> Op] /\ ops'[t] = p /\ OpInv'
        /\ \A u \in 1..nops : (u # t => ops'[u] = ops[u]) /\ SameOperate(ops'[u], ops[u])
    BY <1>0, <2>1, <2>2, <2>3, <2>4, OperateKeeps, Zenon
  <2>6. Idle \in Req \cup {Idle} /\ Idle.pc = "idle"
    BY DEF Idle
  <2>7. TypeOK' /\ ReqInv' /\ ((\A u \in 1..nops : Ran(u)' => Ran(u)) => SelInv')
    BY <1>0, <2>1, <2>2, <2>5, <2>6, RequestKeeps, Zenon
  <2>8. \A u \in 1..nops : Ran(u)' => Ran(u)
    BY <2>3, <2>5, Zenon DEF Ran
  <2> QED  BY <2>5, <2>7, <2>8 DEF IndInv
<1> QED  BY <1>1, <1>2

\* The operate takes effect: no other has under its reservation.
LEMMA ApplyKeeps ==
  ASSUME IndInv, NEW c \in Conn, Apply(c)
  PROVE  IndInv'
<1>0. /\ req \in [Conn -> Req \cup {Idle}] /\ req[c] \in Req
      /\ ops \in [1..nops -> Op] /\ req[c].pc = "apply" /\ req[c].phase = "Oper"
      /\ UNCHANGED <<ctlModel, clock, conns, closing, ended, active, selects, nops>>
  <2>1. req[c].pc = "apply"
    BY DEF Apply, At
  <2> QED  BY <2>1, ReqType DEF IndInv, TypeOK, ReqInv, Apply
<1>1. PICK t \in 1..nops : /\ req[c].op = t /\ ops[t] \in Op /\ ops[t].result = "pending"
                          /\ ops[t].conn = c /\ ops[t].sel = req[c].sel /\ Begun(c)
  BY <1>0 DEF IndInv, ReqInv, Begun
<1> DEFINE q == [req[c] EXCEPT !.pc = "clear"]
           p == [ops[t] EXCEPT !.result = "executed"]
<1>2. ops' = [ops EXCEPT ![t] = p] /\ req' = [req EXCEPT ![c] = q]
  BY <1>0, <1>1 DEF Apply, Goto
<1>3. /\ p \in Op /\ p.conn = ops[t].conn /\ p.obj = ops[t].obj /\ p.sel = ops[t].sel
      /\ p.done = ops[t].done /\ p.deferred = ops[t].deferred /\ p.timer = ops[t].timer
      /\ p.sending = ops[t].sending /\ p.sent = ops[t].sent /\ p.result = "executed"
  BY <1>1 DEF Op
<1>4. /\ q \in Req /\ q.pc = "clear" /\ q.phase = req[c].phase /\ q.obj = req[c].obj
      /\ q.now = req[c].now /\ q.sel = req[c].sel /\ q.op = req[c].op
  BY <1>0, GotoType, Zenon
<1> HIDE DEF p, q
<1>5. SameOperate(p, ops[t]) /\ OpGood(p)
  BY <1>1, <1>3, Zenon DEF IndInv, OpInv, OpGood, SameOperate
<1>6. /\ ops' \in [1..nops' -> Op] /\ ops'[t] = p /\ OpInv'
      /\ \A u \in 1..nops : (u # t => ops'[u] = ops[u]) /\ SameOperate(ops'[u], ops[u])
  BY <1>0, <1>1, <1>2, <1>3, <1>5, OperateKeeps, Zenon
<1>7. TypeOK' /\ ReqInv'
  BY <1>0, <1>1, <1>2, <1>3, <1>4, <1>6, RequestKeeps, Zenon
<1>8. SelInv'
  <2>1. req'[c] = q /\ \A d \in Conn : d # c => req'[d] = req[d]
    BY <1>0, <1>2
  <2>2. \A d \in Conn : /\ Checked(d)' <=> Checked(d)
                        /\ Checked(d) => req'[d].sel = req[d].sel /\ req'[d].obj = req[d].obj
    BY <1>0, <1>4, <2>1 DEF Checked
  <2>3. Ran(t)' /\ \A u \in 1..nops : u # t => (Ran(u)' <=> Ran(u))
    BY <1>3, <1>6 DEF Ran
  <2>4. Checked(c) /\ \A u \in 1..nops : Ran(u) /\ ops[u].sel = req[c].sel => ops[u].sel = 0
    BY <1>0, Zenon DEF Checked, IndInv, SelInv, OperatedEnds
  <2>5. \A u \in 1..nops : ops[u].conn \in Conn
    BY <1>0 DEF Op
  <2>6. ASSUME NEW d \in Conn, Checked(d)'
        PROVE  /\ req'[d].sel <= selects /\ (has_select(req'[d].obj) => req'[d].sel > 0)
               /\ \A o \in Obj : Selected(o) /\ active[o].id = req'[d].sel =>
                    active[o].conn = d /\ o = req'[d].obj
               /\ \A e \in Conn : Checked(e)' /\ req'[e].sel = req'[d].sel =>
                    e = d \/ req'[d].sel = 0
    BY <2>2, <2>6 DEF IndInv, SelInv, CheckedOwns
  <2>7. ASSUME NEW u \in 1..nops
        PROVE  /\ ops[u].sel <= selects /\ (has_select(ops[u].obj) => ops[u].sel > 0)
               /\ \A o \in Obj : Selected(o) /\ active[o].id = ops[u].sel =>
                    /\ active[o].conn = ops[u].conn /\ o = ops[u].obj
                    /\ Ran(u)' => req'[ops[u].conn].pc = "clear" /\ req'[ops[u].conn].op = u
    <3>1. CASE u = t
      BY <1>1, <1>4, <2>1, <3>1 DEF IndInv, SelInv, OperatedEnds
    <3>2. CASE u # t
      BY <1>0, <2>1, <2>3, <2>5, <3>2 DEF IndInv, SelInv, OperatedEnds
    <3> QED  BY <3>1, <3>2
  <2>8. ASSUME NEW u \in 1..nops, Ran(u)'
        PROVE  /\ \A d \in Conn : Checked(d)' /\ req'[d].sel = ops[u].sel =>
                    req'[d].sel = 0 \/ (req'[d].pc \in {"clear", "conclude"} /\ req'[d].op = u)
               /\ \A v \in 1..nops : Ran(v)' /\ ops[v].sel = ops[u].sel => v = u \/ ops[u].sel = 0
    <3>1. CASE u = t
      <4>1. \A d \in Conn : Checked(d) /\ req[d].sel = req[c].sel => d = c \/ req[c].sel = 0
        BY <2>4, Zenon DEF IndInv, SelInv, CheckedOwns
      <4>2. \A v \in 1..nops : Ran(v)' /\ ops[v].sel = ops[t].sel => v = t \/ ops[t].sel = 0
        BY <1>1, <2>3, <2>4
      <4> QED  BY <1>1, <1>4, <2>1, <2>2, <3>1, <4>1, <4>2
    <3>2. CASE u # t
      <4>1. Ran(u)
        BY <2>3, <2>8, <3>2
      <4>2. ASSUME NEW d \in Conn, Checked(d)', req'[d].sel = ops[u].sel
            PROVE  req'[d].sel = 0 \/ (req'[d].pc \in {"clear", "conclude"} /\ req'[d].op = u)
        <5>1. CASE d = c
          BY <2>2, <2>4, <4>1, <4>2, <5>1
        <5>2. CASE d # c
          BY <2>1, <2>2, <4>1, <4>2, <5>2 DEF IndInv, SelInv, OperatedEnds
        <5> QED  BY <5>1, <5>2
      <4>3. ASSUME NEW v \in 1..nops, Ran(v)', ops[v].sel = ops[u].sel
            PROVE  v = u \/ ops[u].sel = 0
        <5>1. CASE v = t
          BY <1>1, <2>4, <4>1, <4>3, <5>1, Zenon
        <5>2. CASE v # t
          BY <2>3, <4>1, <4>3, <5>2 DEF IndInv, SelInv, OperatedEnds
        <5> QED  BY <5>1, <5>2
      <4> QED  BY <4>2, <4>3
    <3> QED  BY <3>1, <3>2, Zenon
  <2>9. \A u \in 1..nops : /\ ops'[u].conn = ops[u].conn /\ ops'[u].obj = ops[u].obj
                           /\ ops'[u].sel = ops[u].sel
    BY <1>6 DEF SameOperate
  <2>10. NoOrphanSelection' /\ Numbered'
    BY <1>0, Zenon DEF IndInv, SelInv, Numbered, NoOrphanSelection, Selected
  <2>11. CheckedOwns'
    BY <1>0, <2>6, Zenon DEF CheckedOwns, Selected, has_select
  <2>12. OperatedEnds'
    BY <1>0, <2>7, <2>8, <2>9 DEF OperatedEnds, Selected, has_select
  <2> QED  BY <2>10, <2>11, <2>12 DEF SelInv
<1> QED  BY <1>6, <1>7, <1>8 DEF IndInv

\* The reservation the operate was checked against goes before the request ends.
LEMMA ClearOperateKeeps ==
  ASSUME IndInv, NEW c \in Conn, ClearOperate(c)
  PROVE  IndInv'
<1>0. /\ req \in [Conn -> Req \cup {Idle}] /\ req[c] \in Req /\ c \in conns
      /\ active \in [Obj -> Selection \cup {NoSelection}]
      /\ req[c].pc = "clear" /\ req[c].phase = "Oper"
      /\ UNCHANGED <<ctlModel, clock, conns, closing, ended, selects, ops, nops>>
  <2>1. req[c].pc = "clear"
    BY DEF ClearOperate, At
  <2> QED  BY <2>1, ReqType DEF IndInv, TypeOK, ReqInv, ClearOperate
<1>1. /\ req[c].op \in 1..nops /\ ops[req[c].op].obj = req[c].obj
      /\ req[c].obj \in Obj
  BY <1>0, Zenon DEF IndInv, ReqInv, Begun, Req
<1> DEFINE q == [req[c] EXCEPT !.pc = "conclude"]
<1>2. req' = [req EXCEPT ![c] = q] /\ active' = [active EXCEPT ![req[c].obj] = NoSelection]
  BY <1>0 DEF ClearOperate, Goto, clear
<1>3. /\ q \in Req /\ q.pc = "conclude" /\ q.phase = req[c].phase /\ q.obj = req[c].obj
      /\ q.now = req[c].now /\ q.sel = req[c].sel /\ q.op = req[c].op
  BY <1>0, GotoType, Zenon
<1> HIDE DEF q
<1>4. /\ req'[c] = q /\ \A d \in Conn : d # c => req'[d] = req[d]
      /\ req' \in [Conn -> Req \cup {Idle}]
  BY <1>0, <1>2, <1>3
<1>5. /\ active' \in [Obj -> Selection \cup {NoSelection}]
      /\ \A p \in Obj : Selected(p)' => Selected(p) /\ active'[p] = active[p] /\ p # req[c].obj
  BY <1>0, <1>1, <1>2 DEF Selected
<1>6. TypeOK'
  BY <1>0, <1>4, <1>5 DEF IndInv, TypeOK
<1>7. ReqInv'
  BY <1>0, <1>3, <1>4 DEF IndInv, ReqInv, Begun
<1>8. OpInv'
  BY <1>0, Zenon DEF IndInv, OpInv, OpGood, is_enhanced
<1>9. SelInv'
  <2>1. \A d \in Conn : /\ Checked(d)' <=> Checked(d)
                        /\ Checked(d) => req'[d].sel = req[d].sel /\ req'[d].obj = req[d].obj
                        /\ Checked(d) => req'[d].op = req[d].op
                        /\ req[d].pc \in {"clear", "conclude"} => req'[d].pc \in {"clear", "conclude"}
    BY <1>0, <1>3, <1>4 DEF Checked
  <2>2. \A t \in 1..nops : ops[t].conn \in Conn
    BY DEF IndInv, TypeOK, Op
  <2>3. \A t \in 1..nops, p \in Obj :
          Selected(p)' /\ active'[p].id = ops[t].sel /\ Ran(t) =>
            req'[ops[t].conn].pc = "clear" /\ req'[ops[t].conn].op = t
    <3> SUFFICES ASSUME NEW t \in 1..nops, NEW p \in Obj,
                        Selected(p)', active'[p].id = ops[t].sel, Ran(t)
                 PROVE  req'[ops[t].conn].pc = "clear" /\ req'[ops[t].conn].op = t
      BY Zenon
    <3>1. /\ p = ops[t].obj /\ req[ops[t].conn].pc = "clear" /\ req[ops[t].conn].op = t
          /\ p # req[c].obj
      BY <1>5 DEF IndInv, SelInv, OperatedEnds
    <3>2. ops[t].conn # c
      BY <1>1, <3>1
    <3> QED  BY <1>4, <2>2, <3>1, <3>2, Zenon
  <2>4. \A t \in 1..nops : Ran(t)' <=> Ran(t)
    BY <1>0 DEF Ran
  <2>5. ASSUME NEW d \in Conn, Checked(d)'
        PROVE  /\ req'[d].sel <= selects /\ (has_select(req'[d].obj) => req'[d].sel > 0)
               /\ \A o \in Obj : Selected(o)' /\ active'[o].id = req'[d].sel =>
                    active'[o].conn = d /\ o = req'[d].obj
               /\ \A e \in Conn : Checked(e)' /\ req'[e].sel = req'[d].sel =>
                    e = d \/ req'[d].sel = 0
    BY <1>5, <2>1, <2>5 DEF IndInv, SelInv, CheckedOwns
  <2>6. ASSUME NEW t \in 1..nops, Ran(t)
        PROVE  \A d \in Conn : Checked(d)' /\ req'[d].sel = ops[t].sel =>
                 req'[d].sel = 0 \/ (req'[d].pc \in {"clear", "conclude"} /\ req'[d].op = t)
    BY <2>1, <2>6 DEF IndInv, SelInv, OperatedEnds
  <2>7. NoOrphanSelection' /\ Numbered'
    BY <1>0, <1>5 DEF IndInv, SelInv, Numbered, NoOrphanSelection
  <2>8. CheckedOwns'
    BY <1>0, <2>5, Zenon DEF CheckedOwns, has_select
  <2>9. \A t \in 1..nops :
          /\ ops[t].sel <= selects /\ (has_select(ops[t].obj) => ops[t].sel > 0)
          /\ \A o \in Obj : Selected(o)' /\ active'[o].id = ops[t].sel =>
               active'[o].conn = ops[t].conn /\ o = ops[t].obj
          /\ Ran(t) => \A u \in 1..nops : Ran(u) /\ ops[u].sel = ops[t].sel => u = t \/ ops[t].sel = 0
    BY <1>5 DEF IndInv, SelInv, OperatedEnds
  <2>10. OperatedEnds'
    BY <1>0, <2>3, <2>4, <2>6, <2>9 DEF OperatedEnds, has_select
  <2> QED  BY <2>7, <2>8, <2>10 DEF SelInv
<1> QED  BY <1>6, <1>7, <1>8, <1>9 DEF IndInv

\* The request ends: an operate of enhanced security that its handler did not
\* defer is finished, a deferred one supervised.
LEMMA ConcludeKeeps ==
  ASSUME IndInv, NEW c \in Conn, Conclude(c)
  PROVE  IndInv'
<1>0. /\ req \in [Conn -> Req \cup {Idle}] /\ req[c] \in Req
      /\ ops \in [1..nops -> Op] /\ req[c].pc = "conclude" /\ req[c].phase = "Oper"
      /\ UNCHANGED <<ctlModel, clock, conns, closing, ended, active, selects, nops>>
  <2>1. req[c].pc = "conclude"
    BY DEF Conclude, At
  <2> QED  BY <2>1, ReqType DEF IndInv, TypeOK, ReqInv, Conclude
<1>1. PICK t \in 1..nops : /\ req[c].op = t /\ ops[t] \in Op /\ ops[t].result = "executed"
                          /\ Begun(c) /\ OpGood(ops[t])
  BY <1>0, Zenon DEF IndInv, ReqInv, OpInv, Begun
<1> DEFINE a == [ops[t] EXCEPT !.result = "accepted"]
           p == IF ~is_enhanced(a.obj) THEN a ELSE IF a.deferred THEN supervise(a) ELSE finish(a)
<1>2. ops' = [ops EXCEPT ![t] = p] /\ req' = [req EXCEPT ![c] = Idle]
  BY <1>1 DEF Conclude
<1>3. /\ a \in Op /\ a.conn = ops[t].conn /\ a.obj = ops[t].obj /\ a.sel = ops[t].sel
      /\ a.done = ops[t].done /\ a.deferred = ops[t].deferred /\ a.timer = ops[t].timer
      /\ a.sending = ops[t].sending /\ a.sent = ops[t].sent /\ a.result = "accepted"
  BY <1>1 DEF Op
<1> HIDE DEF a
<1>4. a.sending \in Nat /\ a.sent \in Nat /\ OpGood(a)
  BY <1>1, <1>3 DEF OpGood, Op
<1>5. p \in Op /\ SameOperate(p, ops[t]) /\ OpGood(p) /\ p.result = "accepted"
  <2>1. CASE ~is_enhanced(a.obj)
    BY <1>3, <1>4, <2>1 DEF SameOperate
  <2>2. CASE is_enhanced(a.obj) /\ a.deferred
    <3> DEFINE b == OperTimeout > 0 /\ ~a.done
               s == [a EXCEPT !.timer = b]
    <3>1. p = s /\ b \in BOOLEAN
      BY <2>2 DEF supervise
    <3> HIDE DEF b
    <3>2. /\ s \in Op /\ s.conn = a.conn /\ s.obj = a.obj /\ s.sel = a.sel /\ s.done = a.done
          /\ s.deferred = a.deferred /\ s.sending = a.sending /\ s.sent = a.sent
          /\ s.result = a.result
      BY <1>3, <3>1 DEF Op
    <3> HIDE DEF s
    <3>3. SameOperate(s, ops[t]) /\ OpGood(s)
      BY <1>3, <1>4, <2>2, <3>2 DEF SameOperate, OpGood
    <3> QED  BY <1>3, <3>1, <3>2, <3>3
  <2>3. CASE is_enhanced(a.obj) /\ ~a.deferred
    <3> DEFINE f == finish(a)
    <3>1. p = f
      BY <2>3
    <3>2. /\ f \in Op /\ f.conn = a.conn /\ f.obj = a.obj /\ f.sel = a.sel
          /\ f.result = a.result /\ f.done /\ f.sent = a.sent
          /\ f.sending = IF a.done THEN a.sending ELSE a.sending + 1
      BY <1>3, FinishType
    <3> HIDE DEF f
    <3>3. SameOperate(f, ops[t]) /\ OpGood(f)
      BY <1>3, <1>4, <2>3, <3>2 DEF SameOperate, OpGood
    <3> QED  BY <1>3, <3>1, <3>2, <3>3
  <2> QED  BY <2>1, <2>2, <2>3
<1> HIDE DEF p
<1>6. /\ ops' \in [1..nops' -> Op] /\ ops'[t] = p /\ OpInv'
      /\ \A u \in 1..nops : (u # t => ops'[u] = ops[u]) /\ SameOperate(ops'[u], ops[u])
  BY <1>0, <1>1, <1>2, <1>5, OperateKeeps, Zenon
<1>7. Idle \in Req \cup {Idle} /\ Idle.pc = "idle"
  BY DEF Idle
<1>8. TypeOK' /\ ReqInv' /\ ((\A u \in 1..nops : Ran(u)' => Ran(u)) => SelInv')
  BY <1>0, <1>1, <1>2, <1>6, <1>7, RequestKeeps, Zenon
<1>9. \A u \in 1..nops : Ran(u)' => Ran(u)
  BY <1>1, <1>6 DEF Ran
<1> QED  BY <1>6, <1>8, <1>9 DEF IndInv

\* Every step keeps the invariant.
LEMMA ControlStep == IndInv /\ [Next]_vars => IndInv'
<1> SUFFICES ASSUME IndInv, [Next]_vars PROVE IndInv'
  OBVIOUS
<1>1. CASE \E c \in Conn : RequestStep(c)
  <2>1. PICK c \in Conn : RequestStep(c)
    BY <1>1
  <2>2. \/ CheckCancel(c) \/ ClearCancel(c)
        \/ CheckOperate(c)
        \/ \E defer \in BOOLEAN : Invoke(c, defer)
        \/ \E ok \in BOOLEAN : Return(c, ok)
        \/ Reserve(c) \/ Apply(c) \/ ClearOperate(c) \/ Conclude(c)
    BY <2>1 DEF RequestStep
  <2> QED  BY <2>2, CancelKeeps, CheckOperateKeeps, InvokeKeeps, ReturnKeeps, ReserveKeeps,
              ApplyKeeps, ClearOperateKeeps, ConcludeKeeps
<1>2. CASE \E t \in 1..nops : AppFinish(t) \/ TimeLimitOver(t) \/ Send(t)
  BY <1>2, TerminationKeeps
<1>3. CASE Tick
  <2>1. CASE Conn # {}
    BY <1>3, <2>1, AssociationsKeep
  <2>2. CASE Conn = {}
    <3>1. clock \in Nat /\ clock' \in Nat /\ UNCHANGED <<ctlModel, conns, closing, ended, active, selects, req, ops, nops>>
      BY <1>3 DEF Tick, IndInv, TypeOK
    <3>2. TypeOK'
      BY <2>2, <3>1 DEF IndInv, TypeOK
    <3>3. ReqInv'
      BY <2>2 DEF ReqInv
    <3>4. OpInv'
      BY <3>1, Zenon DEF IndInv, OpInv, OpGood, is_enhanced
    <3>5. NoOrphanSelection' /\ Numbered'
      BY <3>1, Zenon DEF IndInv, SelInv, NoOrphanSelection, Numbered, Selected
    <3>6. CheckedOwns' /\ OperatedEnds'
      BY <2>2, <3>1 DEF IndInv, SelInv, CheckedOwns, OperatedEnds, Selected, Ran, has_select
    <3> QED  BY <3>2, <3>3, <3>4, <3>5, <3>6 DEF IndInv, SelInv
  <2> QED  BY <2>1, <2>2
<1>4. CASE \E c \in Conn : Connect(c) \/ Disconnect(c) \/ release_conn(c)
  BY <1>4, AssociationsKeep
<1>5. CASE \E c \in Conn, o \in Obj : ReadSBO(c, o)
  BY <1>5, ReadSBOKeeps
<1>6. CASE \E c \in Conn, phase \in Phases, o \in Obj, num \in CtlNum : control_write(c, phase, o, num)
  BY <1>6, WriteKeeps
<1>7. CASE UNCHANGED vars
  <2> USE <1>7 DEF vars
  <2>1. TypeOK' /\ ReqInv'
    BY DEF IndInv, TypeOK, ReqInv, Begun
  <2>2. OpInv'
    BY Zenon DEF IndInv, OpInv, OpGood, is_enhanced
  <2>3. NoOrphanSelection' /\ Numbered'
    BY Zenon DEF IndInv, SelInv, NoOrphanSelection, Numbered, Selected
  <2>4. CheckedOwns' /\ OperatedEnds'
    BY DEF IndInv, SelInv, CheckedOwns, OperatedEnds, Selected, Checked, Ran, has_select
  <2> QED  BY <2>1, <2>2, <2>3, <2>4 DEF IndInv, SelInv
<1> QED  BY <1>1, <1>2, <1>3, <1>4, <1>5, <1>6, <1>7 DEF Next

----------------------------------------------------------------------------
(* The theorems *)

\* The invariant holds in every state of a run.
LEMMA ControlInvariant == Spec => []IndInv
BY ControlStarts, ControlStep, PTL DEF Spec

\* Every variable of the control objects keeps its type.
THEOREM ControlTypes == Spec => []TypeOK
BY ControlInvariant, PTL DEF IndInv

\* No reservation serves two operates, though the check, the handler and the
\* clearing of the reservation are separate steps (select.rs, handler.rs
\* control_write): an association handles one request at a time, and only the
\* one that made a reservation is checked against it.
THEOREM SelectServesOnce == Spec => []OneOperatePerSelect
<1>1. IndInv => OneOperatePerSelect
  BY DEF IndInv, SelInv, OperatedEnds, OneOperatePerSelect, Ran
<1> QED  BY <1>1, ControlInvariant, PTL

\* No reservation outlives its association (serve_transport, release_conn): one
\* that is gone has no request left that could make another.
THEOREM NoneOrphaned == Spec => []NoOrphanSelection
<1>1. IndInv => NoOrphanSelection
  BY Zenon DEF IndInv, SelInv
<1> QED  BY <1>1, ControlInvariant, PTL

\* However the handler, the application and the time limit race for it, an
\* operate is concluded at most once, and only under enhanced security
\* (Termination::finish).
THEOREM ConcludedOnce == Spec => []TerminatedOnce
<1>1. IndInv => TerminatedOnce
  <2> SUFFICES ASSUME IndInv, NEW t \in 1..nops
               PROVE  ops[t].sent <= IF is_enhanced(ops[t].obj) THEN 1 ELSE 0
    BY DEF TerminatedOnce
  <2>1. ops[t].sent \in Nat /\ ops[t].sending \in Nat /\ OpGood(ops[t])
    BY DEF IndInv, TypeOK, OpInv, Op
  <2> QED  BY <2>1 DEF OpGood
<1> QED  BY <1>1, ControlInvariant, PTL

\* Selections::reserve compares with the time its request began, which is in the
\* past when it gets the lock: a reservation still live then was live before, so
\* no association takes an object another one holds.
THEOREM HeldIsNotTaken == Spec => NotTaken
<1> DEFINE Kept == \A o \in Obj : LiveSelection(o) /\ Selected(o)' => active'[o].conn = active[o].conn
<1>1. IndInv /\ [Next]_vars => [Kept]_vars
  <2> SUFFICES ASSUME IndInv, Next, NEW o \in Obj, LiveSelection(o), Selected(o)'
               PROVE  active'[o].conn = active[o].conn
    OBVIOUS
  <2>0. /\ active \in [Obj -> Selection \cup {NoSelection}] /\ clock \in Nat
        /\ Selected(o) /\ active[o].expiry \in Nat /\ clock < active[o].expiry
    BY DEF IndInv, TypeOK, LiveSelection, Selected, Selection
  <2>1. ASSUME NEW c \in Conn, NEW p \in Obj, NEW num, NEW now \in Nat, now <= clock,
               reserve(p, c, num, now)
        PROVE  active'[o].conn = active[o].conn
    <3>1. CASE p = o /\ active[o].conn # c
      BY <2>0, <2>1, <3>1 DEF reserve, HeldByOther
    <3>2. CASE p # o
      BY <2>0, <2>1, <3>2 DEF reserve
    <3>3. CASE p = o /\ active[o].conn = c
      BY <2>0, <2>1, <3>3 DEF reserve, HeldByOther
    <3> QED  BY <3>1, <3>2, <3>3
  <2>2. ASSUME NEW c \in Conn, Reserve(c)
        PROVE  active'[o].conn = active[o].conn
    <3>1. req[c].pc = "reserve" /\ reserve(req[c].obj, c, req[c].ctl_num, req[c].now)
      BY <2>2 DEF Reserve, At
    <3>2. req[c] \in Req /\ req[c].now <= clock
      BY <3>1, ReqType, Zenon DEF IndInv, ReqInv
    <3>3. req[c].obj \in Obj /\ req[c].now \in Nat
      BY <3>2 DEF Req
    <3> QED  BY <2>1, <3>1, <3>2, <3>3
  <2>3. ASSUME NEW c \in Conn, NEW p \in Obj, ReadSBO(c, p)
        PROVE  active'[o].conn = active[o].conn
    <3>1. reserve(p, c, NoNum, clock)
      BY <2>3 DEF ReadSBO
    <3> QED  BY <2>0, <2>1, <3>1
  <2>4. ASSUME NEW c \in Conn, ClearCancel(c) \/ ClearOperate(c) \/ release_conn(c)
        PROVE  active'[o].conn = active[o].conn
    BY <2>0, <2>4 DEF ClearCancel, ClearOperate, release_conn, clear, Selected
  <2> QED  BY <2>2, <2>3, <2>4, Zenon DEF Next, RequestStep, Tick, Connect, Disconnect, control_write,
              CheckCancel, CheckOperate, Invoke, Return, Apply, Conclude, AppFinish, TimeLimitOver, Send
<1> QED  BY <1>1, ControlInvariant, PTL DEF Spec, NotTaken

\* Termination::discard marks a refused operate done, so that neither the
\* application nor a timer begins to terminate it (finish).
THEOREM RefusedIsSilent == Spec => RefusedStaysSilent
<1> DEFINE Silent == \A t \in 1..nops : ops[t].result = "refused" => ops'[t].sending <= ops[t].sending
<1>1. IndInv /\ [Next]_vars => [Silent]_vars
  <2> SUFFICES ASSUME IndInv, Next, NEW t \in 1..nops, ops[t].result = "refused"
               PROVE  ops'[t].sending <= ops[t].sending
    OBVIOUS
  <2>0. /\ ops \in [1..nops -> Op] /\ nops \in Nat /\ ops[t] \in Op /\ ops[t].sending \in Nat
        /\ ops[t].done
    BY DEF IndInv, TypeOK, OpInv, OpGood, Op
  <2>1. ASSUME ops'[t] = ops[t]
        PROVE  ops'[t].sending <= ops[t].sending
    BY <2>0, <2>1
  <2>2. ASSUME NEW u \in 1..nops, AppFinish(u)
        PROVE  ops'[t] = ops[t]
    BY <2>0, <2>2 DEF AppFinish, finish
  <2>3. ASSUME NEW u \in 1..nops, TimeLimitOver(u)
        PROVE  ops'[t].sending <= ops[t].sending
    <3>1. CASE u = t
      <4> DEFINE p == [ops[t] EXCEPT !.timer = FALSE]
      <4>1. ops' = [ops EXCEPT ![t] = p]
        BY <2>0, <2>3, <3>1 DEF TimeLimitOver, finish
      <4>2. p.sending = ops[t].sending
        BY <2>0 DEF Op
      <4> HIDE DEF p
      <4> QED  BY <2>0, <4>1, <4>2
    <3>2. CASE u # t
      BY <2>0, <2>3, <3>2 DEF TimeLimitOver
    <3> QED  BY <3>1, <3>2
  <2>4. ASSUME NEW u \in 1..nops, Send(u)
        PROVE  ops'[t].sending <= ops[t].sending
    <3>1. CASE u = t
      <4> DEFINE a == ops[t].sending - 1
                 b == ops[t].sent + 1
                 p == [ops[t] EXCEPT !.sending = a, !.sent = b]
      <4>1. ops' = [ops EXCEPT ![t] = p]
        BY <2>0, <2>4, <3>1, Zenon DEF Send
      <4>2. a <= ops[t].sending
        BY <2>0
      <4> HIDE DEF a, b
      <4>3. p.sending = a
        BY <2>0 DEF Op
      <4> HIDE DEF p
      <4> QED  BY <2>0, <4>1, <4>2, <4>3
    <3>2. CASE u # t
      BY <2>0, <2>4, <3>2 DEF Send
    <3> QED  BY <3>1, <3>2
  <2>5. ASSUME NEW c \in Conn, NEW defer \in BOOLEAN, Invoke(c, defer)
        PROVE  ops'[t] = ops[t]
    BY <2>0, <2>5 DEF Invoke
  <2>6. ASSUME NEW c \in Conn, (\E ok \in BOOLEAN : Return(c, ok)) \/ Apply(c) \/ Conclude(c)
        PROVE  ops'[t] = ops[t]
    <3>1. req[c].pc \in {"running", "apply", "conclude"}
      BY <2>6 DEF Return, Apply, Conclude, At
    <3>2. req[c].phase = "Oper" => req[c].op # t
      BY <3>1 DEF IndInv, ReqInv, Begun
    <3>3. req[c].pc # "running" => req[c].phase = "Oper"
      BY <3>1 DEF IndInv, ReqInv
    <3> QED  BY <2>0, <2>6, <3>2, <3>3 DEF Return, Apply, Conclude, At
  <2> QED  BY <2>1, <2>2, <2>3, <2>4, <2>5, <2>6, Zenon
           DEF Next, RequestStep, Tick, Connect, Disconnect, release_conn, ReadSBO, control_write,
               CheckCancel, ClearCancel, CheckOperate, Reserve, ClearOperate
<1> QED  BY <1>1, ControlInvariant, PTL DEF Spec, RefusedStaysSilent
=============================================================================
