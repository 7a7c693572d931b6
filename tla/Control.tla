------------------------------ MODULE Control ------------------------------
(***************************************************************************)
(* Control objects and their reservations (server/select.rs, control_write *)
(* and the SBO read of server/handler.rs, Termination of                   *)
(* server/control.rs).                                                     *)
(*                                                                         *)
(* Each association handles one request at a time, the associations side   *)
(* by side.  A control request locks the table of reservations several     *)
(* times and runs the application's handler in between, so it is a         *)
(* sequence of actions; it compares reservations with the time at which it *)
(* began, "now", however late it gets to them.                             *)
(***************************************************************************)
EXTENDS Integers, FiniteSets

CONSTANTS
  Conn,         \* association identifiers, never reused
  Obj,          \* control objects
  Declared,     \* the control models the objects may declare, one by one
  CtlNum,       \* control numbers
  SboTimeout,   \* how long a reservation lasts
  OperTimeout,  \* how long a deferred termination may take, 0 for ever
  MaxTime,      \* bound: the clock
  MaxSelects,   \* bound: reservations made
  MaxOps        \* bound: operates that reach their handler

CtlModels == {"StatusOnly", "DirectNormal", "SboNormal", "DirectEnhanced", "SboEnhanced",
              "undeclared"}

ASSUME DeclaredAssumption == Declared \subseteq [Obj -> CtlModels]
ASSUME CtlNumAssumption == CtlNum \subseteq Nat \ {0}
ASSUME TimeAssumption == SboTimeout \in Nat \ {0} /\ OperTimeout \in Nat /\ MaxTime \in Nat
ASSUME BoundAssumption == MaxSelects \in Nat /\ MaxOps \in Nat

VARIABLES
  ctlModel,\* the control model of each object, or "undeclared"
  clock,   \* the server's monotonic clock
  conns,   \* associations being served
  closing, \* associations that ended and whose reservations are still there
  ended,   \* associations that have gone
  active,  \* Selections: the reservation of each object
  selects, \* reservations made so far
  req,     \* the control request each association is handling
  ops,     \* operates that reached their handler, with their Termination
  nops     \* how many there are

vars == <<ctlModel, clock, conns, closing, ended, active, selects, req, ops, nops>>

\* No control number: the SBO read form does not carry one.
NoNum == 0

\* "id" tells reservations apart, to observe what became of each.
Selection == [conn : Conn, expiry : Nat, ctl_num : CtlNum \cup {NoNum}, id : Nat]
NoSelection == [id |-> 0]

Phases == {"Oper", "SBOw", "Cancel"}
Req == [pc : {"check", "clear_cancel", "handler", "running", "reserve", "apply", "clear",
              "conclude"},
        phase : Phases, obj : Obj, ctl_num : CtlNum, now : Nat, sel : Nat, op : Nat]
Idle == [pc |-> "idle"]

\* "sent" counts the CommandTerminations sent, "sending" the calls of finish
\* that are past their test and have not sent theirs yet, and "sel" is the
\* reservation the operate was checked against.
Op == [conn : Conn, obj : Obj, sel : Nat, result : {"pending", "refused", "executed", "accepted"},
       deferred : BOOLEAN, done : BOOLEAN, timer : BOOLEAN, sending : Nat, sent : Nat]

has_select(o) == ctlModel[o] \in {"SboNormal", "SboEnhanced"}
is_enhanced(o) == ctlModel[o] \in {"DirectEnhanced", "SboEnhanced"}

Selected(o) == active[o] # NoSelection

----------------------------------------------------------------------------
(* Selections.  Each is one critical section on the table. *)

\* A reservation of another association that had not expired at "now".
HeldByOther(o, c, now) == Selected(o) /\ active[o].conn # c /\ now < active[o].expiry

\* Mutant of reserve: the object is taken without looking who holds it, as when
\* the check of an earlier step were relied on.
reserve_Unchecked(o, c, num, now) ==
  /\ active' = [active EXCEPT ![o] = [conn |-> c, expiry |-> now + SboTimeout,
                                      ctl_num |-> num, id |-> selects + 1]]
  /\ selects' = selects + 1

reserve(o, c, num, now) ==
  IF HeldByOther(o, c, now)
  THEN UNCHANGED <<active, selects>>
  ELSE /\ active' = [active EXCEPT ![o] = [conn |-> c, expiry |-> now + SboTimeout,
                                           ctl_num |-> num, id |-> selects + 1]]
       /\ selects' = selects + 1

NumMatches(o, num) == active[o].ctl_num \in {NoNum, num}

check_operate(o, c, num, now) ==
  Selected(o) /\ active[o].conn = c /\ now < active[o].expiry /\ NumMatches(o, num)

check_cancel(o, c, num, now) ==
  \/ ~Selected(o)
  \/ now >= active[o].expiry
  \/ active[o].conn = c /\ NumMatches(o, num)

clear(o) == active' = [active EXCEPT ![o] = NoSelection]

----------------------------------------------------------------------------
(* Associations *)

Init ==
  /\ ctlModel \in Declared
  /\ clock = 0
  /\ conns = {} /\ closing = {} /\ ended = {}
  /\ active = [o \in Obj |-> NoSelection]
  /\ selects = 0
  /\ req = [c \in Conn |-> Idle]
  /\ ops = <<>>
  /\ nops = 0

Tick ==
  /\ clock < MaxTime
  /\ clock' = clock + 1
  /\ UNCHANGED <<ctlModel, conns, closing, ended, active, selects, req, ops, nops>>

Connect(c) ==
  /\ c \notin conns \cup closing \cup ended
  /\ conns' = conns \cup {c}
  /\ UNCHANGED <<ctlModel, clock, closing, ended, active, selects, req, ops, nops>>

\* serve_transport: the association leaves the table of connections, and some
\* time later its reservations go.
Disconnect(c) ==
  /\ c \in conns /\ req[c] = Idle
  /\ conns' = conns \ {c}
  /\ closing' = closing \cup {c}
  /\ UNCHANGED <<ctlModel, clock, ended, active, selects, req, ops, nops>>

\* Mutant of release_conn: the reservations stay.
release_conn_Keeps(c) ==
  /\ c \in closing
  /\ closing' = closing \ {c}
  /\ ended' = ended \cup {c}
  /\ UNCHANGED <<ctlModel, clock, conns, active, selects, req, ops, nops>>

release_conn(c) ==
  /\ c \in closing
  /\ active' = [o \in Obj |-> IF Selected(o) /\ active[o].conn = c THEN NoSelection
                              ELSE active[o]]
  /\ closing' = closing \ {c}
  /\ ended' = ended \cup {c}
  /\ UNCHANGED <<ctlModel, clock, conns, selects, req, ops, nops>>

----------------------------------------------------------------------------
(* Requests *)

Free(c) == c \in conns /\ req[c] = Idle

\* Reading SBO selects, under the lock and with the time taken there.
ReadSBO(c, o) ==
  /\ Free(c) /\ selects < MaxSelects
  /\ ctlModel[o] \in {"SboNormal", "undeclared"}
  /\ reserve(o, c, NoNum, clock)
  /\ UNCHANGED <<ctlModel, clock, conns, closing, ended, req, ops, nops>>

\* control_write up to its first look at the reservations.  What is refused
\* before that changes nothing: a control of a status-only object, a select
\* with value of an object that does not offer it.
control_write(c, phase, o, num) ==
  /\ Free(c)
  /\ ctlModel[o] # "StatusOnly"
  /\ phase = "SBOw" => ctlModel[o] \in {"SboEnhanced", "undeclared"}
  /\ req' = [req EXCEPT ![c] =
       [pc |-> IF phase = "Cancel" \/ (phase = "Oper" /\ has_select(o)) THEN "check"
               ELSE "handler",
        phase |-> phase, obj |-> o, ctl_num |-> num, now |-> clock, sel |-> 0, op |-> 0]]
  /\ UNCHANGED <<ctlModel, clock, conns, closing, ended, active, selects, ops, nops>>

At(c, pc) == req[c].pc = pc
Goto(c, pc) == [req EXCEPT ![c].pc = pc]
Refuse(c) == [req EXCEPT ![c] = Idle]

CheckCancel(c) ==
  LET r == req[c]
  IN  /\ At(c, "check") /\ r.phase = "Cancel"
      /\ req' = IF check_cancel(r.obj, c, r.ctl_num, r.now) THEN Goto(c, "clear_cancel")
                ELSE Refuse(c)
      /\ UNCHANGED <<ctlModel, clock, conns, closing, ended, active, selects, ops, nops>>

ClearCancel(c) ==
  /\ At(c, "clear_cancel")
  /\ clear(req[c].obj)
  /\ req' = [req EXCEPT ![c] = Idle]
  /\ UNCHANGED <<ctlModel, clock, conns, closing, ended, selects, ops, nops>>

CheckOperate(c) ==
  LET r == req[c]
  IN  /\ At(c, "check") /\ r.phase = "Oper"
      /\ req' = IF check_operate(r.obj, c, r.ctl_num, r.now)
                THEN [req EXCEPT ![c].pc = "handler", ![c].sel = active[r.obj].id]
                ELSE Refuse(c)
      /\ UNCHANGED <<ctlModel, clock, conns, closing, ended, active, selects, ops, nops>>

\* The handler starts; that of an operate may take over its termination.
Invoke(c, defer) ==
  LET r == req[c]
      oper == r.phase = "Oper"
  IN  /\ At(c, "handler")
      /\ oper => nops < MaxOps
      /\ defer => oper /\ is_enhanced(r.obj)
      /\ req' = [req EXCEPT ![c].pc = "running", ![c].op = IF oper THEN nops + 1 ELSE 0]
      /\ nops' = IF oper THEN nops + 1 ELSE nops
      /\ ops' = IF oper
                THEN [t \in 1..(nops + 1) |->
                        IF t <= nops THEN ops[t]
                        ELSE [conn |-> c, obj |-> r.obj, sel |-> r.sel, result |-> "pending",
                              deferred |-> defer, done |-> FALSE, timer |-> FALSE, sending |-> 0,
                              sent |-> 0]]
                ELSE ops
      /\ UNCHANGED <<ctlModel, clock, conns, closing, ended, active, selects>>

\* The handler returns.  The termination of a refused operate is discarded.
Return(c, ok) ==
  LET r == req[c]
  IN  /\ At(c, "running")
      /\ req' = IF ~ok THEN Refuse(c)
                ELSE Goto(c, IF r.phase = "SBOw" THEN "reserve" ELSE "apply")
      /\ ops' = IF ~ok /\ r.phase = "Oper"
                THEN [ops EXCEPT ![r.op].result = "refused", ![r.op].done = TRUE] ELSE ops
      /\ UNCHANGED <<ctlModel, clock, conns, closing, ended, active, selects, nops>>

Reserve(c) ==
  LET r == req[c]
  IN  /\ At(c, "reserve") /\ selects < MaxSelects
      /\ reserve(r.obj, c, r.ctl_num, r.now)
      /\ req' = [req EXCEPT ![c] = Idle]
      /\ UNCHANGED <<ctlModel, clock, conns, closing, ended, ops, nops>>

\* apply_control reflects the accepted operate into the process image.
Apply(c) ==
  /\ At(c, "apply")
  /\ ops' = [ops EXCEPT ![req[c].op].result = "executed"]
  /\ req' = Goto(c, "clear")
  /\ UNCHANGED <<ctlModel, clock, conns, closing, ended, active, selects, nops>>

\* Mutant of ClearOperate: the reservation outlives the operate.
ClearOperate_Keeps(c) ==
  /\ At(c, "clear")
  /\ req' = Goto(c, "conclude")
  /\ UNCHANGED <<ctlModel, clock, conns, closing, ended, active, selects, ops, nops>>

ClearOperate(c) ==
  /\ At(c, "clear")
  /\ clear(req[c].obj)
  /\ req' = Goto(c, "conclude")
  /\ UNCHANGED <<ctlModel, clock, conns, closing, ended, selects, ops, nops>>

----------------------------------------------------------------------------
(* Termination *)

\* Mutant of finish: every call sends.
finish_Again(p) == [p EXCEPT !.done = TRUE, !.sending = IF @ + p.sent < 2 THEN @ + 1 ELSE @]

\* finish tests and sets "done" under the lock, and sends after it.
finish(p) == IF p.done THEN p ELSE [p EXCEPT !.done = TRUE, !.sending = @ + 1]

Send(t) ==
  /\ ops[t].sending > 0
  /\ ops' = [ops EXCEPT ![t].sending = @ - 1, ![t].sent = @ + 1]
  /\ UNCHANGED <<ctlModel, clock, conns, closing, ended, active, selects, req, nops>>

\* Mutant of supervise: without a limit there is a timer, with one there is none.
supervise_Inverted(p) == [p EXCEPT !.timer = OperTimeout = 0]

supervise(p) == [p EXCEPT !.timer = OperTimeout > 0 /\ ~p.done]

Conclude(c) ==
  LET t == req[c].op
      p == [ops[t] EXCEPT !.result = "accepted"]
  IN  /\ At(c, "conclude")
      /\ ops' = [ops EXCEPT ![t] = IF ~is_enhanced(p.obj) THEN p
                                   ELSE IF p.deferred THEN supervise(p) ELSE finish(p)]
      /\ req' = [req EXCEPT ![c] = Idle]
      /\ UNCHANGED <<ctlModel, clock, conns, closing, ended, active, selects, nops>>

\* The application concludes an operate it deferred, from any thread, as often
\* as it likes.
AppFinish(t) ==
  /\ ops[t].deferred
  /\ ops' = [ops EXCEPT ![t] = finish(@)]
  /\ UNCHANGED <<ctlModel, clock, conns, closing, ended, active, selects, req, nops>>

\* The timer of supervise; finish may abort it too late to stop it.
TimeLimitOver(t) ==
  /\ ops[t].timer
  /\ ops' = [ops EXCEPT ![t] = [finish(@) EXCEPT !.timer = FALSE]]
  /\ UNCHANGED <<ctlModel, clock, conns, closing, ended, active, selects, req, nops>>

RequestStep(c) ==
  \/ CheckCancel(c) \/ ClearCancel(c) \/ CheckOperate(c)
  \/ \E defer \in BOOLEAN : Invoke(c, defer)
  \/ \E ok \in BOOLEAN : Return(c, ok)
  \/ Reserve(c) \/ Apply(c) \/ ClearOperate(c) \/ Conclude(c)

Next ==
  \/ Tick
  \/ \E c \in Conn :
       \/ Connect(c) \/ Disconnect(c) \/ release_conn(c)
       \/ \E o \in Obj : ReadSBO(c, o)
       \/ \E phase \in Phases, o \in Obj, num \in CtlNum : control_write(c, phase, o, num)
       \/ RequestStep(c)
  \/ \E t \in 1..nops : AppFinish(t) \/ TimeLimitOver(t) \/ Send(t)

Spec == Init /\ [][Next]_vars

\* A request that is being handled goes on, handlers return, a timer that runs
\* goes off and a call of finish goes through.  Clients and the application owe nothing.
Fairness ==
  /\ \A c \in Conn : WF_vars(RequestStep(c))
  /\ \A t \in 1..MaxOps : /\ WF_vars(t <= nops /\ TimeLimitOver(t))
                          /\ WF_vars(t <= nops /\ Send(t))

FairSpec == Spec /\ Fairness

----------------------------------------------------------------------------
(* Properties *)

\* Every variable has its type.
TypeOK ==
  /\ ctlModel \in [Obj -> CtlModels]
  /\ clock \in Nat /\ selects \in Nat /\ nops \in Nat
  /\ conns \subseteq Conn /\ closing \subseteq Conn /\ ended \subseteq Conn
  /\ active \in [Obj -> Selection \cup {NoSelection}]
  /\ req \in [Conn -> Req \cup {Idle}]
  /\ ops \in [1..nops -> Op]

\* The object is reserved, and the reservation has not expired.
LiveSelection(o) == Selected(o) /\ clock < active[o].expiry

\* No association reserves an object another one holds, even when it decides
\* by a time that has long passed (reserve, control_write's "now").
NotTaken ==
  [][\A o \in Obj : LiveSelection(o) /\ Selected(o)' => active'[o].conn = active[o].conn]_vars

\* An operate executes under a reservation its own association made, and no
\* reservation serves two of them.
OneOperatePerSelect ==
  \A t \in 1..nops :
    ops[t].result \in {"executed", "accepted"} /\ has_select(ops[t].obj) =>
      /\ ops[t].sel > 0
      /\ \A u \in 1..nops : u # t /\ ops[u].result \in {"executed", "accepted"}
                              => ops[u].sel # ops[t].sel

\* Reservations go with the association that made them: once serve_transport
\* is through with it none is left, whatever requests were under way.
NoOrphanSelection == \A o \in Obj : Selected(o) => active[o].conn \in conns \cup closing

\* An operate is concluded at most once, however the handler, the application
\* and the timer race, and a normal-security one never.
TerminatedOnce ==
  \A t \in 1..nops : ops[t].sent <= IF is_enhanced(ops[t].obj) THEN 1 ELSE 0

\* Once an operate is refused nobody begins to terminate it (discard).
RefusedStaysSilent ==
  [][\A t \in 1..nops : ops[t].result = "refused" => ops'[t].sending <= ops[t].sending]_vars

\* With an operTimeout every accepted operate of enhanced security is concluded.
EventuallyTerminated ==
  \A t \in 1..MaxOps :
    t <= nops /\ ops[t].result = "accepted" /\ is_enhanced(ops[t].obj) /\ OperTimeout > 0
      ~> t <= nops /\ ops[t].sent = 1

\* "Another client holds it; its sequence is not this one's to end": a live
\* reservation is cleared only by the association that made it.
EndedByOwner ==
  [][\A o \in Obj :
       LiveSelection(o) /\ ~Selected(o)' =>
         \/ active[o].conn \in closing
         \/ req'[active[o].conn] # req[active[o].conn]]_vars
=============================================================================
