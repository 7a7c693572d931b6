--------------------------- MODULE ClientControl ---------------------------
(***************************************************************************)
(* A client controlling objects (client/control.rs): the control sequence  *)
(* of a handle, the requests of a select, an operate and a cancel, and the *)
(* table in which the reader task leaves what the server reports about     *)
(* them (client/controlreports.rs).                                        *)
(*                                                                         *)
(* The server is external.  It answers requests in order, sends the        *)
(* LastApplError of a refusal before the refusal, and ends an accepted     *)
(* enhanced operate with a CommandTermination when it pleases.             *)
(***************************************************************************)
EXTENDS Integers, Sequences

CONSTANTS
  CtlPlan,      \* how the application uses the client: `of' gives each handle its
                \* object and control model, `ops' what it calls, `shared' whether
                \* calls on one handle overlap, `drops' whether it drops calls
  Caller,       \* the tasks that make calls
  MaxCalls,     \* bound on the calls made
  CtlNums       \* control numbers there are: 2^8 in the code

VARIABLES
  plan,
  sequence,     \* handle -> its control number and whether a sequence is open
  cc,           \* task -> its call
  last,         \* <<object, service>> -> the last LastApplError reported for it
  waiters,      \* <<object, number>> -> the task awaiting that CommandTermination
  requests,     \* requests on the wire, in order
  replies,      \* responses and reports on the wire, in order
  owed,         \* operates the server still has to conclude
  calls         \* calls made so far

ctlVars == <<plan, sequence, cc, last, waiters, requests, replies, owed, calls>>

UNKNOWN == "unknown"
NONE == "none"
SELECT_FAILED == "select-failed"
Causes == {"interlocking", "time-limit-over"}

has_select(model) == model \in {"SboNormal", "SboEnhanced"}
is_enhanced(model) == model \in {"DirectEnhanced", "SboEnhanced"}

\* A call is idle, waits for the response to a request, waits for the termination of
\* its operate, or is over.  `said' and `ended' are what the server really decided.
Idle == [phase |-> "idle", handle |-> "", op |-> "", num |-> 0, id |-> 0, answer |-> <<>>,
         term |-> <<>>, result |-> <<>>, said |-> <<>>, ended |-> <<>>]

object(c) == plan.of[cc[c].handle].object
model_of(c) == plan.of[cc[c].handle].model

CtlInit ==
  /\ plan \in CtlPlan
  /\ sequence = [h \in DOMAIN plan.of |-> [ctl_num |-> 0, in_sequence |-> FALSE]]
  /\ cc = [c \in Caller |-> Idle]
  /\ last = <<>> /\ waiters = <<>>
  /\ requests = <<>> /\ replies = <<>> /\ owed = {} /\ calls = 0

(***************************************************************************)
(* The sequence of a handle.                                               *)
(***************************************************************************)
\* A bug: every sequence of a handle has the number of the first.
begin_sequence_Same(seq) == [seq EXCEPT !.in_sequence = TRUE]

begin_sequence(seq) ==
  IF seq.in_sequence THEN seq
  ELSE [ctl_num |-> (seq.ctl_num + 1) % CtlNums, in_sequence |-> TRUE]

end_sequence(seq) == [seq EXCEPT !.in_sequence = FALSE]

EndSequence(c) == sequence' = [sequence EXCEPT ![cc[c].handle] = end_sequence(@)]

(***************************************************************************)
(* The reports of the association.                                         *)
(***************************************************************************)
dropping(f, k) == [x \in (DOMAIN f) \ {k} |-> f[x]]
inserting(f, k, v) == [x \in (DOMAIN f) \cup {k} |-> IF x = k THEN v ELSE f[x]]

cause_for(obj, service, num) ==
  IF <<obj, service>> \in DOMAIN last /\ last[<<obj, service>>].num = num
  THEN last[<<obj, service>>].cause ELSE UNKNOWN

\* A call whose sender leaves the table without sending sees its channel close.
closed(calls_of, who) == [calls_of EXCEPT ![who].term = IF @ = <<>> THEN <<UNKNOWN>> ELSE @]

\* Registering replaces, and so drops, the sender another call left under the key.
await_termination(calls_of, key, c) ==
  /\ waiters' = inserting(waiters, key, c)
  /\ cc' = IF key \in DOMAIN waiters /\ waiters[key] # c
           THEN closed(calls_of, waiters[key]) ELSE calls_of

\* The guard of a call that ends removes whatever is under its key.
released(c) ==
  IF cc[c].phase \in {"Oper", "term"} /\ is_enhanced(model_of(c))
  THEN dropping(waiters, <<object(c), cc[c].num>>) ELSE waiters

(***************************************************************************)
(* The calls.                                                              *)
(***************************************************************************)
\* One request of a call, with the number of the sequence it opens or continues.
Ask(c, service, h, op, id) ==
  LET seq == begin_sequence(sequence[h])
      obj == plan.of[h].object
      model == plan.of[h].model
      new == [Idle EXCEPT !.phase = service, !.handle = h, !.op = op, !.num = seq.ctl_num, !.id = id]
  IN  /\ sequence' = [sequence EXCEPT ![h] = seq]
      /\ requests' = Append(requests, [call |-> c, id |-> id, object |-> obj, service |-> service,
                                       num |-> seq.ctl_num, enhanced |-> is_enhanced(model)])
      /\ IF service = "Oper" /\ is_enhanced(model)
         THEN await_termination([cc EXCEPT ![c] = new], <<obj, seq.ctl_num>>, c)
         ELSE cc' = [cc EXCEPT ![c] = new] /\ UNCHANGED waiters
      /\ UNCHANGED <<plan, last, replies, owed>>

\* The request a select makes under each model.
select_service(model) == IF model = "SboNormal" THEN "SBO" ELSE "SBOw"

Busy(h) == \E d \in Caller : cc[d].phase \notin {"idle", "done"} /\ cc[d].handle = h

Start(c, h, op) ==
  /\ cc[c].phase \in {"idle", "done"} /\ calls < MaxCalls
  /\ plan.shared \/ ~Busy(h)
  /\ calls' = calls + 1
  /\ LET model == plan.of[h].model
         first == CASE op = "cancel" -> "Cancel"
                    [] op = "select" \/ (op = "operate" /\ has_select(model)) -> select_service(model)
                    [] OTHER -> "Oper"
     IN  Ask(c, first, h, op, calls + 1)

Finish(c, result) ==
  /\ cc' = [cc EXCEPT ![c].phase = "done", ![c].result = <<result>>]
  /\ waiters' = released(c)

Failed(stage, cause) == [ok |-> FALSE, stage |-> stage, cause |-> cause]
Succeeded == [ok |-> TRUE, stage |-> "", cause |-> NONE]

stage_of(phase) ==
  CASE phase \in {"SBO", "SBOw"} -> "select" [] phase = "Oper" -> "operate"
    [] phase = "Cancel" -> "cancel" [] OTHER -> "termination"

\* A select is refused by an empty answer, or by a write error and its diagnosis.
do_select(c) ==
  /\ cc[c].phase \in {"SBO", "SBOw"} /\ cc[c].answer # <<>>
  /\ IF cc[c].answer[1] = "refused"
     THEN /\ EndSequence(c)
          /\ Finish(c, Failed("select", IF cc[c].phase = "SBO" THEN SELECT_FAILED
                                        ELSE cause_for(object(c), "SBOw", cc[c].num)))
          /\ UNCHANGED <<plan, last, requests, replies, owed>>
     ELSE IF cc[c].op = "operate" THEN Ask(c, "Oper", cc[c].handle, "operate", cc[c].id)
     ELSE Finish(c, Succeeded) /\ UNCHANGED <<plan, sequence, last, requests, replies, owed>>
  /\ UNCHANGED calls

\* The response to an operate ends the sequence; an enhanced one waits on.
do_operate(c) ==
  /\ cc[c].phase = "Oper" /\ cc[c].answer # <<>>
  /\ EndSequence(c)
  /\ IF cc[c].answer[1] = "refused"
     THEN Finish(c, Failed("operate", cause_for(object(c), "Oper", cc[c].num)))
     ELSE IF is_enhanced(model_of(c)) THEN cc' = [cc EXCEPT ![c].phase = "term"] /\ UNCHANGED waiters
     ELSE Finish(c, Succeeded)
  /\ UNCHANGED <<plan, last, requests, replies, owed, calls>>

cancel(c) ==
  /\ cc[c].phase = "Cancel" /\ cc[c].answer # <<>>
  /\ EndSequence(c)
  /\ Finish(c, IF cc[c].answer[1] = "refused" THEN Failed("cancel", cause_for(object(c), "Cancel", cc[c].num))
               ELSE Succeeded)
  /\ UNCHANGED <<plan, last, requests, replies, owed, calls>>

\* The termination arrives, or the channel closes, or the wait times out.
Terminated(c) ==
  /\ cc[c].phase = "term"
  /\ \/ /\ cc[c].term # <<>>
        /\ Finish(c, IF cc[c].term[1] = NONE THEN Succeeded ELSE Failed("termination", cc[c].term[1]))
     \/ cc[c].term = <<>> /\ Finish(c, Failed("termination", UNKNOWN))
  /\ UNCHANGED <<plan, sequence, last, requests, replies, owed, calls>>

\* A request that times out ends the call and its sequence.
RequestFails(c) ==
  /\ cc[c].phase \in {"SBO", "SBOw", "Oper", "Cancel"} /\ cc[c].answer = <<>>
  /\ EndSequence(c)
  /\ Finish(c, Failed(stage_of(cc[c].phase), UNKNOWN))
  /\ UNCHANGED <<plan, last, requests, replies, owed, calls>>

\* The application drops the call: the guard goes, the sequence stays open.
DropCall(c) ==
  /\ plan.drops /\ cc[c].phase \notin {"idle", "done"}
  /\ cc' = [cc EXCEPT ![c] = Idle]
  /\ waiters' = released(c)
  /\ UNCHANGED <<plan, sequence, last, requests, replies, owed, calls>>

(***************************************************************************)
(* The reader task: one message of the association.                        *)
(***************************************************************************)
handle(m) ==
  LET key == <<m.object, m.num>>
      for == IF m.kind = "termination" /\ key \in DOMAIN waiters THEN {waiters[key]} ELSE {}
  IN  /\ last' = IF m.cause = NONE THEN last
                 ELSE inserting(last, <<m.object, m.service>>, [num |-> m.num, cause |-> m.cause])
      /\ waiters' = IF for = {} THEN waiters ELSE dropping(waiters, key)
      /\ cc' = [c \in Caller |-> IF c \in for THEN [cc[c] EXCEPT !.term = <<m.cause>>] ELSE cc[c]]

Read ==
  /\ replies # <<>>
  /\ replies' = Tail(replies)
  /\ LET m == Head(replies)
     IN  IF m.kind = "response"
         THEN /\ cc' = [c \in Caller |-> IF cc[c].id = m.id /\ cc[c].phase = m.service
                                         THEN [cc[c] EXCEPT !.answer = <<m.cause>>] ELSE cc[c]]
              /\ UNCHANGED <<last, waiters>>
         ELSE handle(m)
  /\ UNCHANGED <<plan, sequence, requests, owed, calls>>

(***************************************************************************)
(* The server.                                                             *)
(***************************************************************************)
message(kind, r, cause) ==
  [kind |-> kind, id |-> r.id, object |-> r.object, service |-> r.service, num |-> r.num, cause |-> cause]

\* What the server decided reaches the call's ghost if the call is still that call.
note(r, field, what) ==
  cc' = [c \in Caller |-> IF cc[c].id = r.id /\ cc[c].phase # "idle" THEN [cc[c] EXCEPT ![field] = <<what>>]
                          ELSE cc[c]]

Serve ==
  /\ requests # <<>>
  /\ requests' = Tail(requests)
  /\ LET r == Head(requests)
     IN  \/ /\ replies' = Append(replies, message("response", r, "ok"))
            /\ owed' = IF r.service = "Oper" /\ r.enhanced THEN owed \cup {r} ELSE owed
            /\ note(r, "said", NONE)
         \/ \E cause \in Causes :
              /\ replies' = (IF r.service = "SBO" THEN replies ELSE Append(replies, message("error", r, cause)))
                            \o <<message("response", r, "refused")>>
              /\ note(r, "said", IF r.service = "SBO" THEN SELECT_FAILED ELSE cause)
              /\ UNCHANGED owed
  /\ UNCHANGED <<plan, sequence, last, waiters, calls>>

Conclude ==
  /\ \E r \in owed : \E cause \in Causes \cup {NONE} :
       /\ owed' = owed \ {r}
       /\ replies' = Append(replies, message("termination", r, cause))
       /\ note(r, "ended", cause)
  /\ UNCHANGED <<plan, sequence, last, waiters, requests, calls>>

CtlNext ==
  \/ \E c \in Caller :
       \/ \E h \in DOMAIN plan.of : \E op \in plan.ops : Start(c, h, op)
       \/ do_select(c) \/ do_operate(c) \/ cancel(c) \/ Terminated(c) \/ RequestFails(c) \/ DropCall(c)
  \/ Read \/ Serve \/ Conclude

(***************************************************************************)
(* Properties.                                                             *)
(***************************************************************************)
\* A call that reports a decision of the server reports the one on its own command: a
\* refusal with no cause but the one given for it, a termination with the cause the
\* command ended with, success only after its own command succeeded.  It holds where an
\* object has one handle and no call is dropped (controlreports.rs: the diagnosis and
\* the waiter are found by object and control number alone).
OutcomeIsOwn ==
  \A c \in Caller : cc[c].phase = "done" /\ ~plan.drops =>
    LET r == cc[c].result[1]
    IN  /\ r.ok => cc[c].said = <<NONE>> /\ (cc[c].op = "operate" /\ is_enhanced(model_of(c))
                                               => cc[c].ended = <<NONE>>)
        /\ ~r.ok /\ r.stage # "termination" => r.cause = UNKNOWN \/ cc[c].said = <<r.cause>>
        /\ ~r.ok /\ r.stage = "termination" => \/ cc[c].term = <<>> /\ r.cause = UNKNOWN
                                               \/ cc[c].ended = <<r.cause>>

\* A refused call has the cause the server gave: "the diagnosis is recorded by the time
\* that response is returned to the caller".  It may have been replaced by then, by that
\* of another call on the object.
RefusalExplained ==
  \A c \in Caller : cc[c].phase = "done" /\ cc[c].answer = <<"refused">> => cc[c].said = <<cc[c].result[1].cause>>

\* Every waiter in the table belongs to the call that registered it and has not ended,
\* so that a termination that comes late finds nobody (controlreports.rs
\* TerminationGuard).
WaitersAreLive ==
  \A key \in DOMAIN waiters : LET c == waiters[key] IN
    cc[c].phase \in {"Oper", "term"} /\ <<object(c), cc[c].num>> = key

\* What the table of reports and waiters promises the calls.
CallsAreTold == OutcomeIsOwn /\ WaitersAreLive
=============================================================================
