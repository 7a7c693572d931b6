----------------------------- MODULE ServerConn -----------------------------
(***************************************************************************)
(* One association on the server (mms/server_conn.rs): the serve loop, the *)
(* deferred requests it polls, the task that pumps unconfirmed PDUs, the   *)
(* writer they share, and the threads that post reports at any time.       *)
(*                                                                         *)
(* The writer is an asynchronous mutex that is granted in order of         *)
(* arrival: "writer" lists the futures that asked for it, the holder       *)
(* first.  A deferred request is a future of the serve task: it moves only *)
(* while the serve loop waits in its select, so neither asking for the     *)
(* writer nor being granted it runs the request any further.               *)
(***************************************************************************)
EXTENDS Naturals, Sequences, FiniteSets, SequencesExt

CONSTANTS
  Request, NoRequest, \* invoke ids of requests answered before the next is read
  Deferred,           \* invoke ids of deferred requests (ObtainFile)
  Pdu,                \* unconfirmed PDUs, each posted at most once
  QueueDepth,         \* UNCONFIRMED_QUEUE_DEPTH
  MayClose            \* whether the association is closed or lost

ASSUME IdAssumption == Request \cap Deferred = {} /\ NoRequest \notin Request
ASSUME DepthAssumption == QueueDepth \in Nat \ {0}
ASSUME CloseAssumption == MayClose \in BOOLEAN

VARIABLES
  client,  \* what the client has still to send
  inbox,   \* PDUs the reader task has read and the loop has not
  serve,   \* the serve loop: where it is, what it has to send, what to release
  held,    \* Held: in_request, before, after
  queue,   \* the channel to pump_unconfirmed
  pump,    \* the PDU pump_unconfirmed is sending, "idle" or "stopped"
  writer,  \* the futures at the writer's lock, the holder first
  dfr,     \* the run_deferred futures
  running, \* deferred requests that can be cancelled
  calls,   \* requests to the client that wait for its answer
  open,    \* the transport is up
  closer,  \* ServerConn::close or abort: "none", "waiting" or "done"
  wire,    \* what was written to the client
  origin,  \* how each unconfirmed PDU was posted, and for which request
  dropped  \* PDUs that were accepted and then did not fit the queue

loop  == <<serve, held>>
tasks == <<dfr, running, calls>>
ends  == <<client, inbox, open, closer>>
vars  == <<client, inbox, serve, held, queue, pump, writer, dfr, running, calls,
           open, closer, wire, origin, dropped>>

Msg(t, i) == [t |-> t, id |-> i]

\* What the client may send; a cancel follows its request, an answer the call.
ClientMsgs ==
  [t : {"request"}, id : Request] \cup [t : {"deferred", "cancel", "answer"}, id : Deferred]
    \cup {Msg("conclude", NoRequest)}

Answers == {"response", "cancelled"}
WireItem ==
  [t : Answers, id : Request \cup Deferred] \cup [t : {"report"}, id : Pdu]
    \cup [t : {"call", "cancelOk", "cancelError", "partial"}, id : Deferred]
    \cup {Msg("concludeOk", NoRequest)}

DeferredState ==
  [st : {"none", "pushed", "calling", "waiting", "answered", "answering", "done", "gone"},
   cancel : BOOLEAN, res : Answers]

Without(s, x) == SelectSeq(s, LAMBDA y : y # x)

Holds(f) == writer # <<>> /\ Head(writer) = f

Written(m) == m \in Range(wire)

Idle == [pc |-> "select", req |-> NoRequest, out |-> <<>>, after |-> <<>>]

Init ==
  /\ client = ClientMsgs
  /\ inbox = <<>>
  /\ serve = Idle
  /\ held = [in_request |-> FALSE, before |-> <<>>, after |-> <<>>]
  /\ queue = <<>> /\ pump = "idle" /\ writer = <<>>
  /\ dfr = [d \in Deferred |-> [st |-> "none", cancel |-> FALSE, res |-> "response"]]
  /\ running = {} /\ calls = {}
  /\ open = TRUE /\ closer = "none"
  /\ wire = <<>>
  /\ origin = [p \in Pdu |-> [how |-> "unposted", req |-> NoRequest, nr |-> 0]]
  /\ dropped = {}

----------------------------------------------------------------------------
(* The client and the transport *)

ClientSend(m) ==
  /\ open
  /\ m \in client
  /\ m.t = "cancel" => Msg("deferred", m.id) \notin client
  /\ m.t = "answer" => Written(Msg("call", m.id))
  /\ client' = client \ {m}
  /\ inbox' = Append(inbox, m)
  /\ UNCHANGED <<loop, tasks, queue, pump, writer, open, closer, wire, origin, dropped>>

\* The transport fails, or the client closes it.
ConnectionLost ==
  /\ MayClose /\ open
  /\ open' = FALSE
  /\ UNCHANGED <<loop, tasks, client, inbox, queue, pump, writer, closer, wire, origin, dropped>>

----------------------------------------------------------------------------
(* The serve loop: handle_pdu on the next PDU read *)

Reads(t) == serve.pc = "select" /\ inbox # <<>> /\ Head(inbox).t = t

ReadRequest ==
  /\ Reads("request")
  /\ inbox' = Tail(inbox)
  /\ serve' = [serve EXCEPT !.pc = "handling", !.req = Head(inbox).id]
  /\ held' = [held EXCEPT !.in_request = TRUE]
  /\ UNCHANGED <<tasks, client, queue, pump, writer, open, closer, wire, origin, dropped>>

ReadDeferred ==
  /\ Reads("deferred")
  /\ inbox' = Tail(inbox)
  /\ dfr' = [dfr EXCEPT ![Head(inbox).id].st = "pushed"]
  /\ UNCHANGED <<loop, running, calls, client, queue, pump, writer, open, closer, wire,
                 origin, dropped>>

\* handle_cancel: the request is told at once, the client through the writer.
ReadCancel ==
  LET d == Head(inbox).id
      agreed == d \in running
  IN  /\ Reads("cancel")
      /\ inbox' = Tail(inbox)
      /\ running' = running \ {d}
      /\ dfr' = IF agreed THEN [dfr EXCEPT ![d].cancel = TRUE] ELSE dfr
      /\ serve' = [serve EXCEPT !.pc = "send",
                     !.out = <<Msg(IF agreed THEN "cancelOk" ELSE "cancelError", d)>>]
      /\ UNCHANGED <<held, calls, client, queue, pump, writer, open, closer, wire, origin,
                     dropped>>

deliver_call ==
  LET d == Head(inbox).id
  IN  /\ Reads("answer")
      /\ inbox' = Tail(inbox)
      /\ calls' = calls \ {d}
      /\ dfr' = IF d \in calls /\ dfr[d].st = "waiting"
                THEN [dfr EXCEPT ![d].st = "answered"] ELSE dfr
      /\ UNCHANGED <<loop, running, client, queue, pump, writer, open, closer, wire, origin,
                     dropped>>

ReadConclude ==
  /\ Reads("conclude")
  /\ inbox' = Tail(inbox)
  /\ serve' = [serve EXCEPT !.pc = "send", !.out = <<Msg("concludeOk", NoRequest)>>]
  /\ UNCHANGED <<held, tasks, client, queue, pump, writer, open, closer, wire, origin, dropped>>

\* The loop ends: the deferred futures are dropped where they stand, which
\* takes them off the writer, and no answer to a call is awaited any more.
ServeEnds(s, w) ==
  /\ serve' = [s EXCEPT !.pc = "ended", !.out = <<>>, !.after = <<>>]
  /\ writer' = SelectSeq(w, LAMBDA f : f \notin Deferred)
  /\ dfr' = [d \in Deferred |->
               IF dfr[d].st \in {"none", "done"} THEN dfr[d] ELSE [dfr[d] EXCEPT !.st = "gone"]]
  /\ calls' = {}

\* The reader's error comes behind the PDUs it had read.
ReadEnd ==
  /\ serve.pc = "select" /\ ~open /\ inbox = <<>>
  /\ ServeEnds(serve, writer)
  /\ UNCHANGED <<held, running, ends, queue, pump, wire, origin, dropped>>

----------------------------------------------------------------------------
(* handle_confirmed, and posting unconfirmed PDUs *)

\* Accepting a PDU numbers it, to observe the order PDUs are accepted in.
Accepted == {p \in Pdu : origin[p].how \in {"before", "after", "queued"}}
Note(p, how, r) ==
  origin' = [origin EXCEPT ![p] = [how |-> how, req |-> r, nr |-> Cardinality(Accepted) + 1]]

hold(p, first) ==
  /\ held' = IF first THEN [held EXCEPT !.before = Append(@, p)]
             ELSE [held EXCEPT !.after = Append(@, p)]
  /\ Note(p, IF first THEN "before" ELSE "after", serve.req)

Unposted(p) == origin[p].how = "unposted"

\* send_unconfirmed and send_unconfirmed_first while a request is handled, by
\* its handler or by any other thread.
PostHeld(p, first) ==
  /\ Unposted(p) /\ held.in_request
  /\ hold(p, first)
  /\ UNCHANGED <<serve, tasks, ends, queue, pump, writer, wire, dropped>>

\* The same outside a request: the PDU is queued, or refused when the queue is
\* full or its pump is gone.  A thread that concludes an operate whose handler
\* has returned (defer_termination) posts for the request "r".
PostQueued(p, r) ==
  LET fits == Len(queue) < QueueDepth /\ pump # "stopped"
  IN  /\ Unposted(p) /\ ~held.in_request
      /\ queue' = IF fits THEN Append(queue, p) ELSE queue
      /\ Note(p, IF fits THEN "queued" ELSE "refused", r)
      /\ UNCHANGED <<loop, tasks, ends, pump, writer, wire, dropped>>

\* Mutant of HandlerReturns: a handler without a result leaves no response.
HandlerReturns_NoResponse ==
  /\ serve.pc = "handling"
  /\ held' = [in_request |-> FALSE, before |-> <<>>, after |-> <<>>]
  /\ serve' = [serve EXCEPT !.pc = "release", !.after = held.after]
  /\ UNCHANGED <<tasks, ends, queue, pump, writer, wire, origin, dropped>>

HandlerReturns ==
  LET first == [i \in DOMAIN held.before |-> Msg("report", held.before[i])]
  IN  /\ serve.pc = "handling"
      /\ held' = [in_request |-> FALSE, before |-> <<>>, after |-> <<>>]
      /\ serve' = [serve EXCEPT !.pc = "send", !.after = held.after,
                     !.out = Append(first, Msg("response", serve.req))]
      /\ UNCHANGED <<tasks, ends, queue, pump, writer, wire, origin, dropped>>

\* The loop asks for the writer.
AskWriter ==
  /\ serve.pc = "send"
  /\ serve' = [serve EXCEPT !.pc = "sending"]
  /\ writer' = Append(writer, "serve")
  /\ UNCHANGED <<held, tasks, ends, queue, pump, wire, origin, dropped>>

\* It writes the next PDU; a failed write ends the loop, and so does the
\* response to a conclude.
ServeSend ==
  LET m    == Head(serve.out)
      rest == Tail(serve.out)
      ending == ~open \/ m.t = "concludeOk"
  IN  /\ serve.pc = "sending" /\ Holds("serve")
      /\ wire' = IF open THEN Append(wire, m) ELSE wire
      /\ IF ending THEN ServeEnds(serve, Tail(writer))
         ELSE /\ writer' = Tail(writer)
              /\ serve' = [serve EXCEPT !.out = rest,
                             !.pc = IF rest = <<>> THEN "release" ELSE "send"]
              /\ UNCHANGED <<dfr, calls>>
      /\ UNCHANGED <<held, running, ends, queue, pump, origin, dropped>>

\* What was held follows the response into the queue, where there is room.
Release ==
  LET p    == Head(serve.after)
      fits == Len(queue) < QueueDepth /\ pump # "stopped"
  IN  /\ serve.pc = "release"
      /\ IF serve.after = <<>>
         THEN serve' = Idle /\ UNCHANGED <<queue, dropped>>
         ELSE /\ serve' = [serve EXCEPT !.after = Tail(@)]
              /\ queue' = IF fits THEN Append(queue, p) ELSE queue
              /\ dropped' = IF fits THEN dropped ELSE dropped \cup {p}
      /\ UNCHANGED <<held, tasks, ends, pump, writer, wire, origin>>

----------------------------------------------------------------------------
(* pump_unconfirmed *)

PumpTake ==
  /\ pump = "idle" /\ queue # <<>>
  /\ pump' = Head(queue)
  /\ queue' = Tail(queue)
  /\ writer' = Append(writer, "pump")
  /\ UNCHANGED <<loop, tasks, ends, wire, origin, dropped>>

\* Mutant of PumpSend: the task ends after one PDU.
PumpSend_Once ==
  /\ Holds("pump")
  /\ writer' = Tail(writer)
  /\ wire' = Append(wire, Msg("report", pump))
  /\ pump' = "stopped"
  /\ UNCHANGED <<loop, tasks, ends, queue, origin, dropped>>

\* Mutant of PumpSend: the writer is not given back.
PumpSend_KeepsWriter ==
  /\ Holds("pump") /\ pump \in Pdu
  /\ wire' = Append(wire, Msg("report", pump))
  /\ pump' = "idle"
  /\ UNCHANGED <<loop, tasks, ends, queue, writer, origin, dropped>>

PumpSend ==
  /\ Holds("pump")
  /\ writer' = Tail(writer)
  /\ wire' = IF open THEN Append(wire, Msg("report", pump)) ELSE wire
  /\ pump' = IF open THEN "idle" ELSE "stopped"
  /\ queue' = IF open THEN queue ELSE <<>>
  /\ UNCHANGED <<loop, tasks, ends, origin, dropped>>

----------------------------------------------------------------------------
(* run_deferred.  It is polled only from the loop's select. *)

Polled(d, sts) == serve.pc = "select" /\ dfr[d].st \in sts

\* The first poll makes the request cancellable and runs it up to its first
\* call, or to its end when there is nothing to fetch.
PollStart(d) ==
  /\ Polled(d, {"pushed"})
  /\ \/ /\ dfr' = [dfr EXCEPT ![d].st = "calling"]
        /\ running' = running \cup {d}
        /\ calls' = calls \cup {d}
     \/ /\ dfr' = [dfr EXCEPT ![d].st = "answering"]
        /\ UNCHANGED <<running, calls>>
  /\ writer' = Append(writer, d)
  /\ UNCHANGED <<loop, ends, queue, pump, wire, origin, dropped>>

PollCallSent(d) ==
  /\ Polled(d, {"calling"}) /\ Holds(d)
  /\ open
  /\ writer' = Tail(writer)
  /\ wire' = Append(wire, Msg("call", d))
  /\ dfr' = [dfr EXCEPT ![d].st = "waiting"]
  /\ UNCHANGED <<loop, running, calls, ends, queue, pump, origin, dropped>>

\* The handler's future is gone, from wherever it stood: one that was writing
\* leaves part of its PDU behind.  The request asks for the writer anew, to
\* send its outcome.
Conclude(d, res) ==
  LET writing == Holds(d)
  IN  /\ running' = running \ {d}
      /\ dfr' = [dfr EXCEPT ![d].st = "answering", ![d].res = res]
      /\ writer' = Append(Without(writer, d), d)
      /\ \/ UNCHANGED wire
         \/ writing /\ open /\ wire' = Append(wire, Msg("partial", d))
      /\ UNCHANGED <<loop, ends, queue, pump, origin, dropped>>

\* The handler returns: with the client's answer, or because a call failed.
PollReturn(d) ==
  /\ \/ Polled(d, {"answered"})
     \/ Polled(d, {"calling"}) /\ Holds(d) /\ ~open
  /\ calls' = calls \ {d}
  /\ Conclude(d, "response")

\* OBTAIN_TIMEOUT passes; the entry of the unanswered call is left behind.
PollTimeout(d) ==
  /\ Polled(d, {"calling", "waiting"})
  /\ UNCHANGED calls
  /\ Conclude(d, "response")

\* The cancel is seen; select! takes either branch when both are ready.
PollCancelled(d) ==
  /\ Polled(d, {"calling", "waiting", "answered"})
  /\ dfr[d].cancel
  /\ UNCHANGED calls
  /\ Conclude(d, "cancelled")

PollAnswerSent(d) ==
  /\ Polled(d, {"answering"}) /\ Holds(d)
  /\ writer' = Tail(writer)
  /\ wire' = IF open THEN Append(wire, Msg(dfr[d].res, d)) ELSE wire
  /\ dfr' = [dfr EXCEPT ![d].st = "done"]
  /\ UNCHANGED <<loop, running, calls, ends, queue, pump, origin, dropped>>

Poll(d) ==
  PollStart(d) \/ PollCallSent(d) \/ PollReturn(d) \/ PollTimeout(d) \/ PollCancelled(d)
    \/ PollAnswerSent(d)

----------------------------------------------------------------------------
(* close and abort, from Server::close, Server::abort or the loop's end *)

CloseBegins ==
  /\ closer = "none"
  /\ MayClose \/ serve.pc = "ended"
  /\ closer' = "waiting"
  /\ pump' = "stopped" /\ queue' = <<>>
  /\ writer' = Append(Without(writer, "pump"), "closer")
  /\ UNCHANGED <<loop, tasks, client, inbox, open, wire, origin, dropped>>

CloseEnds ==
  /\ Holds("closer")
  /\ closer' = "done"
  /\ open' = FALSE
  /\ writer' = Tail(writer)
  /\ UNCHANGED <<loop, tasks, client, inbox, queue, pump, wire, origin, dropped>>

ServeStep ==
  \/ ReadRequest \/ ReadDeferred \/ ReadCancel \/ deliver_call \/ ReadConclude \/ ReadEnd
  \/ HandlerReturns \/ AskWriter \/ ServeSend \/ Release

\* The requests a thread may be concluding while the loop answers them.
InAnswer == IF serve.pc \in {"send", "sending"} THEN {serve.req} ELSE {}

Next ==
  \/ \E m \in client : ClientSend(m)
  \/ ConnectionLost
  \/ ServeStep
  \/ \E p \in Pdu : \/ \E first \in BOOLEAN : PostHeld(p, first)
                     \/ \E r \in InAnswer \cup {NoRequest} : PostQueued(p, r)
  \/ PumpTake \/ PumpSend
  \/ \E d \in Deferred : Poll(d)
  \/ CloseBegins \/ CloseEnds

Spec == Init /\ [][Next]_vars

\* Each task runs when it can and the transport takes what is written.  The
\* loop's select picks among its ready branches at random, so a deferred
\* request that is ready again and again is polled.
Fairness ==
  /\ WF_vars(ServeStep)
  /\ WF_vars(PumpTake) /\ WF_vars(PumpSend) /\ WF_vars(CloseEnds)
  /\ \A d \in Deferred : SF_vars(Poll(d))

FairSpec == Spec /\ Fairness

----------------------------------------------------------------------------
(* Properties *)

\* Every variable has its type.
TypeOK ==
  /\ client \subseteq ClientMsgs
  /\ inbox \in Seq(ClientMsgs)
  /\ serve \in [pc : {"select", "handling", "send", "sending", "release", "ended"},
                req : Request \cup {NoRequest}, out : Seq(WireItem), after : Seq(Pdu)]
  /\ held \in [in_request : BOOLEAN, before : Seq(Pdu), after : Seq(Pdu)]
  /\ queue \in Seq(Pdu)
  /\ pump \in Pdu \cup {"idle", "stopped"}
  /\ writer \in Seq({"serve", "pump", "closer"} \cup Deferred)
  /\ dfr \in [Deferred -> DeferredState]
  /\ running \subseteq Deferred /\ calls \subseteq Deferred
  /\ open \in BOOLEAN /\ closer \in {"none", "waiting", "done"}
  /\ wire \in Seq(WireItem)
  /\ origin \in [Pdu -> [how : {"unposted", "before", "after", "queued", "refused"},
                        req : Request \cup {NoRequest}, nr : Nat]]
  /\ dropped \subseteq Pdu

\* m was written, and n was not written before it.
Precedes(m, n) ==
  \E i \in DOMAIN wire : wire[i] = m /\ \A j \in 1..i : wire[j] # n

AnswersTo(i) == {j \in DOMAIN wire : wire[j].t \in Answers /\ wire[j].id = i}

\* No request is answered twice, whatever its cancel, its timeout and the end
\* of the association do, and while the transport is up the loop does not
\* turn to the next PDU before the last request was answered.
AnsweredOnce ==
  /\ \A i \in Request \cup Deferred : Cardinality(AnswersTo(i)) <= 1
  /\ serve.pc = "select" /\ open =>
       \A r \in Request : \/ Msg("request", r) \in client \cup Range(inbox)
                          \/ AnswersTo(r) # {}

Ending == ~open \/ closer # "none" \/ serve.pc = "ended"

\* A request that is read is answered unless the association ends; only a
\* deferred request that was granted the writer stands in its way.
AnsweredOrBehindDeferred ==
  \A r \in Request :
    serve.req = r ~> (AnswersTo(r) # {} \/ Ending \/ \E d \in Deferred : Holds(d))

\* Every PDU that was accepted and not dropped reaches the client, under the
\* same provisos.
AcceptedIsWritten ==
  \A p \in Pdu : p \in Accepted ~> (\/ p \in dropped \/ Written(Msg("report", p)) \/ Ending
                                     \/ \E d \in Deferred : Holds(d))

----------------------------------------------------------------------------
(* What the comments of the code say *)

\* "the report is dropped rather than stalling the server ... Reporting it
\* lets a buffered RCB set BufOvfl": a PDU is dropped only if posting it fails.
NoSilentDrop == dropped = {}

\* "a CommandTermination follows the operate it terminates".
TerminationFollowsResponse ==
  \A p \in Pdu : LET report == Msg("report", p)
                     response == Msg("response", origin[p].req)
                 IN  origin[p].how \in {"after", "queued"} /\ origin[p].req # NoRequest
                       /\ Written(report) => Precedes(response, report)

\* "Queued behind the response, in order with any earlier reports."
ReportsInOrder ==
  \A p, q \in Pdu :
    /\ {origin[p].how, origin[q].how} \subseteq {"after", "queued"}
    /\ origin[p].nr < origin[q].nr
    /\ Written(Msg("report", p)) /\ Written(Msg("report", q))
    => Precedes(Msg("report", p), Msg("report", q))

\* "The client may cancel it (MMS Cancel), in which case it is told the
\* request was cancelled."
AgreedIsCancelled ==
  \A d \in Deferred : ~(Written(Msg("cancelOk", d)) /\ Written(Msg("response", d)))

\* The server answers the requests it reads while a deferred one is under way,
\* unless the association ends.
RequestsAnswered ==
  \A r \in Request : serve.req = r ~> (AnswersTo(r) # {} \/ Ending)
=============================================================================
