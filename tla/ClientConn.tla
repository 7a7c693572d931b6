----------------------------- MODULE ClientConn -----------------------------
(* The MMS client association (mms/conn.rs): tasks that issue confirmed       *)
(* requests and cancels, the reader task that matches answers to them, and    *)
(* the ways the association ends.  Each step is what happens between two      *)
(* points where another thread may run: a lock that is given back, or an      *)
(* await.  The peer and the transport are external: answers come in any       *)
(* order, late or never, and the peer may go at any time.                     *)
EXTENDS Integers, Sequences, FiniteSets, Functions

CONSTANTS
  Call,           \* the confirmed requests, each issued at most once
  Started,        \* those issued with `start`; the others with `call`
  Attempt,        \* the cancels, each issued at most once
  NoCall,         \* no request
  InvokeIds,      \* the number of invoke identifiers, 2^32
  MayDrop         \* whether the Conn may be dropped

ASSUME CallAssumption ==
  /\ Started \subseteq Call
  /\ NoCall \notin Call
  /\ MayDrop \in BOOLEAN

\* Invoke identifiers do not repeat within the requests of a behaviour.
ASSUME InvokeIdsAssumption ==
  /\ InvokeIds \in Nat /\ InvokeIds > 1
  /\ IsFiniteSet(Call)
  /\ Cardinality(Call) < InvokeIds

VARIABLES
  life,           \* Lifecycle: the state, and the cause that ended the association
  done,           \* the watch channel that `closed` waits for
  next_id,        \* the next invoke identifier
  pending,        \* the response slots: invoke identifier to request
  cancels,        \* the cancel slots: invoke identifier to cancel
  call,           \* each request: its progress, and the value in its channel
  attempt,        \* each cancel, likewise
  reader,         \* the reader task: reading, at a step of fail_all, or gone
  closer,         \* the task in `close` or `abort`
  shut,           \* the write half has been shut down
  asked,          \* the peer: requests it has read and not answered
  toCancel,       \* the peer: cancels it has read and not answered
  inbox,          \* PDUs on their way to the reader
  gone            \* the peer has ended the transport

vars == <<life, done, next_id, pending, cancels, call, attempt, reader, closer,
          shut, asked, toCancel, inbox, gone>>
local == <<life, done, next_id, reader, closer, shut>>
peer  == <<asked, toCancel, inbox, gone>>

-----------------------------------------------------------------------------
Id == 0 .. InvokeIds - 1
Causes == {"closed", "aborted", "lost"}
Lifecycle == [state : {"connected", "closing", "closed"}, close_err : Causes \cup {"none"}]

\* A response says which request it answers; an error or a cause does not.
Value == [kind : {"response", "error"}, of : Call]
         \cup [kind : Causes \cup {"agreed", "refused"}, of : {NoCall}]
Empty == [kind |-> "empty", of |-> NoCall]
Plain(kind) == [kind |-> kind, of |-> NoCall]

Outcomes == {"none", "response", "error", "unsent", "timeout", "dropped"} \cup Causes
Outstanding ==
  [pc : {"idle", "checked", "registered", "waiting", "over"}, id : Id,
   rx : Value \cup {Empty}, result : Outcomes, of : Call \cup {NoCall}]
CancelCall ==
  [pc : {"idle", "checked", "registered", "waiting", "expired", "over"}, id : Id,
   rx : Value \cup {Empty},
   result : {"none", "agreed", "refused", "already", "unsent", "timeout"} \cup Causes]

\* What the reader tells apart.  A confirmed error and a reject end a request alike.
Pdu == [kind : {"response", "error"}, id : Id, of : Call]
       \cup [kind : {"agreed", "refused"}, id : Id, of : {NoCall}]

Init ==
  /\ life = [state |-> "connected", close_err |-> "none"]
  /\ done = FALSE
  /\ next_id = 1
  /\ pending = << >>
  /\ cancels = << >>
  /\ call = [c \in Call |-> [pc |-> "idle", id |-> 0, rx |-> Empty, result |-> "none", of |-> NoCall]]
  /\ attempt = [k \in Attempt |-> [pc |-> "idle", id |-> 0, rx |-> Empty, result |-> "none"]]
  /\ reader = "reading"
  /\ closer = "idle"
  /\ shut = FALSE
  /\ asked = {}
  /\ toCancel = {}
  /\ inbox = << >>
  /\ gone = FALSE

-----------------------------------------------------------------------------
\* The error a request on an association that is not up gets, "none" if it is up.
closed_error ==
  IF life.state = "connected" THEN "none"
  ELSE IF life.close_err # "none" THEN life.close_err ELSE "closed"

With(f, id, x) == [i \in DOMAIN f \cup {id} |-> IF i = id THEN x ELSE f[i]]
Without(f, id) == Restrict(f, DOMAIN f \ {id})

\* oneshot::Sender::send: lost when the receiver has been dropped.
Received(r, v) == IF r.pc = "over" THEN r ELSE [r EXCEPT !.rx = v]

\* A send fails once the write half is shut down and may fail, or seem to
\* succeed, once the peer is gone.
MaySend == ~shut
MayFail == shut \/ gone

-----------------------------------------------------------------------------
(* Confirmed requests: Shared::start, Outstanding::wait, Conn::call           *)

\* `start` looks at the state and takes an invoke identifier.
Check(c) ==
  /\ reader # "aborted"
  /\ call[c].pc = "idle"
  /\ IF closed_error = "none"
     THEN /\ call' = [call EXCEPT ![c].pc = "checked", ![c].id = next_id]
          /\ next_id' = (next_id + 1) % InvokeIds
     ELSE /\ call' = [call EXCEPT ![c].pc = "over", ![c].result = closed_error]
          /\ UNCHANGED next_id
  /\ UNCHANGED <<life, done, pending, cancels, attempt, reader, closer, shut, peer>>

\* `start` registers the response slot.
Register(c) ==
  /\ call[c].pc = "checked"
  /\ pending' = With(pending, call[c].id, c)
  /\ call' = [call EXCEPT ![c].pc = "registered"]
  /\ UNCHANGED <<local, cancels, attempt, peer>>

\* `start` has the writer and sends the request, or takes the slot back.
Send(c) ==
  /\ call[c].pc = "registered"
  /\ \/ /\ MaySend
        /\ call' = [call EXCEPT ![c].pc = "waiting"]
        /\ asked' = IF gone THEN asked ELSE asked \cup {<<call[c].id, c>>}
        /\ UNCHANGED pending
     \/ /\ MayFail
        /\ call' = [call EXCEPT ![c].pc = "over", ![c].result = "unsent"]
        /\ pending' = Without(pending, call[c].id)
        /\ UNCHANGED asked
  /\ UNCHANGED <<local, cancels, attempt, toCancel, inbox, gone>>

\* The caller drops the future of `start` while it waits for the writer.
DropStart(c) ==
  /\ call[c].pc = "registered"
  /\ call' = [call EXCEPT ![c].pc = "over", ![c].result = "dropped"]
  /\ UNCHANGED <<local, pending, cancels, attempt, peer>>

\* `wait` returns the value in the channel, or finds the sender dropped without one.
Wait(c) ==
  /\ call[c].pc = "waiting"
  /\ call[c].rx # Empty \/ c \notin Range(pending)
  /\ call' = [call EXCEPT ![c].pc = "over", ![c].of = call[c].rx.of,
                          ![c].result = IF call[c].rx # Empty THEN call[c].rx.kind ELSE "closed"]
  /\ UNCHANGED <<local, pending, cancels, attempt, peer>>

\* Mutant of Timeout: the requests that `start` issued are the bounded ones.
Timeout_Started(c) ==
  /\ c \in Started
  /\ call[c].pc = "waiting"
  /\ call[c].rx = Empty
  /\ call' = [call EXCEPT ![c].pc = "over", ![c].result = "timeout"]
  /\ UNCHANGED <<local, pending, cancels, attempt, peer>>

\* The request timeout of `call` drops the future of `wait`.  `wait` has taken
\* the receiver out of the Outstanding, whose drop then leaves the slot alone.
Timeout(c) ==
  /\ c \notin Started
  /\ call[c].pc = "waiting"
  /\ call[c].rx = Empty
  /\ call' = [call EXCEPT ![c].pc = "over", ![c].result = "timeout"]
  /\ UNCHANGED <<local, pending, cancels, attempt, peer>>

\* An Outstanding dropped without waiting releases its slot.
DropOutstanding(c) ==
  /\ c \in Started
  /\ call[c].pc = "waiting"
  /\ call' = [call EXCEPT ![c].pc = "over", ![c].result = "dropped"]
  /\ pending' = Without(pending, call[c].id)
  /\ UNCHANGED <<local, cancels, attempt, peer>>

-----------------------------------------------------------------------------
(* Cancel                                                                     *)

\* `cancel` of a request that has been sent looks at the state.
CancelCheck(k, c) ==
  /\ attempt[k].pc = "idle"
  /\ call[c].pc = "waiting"
  /\ attempt' = [attempt EXCEPT ![k] =
       IF closed_error = "none" THEN [@ EXCEPT !.pc = "checked", !.id = call[c].id]
       ELSE [@ EXCEPT !.pc = "over", !.result = closed_error]]
  /\ UNCHANGED <<local, pending, cancels, call, peer>>

\* One cancel of a request at a time.
CancelRegister(k) ==
  /\ attempt[k].pc = "checked"
  /\ IF attempt[k].id \in DOMAIN cancels
     THEN /\ attempt' = [attempt EXCEPT ![k].pc = "over", ![k].result = "already"]
          /\ UNCHANGED cancels
     ELSE /\ attempt' = [attempt EXCEPT ![k].pc = "registered"]
          /\ cancels' = With(cancels, attempt[k].id, k)
  /\ UNCHANGED <<local, pending, call, peer>>

CancelSend(k) ==
  /\ attempt[k].pc = "registered"
  /\ \/ /\ MaySend
        /\ attempt' = [attempt EXCEPT ![k].pc = "waiting"]
        /\ toCancel' = IF gone THEN toCancel ELSE toCancel \cup {k}
        /\ UNCHANGED cancels
     \/ /\ MayFail
        /\ attempt' = [attempt EXCEPT ![k].pc = "over", ![k].result = "unsent"]
        /\ cancels' = Without(cancels, attempt[k].id)
        /\ UNCHANGED toCancel
  /\ UNCHANGED <<local, pending, call, asked, inbox, gone>>

\* Another cancel may have dropped this one's sender.
CancelWait(k) ==
  /\ attempt[k].pc = "waiting"
  /\ attempt[k].rx # Empty \/ k \notin Range(cancels)
  /\ attempt' = [attempt EXCEPT ![k].pc = "over",
                   ![k].result = IF attempt[k].rx # Empty THEN attempt[k].rx.kind ELSE "closed"]
  /\ UNCHANGED <<local, pending, cancels, call, peer>>

\* The request timeout ends the wait; the slot is taken back a step later.
CancelTimeout(k) ==
  /\ attempt[k].pc = "waiting"
  /\ attempt[k].rx = Empty
  /\ attempt' = [attempt EXCEPT ![k].pc = "expired"]
  /\ UNCHANGED <<local, pending, cancels, call, peer>>

CancelRemove(k) ==
  /\ attempt[k].pc = "expired"
  /\ attempt' = [attempt EXCEPT ![k].pc = "over", ![k].result = "timeout"]
  /\ cancels' = Without(cancels, attempt[k].id)
  /\ UNCHANGED <<local, pending, call, peer>>

-----------------------------------------------------------------------------
(* The reader task: read_loop, dispatch, fail_all                             *)

\* Mutant of deliver: responses are taken to come in the order of the requests.
deliver_Oldest(m) ==
  /\ IF pending # << >>
     THEN LET id == CHOOSE i \in DOMAIN pending : \A j \in DOMAIN pending : i <= j
          IN  /\ call' = [call EXCEPT ![pending[id]] = Received(@, [kind |-> m.kind, of |-> m.of])]
              /\ pending' = Without(pending, id)
     ELSE UNCHANGED <<call, pending>>
  /\ UNCHANGED <<cancels, attempt>>

\* Hands a response, error or reject to the request that owns the slot.
deliver(m) ==
  /\ IF m.id \in DOMAIN pending
     THEN /\ call' = [call EXCEPT ![pending[m.id]] = Received(@, [kind |-> m.kind, of |-> m.of])]
          /\ pending' = Without(pending, m.id)
     ELSE UNCHANGED <<call, pending>>
  /\ UNCHANGED <<cancels, attempt>>

\* Hands the answer of a cancel to the cancel that waits for it.
deliver_cancel(m) ==
  /\ IF m.id \in DOMAIN cancels
     THEN /\ attempt' = [attempt EXCEPT ![cancels[m.id]] =
               IF @.pc = "expired" THEN @ ELSE Received(@, Plain(m.kind))]
          /\ cancels' = Without(cancels, m.id)
     ELSE UNCHANGED <<attempt, cancels>>
  /\ UNCHANGED <<call, pending>>

dispatch ==
  /\ reader = "reading"
  /\ inbox # << >>
  /\ LET m == Head(inbox)
     IN  IF m.kind \in {"response", "error"} THEN deliver(m) ELSE deliver_cancel(m)
  /\ inbox' = Tail(inbox)
  /\ UNCHANGED <<local, asked, toCancel, gone>>

\* Mutant of FailLife: the last cause wins.
FailLife_LastCause == life' = [state |-> "closed", close_err |-> "lost"]

\* fail_all records the cause, unless `close` or `abort` has recorded its own.
FailLife ==
  life' = [state |-> "closed",
           close_err |-> IF life.state = "connected" THEN "lost" ELSE life.close_err]

\* The reader meets the end of the transport or the peer's abort and begins fail_all.
ReadEnd ==
  /\ reader = "reading"
  /\ inbox = << >>
  /\ gone
  /\ FailLife
  /\ reader' = "drain_pending"
  /\ UNCHANGED <<done, next_id, pending, cancels, call, attempt, closer, shut, peer>>

\* fail_all fails the requests that have a slot.
DrainPending ==
  /\ reader = "drain_pending"
  /\ call' = [c \in Call |-> IF c \in Range(pending)
                             THEN Received(call[c], Plain(life.close_err)) ELSE call[c]]
  /\ pending' = << >>
  /\ reader' = "drain_cancels"
  /\ UNCHANGED <<life, done, next_id, cancels, attempt, closer, shut, peer>>

\* fail_all fails the cancels that have a slot, then tells `closed`.
DrainCancels ==
  /\ reader = "drain_cancels"
  /\ attempt' = [k \in Attempt |-> IF k \in Range(cancels) /\ attempt[k].pc # "expired"
                                   THEN Received(attempt[k], Plain(life.close_err))
                                   ELSE attempt[k]]
  /\ cancels' = << >>
  /\ reader' = "drained"
  /\ UNCHANGED <<life, done, next_id, pending, call, closer, shut, peer>>

Done ==
  /\ reader = "drained"
  /\ done' = TRUE
  /\ reader' = "ended"
  /\ UNCHANGED <<life, next_id, pending, cancels, call, attempt, closer, shut, peer>>

-----------------------------------------------------------------------------
(* The end of the association from this side                                  *)

\* `close` or `abort` records its cause; on an association that is not up it
\* returns at once.
CloseBegin ==
  /\ closer = "idle"
  /\ reader # "aborted"
  /\ IF life.state = "connected"
     THEN /\ \E e \in {"closed", "aborted"} :
               life' = [state |-> "closing", close_err |-> e]
          /\ closer' = "closing"
     ELSE closer' = "over" /\ UNCHANGED life
  /\ UNCHANGED <<done, next_id, pending, cancels, call, attempt, reader, shut, peer>>

\* It has the writer, sends the conclude or the abort and shuts the write half.
CloseWrite ==
  /\ closer = "closing"
  /\ shut' = TRUE
  /\ closer' = "shut"
  /\ UNCHANGED <<life, done, next_id, pending, cancels, call, attempt, reader, peer>>

\* finish_close waits for the reader to end.
finish_close ==
  /\ closer = "shut"
  /\ done
  /\ life' = [life EXCEPT !.state = "closed"]
  /\ closer' = "over"
  /\ UNCHANGED <<done, next_id, pending, cancels, call, attempt, reader, shut, peer>>

\* The Conn is dropped, which no method of it may be using, and aborts the
\* reader where it waits for a PDU.  An Outstanding may still be around.
DropConn ==
  /\ MayDrop
  /\ closer \in {"idle", "over"}
  /\ \A c \in Call : call[c].pc \in {"idle", "over"} \cup IF c \in Started THEN {"waiting"} ELSE {}
  /\ reader = "reading"
  /\ reader' = "aborted"
  /\ UNCHANGED <<life, done, next_id, pending, cancels, call, attempt, closer, shut, peer>>

-----------------------------------------------------------------------------
(* The peer                                                                   *)

\* A service error or a reject takes the same way as a response.
Answer(r) ==
  /\ ~gone
  /\ asked' = asked \ {r}
  /\ inbox' = Append(inbox, [kind |-> "response", id |-> r[1], of |-> r[2]])
  /\ UNCHANGED <<local, pending, cancels, call, attempt, toCancel, gone>>

\* A cancel the peer agrees to ends the request with an error.
AnswerCancel(k) ==
  LET id == attempt[k].id
      open == {r \in asked : r[1] = id}
  IN  /\ ~gone
      /\ toCancel' = toCancel \ {k}
      /\ \/ \E r \in open :
              /\ asked' = asked \ {r}
              /\ inbox' = inbox \o <<[kind |-> "agreed", id |-> id, of |-> NoCall],
                                     [kind |-> "error", id |-> id, of |-> r[2]]>>
         \/ /\ inbox' = Append(inbox, [kind |-> "refused", id |-> id, of |-> NoCall])
            /\ UNCHANGED asked
      /\ UNCHANGED <<local, pending, cancels, call, attempt, gone>>

PeerGoes ==
  /\ ~gone
  /\ gone' = TRUE
  /\ UNCHANGED <<local, pending, cancels, call, attempt, asked, toCancel, inbox>>

-----------------------------------------------------------------------------
Request(c) ==
  \/ Check(c) \/ Register(c) \/ Send(c) \/ DropStart(c) \/ Wait(c)
  \/ Timeout(c) \/ DropOutstanding(c)

Cancelling(k) ==
  \/ \E c \in Call : CancelCheck(k, c)
  \/ CancelRegister(k) \/ CancelSend(k) \/ CancelWait(k)
  \/ CancelTimeout(k) \/ CancelRemove(k)

Reader == dispatch \/ ReadEnd \/ DrainPending \/ DrainCancels \/ Done

Ending == CloseBegin \/ CloseWrite \/ finish_close \/ DropConn

Peer ==
  \/ \E r \in asked : Answer(r)
  \/ \E k \in toCancel : AnswerCancel(k)
  \/ PeerGoes

Next ==
  \/ \E c \in Call : Request(c)
  \/ \E k \in Attempt : Cancelling(k)
  \/ Reader \/ Ending \/ Peer

Spec == Init /\ [][Next]_vars

\* Tasks are scheduled, timers fire and writes complete; the peer ends the
\* transport once this side has shut its half down.  It need not answer.
Fairness ==
  /\ \A c \in Call : WF_vars(Register(c)) /\ WF_vars(Send(c)) /\ WF_vars(Wait(c)) /\ WF_vars(Timeout(c))
  /\ \A k \in Attempt : /\ WF_vars(CancelRegister(k)) /\ WF_vars(CancelSend(k))
                        /\ WF_vars(CancelWait(k)) /\ WF_vars(CancelTimeout(k)) /\ WF_vars(CancelRemove(k))
  /\ WF_vars(Reader) /\ WF_vars(CloseWrite) /\ WF_vars(finish_close)
  /\ WF_vars(shut /\ PeerGoes)

FairSpec == Spec /\ Fairness

-----------------------------------------------------------------------------
(* Properties                                                                 *)

\* Every variable has its type.
TypeOK ==
  /\ life \in Lifecycle
  /\ done \in BOOLEAN /\ shut \in BOOLEAN /\ gone \in BOOLEAN
  /\ next_id \in Id
  /\ DOMAIN pending \subseteq Id /\ Range(pending) \subseteq Call
  /\ DOMAIN cancels \subseteq Id /\ Range(cancels) \subseteq Attempt
  /\ call \in [Call -> Outstanding]
  /\ attempt \in [Attempt -> CancelCall]
  /\ reader \in {"reading", "drain_pending", "drain_cancels", "drained", "ended", "aborted"}
  /\ closer \in {"idle", "closing", "shut", "over"}
  /\ asked \subseteq Id \X Call
  /\ toCancel \subseteq Attempt
  /\ inbox \in Seq(Pdu)

\* A caller is given the response to its own request, however late answers come
\* and whatever was dropped or timed out before (deliver matches invoke ids).
AnswerIsOwn ==
  \A c \in Call : call[c].result \in {"response", "error"} => call[c].of = c

\* The requests of an association get the outcomes that Association promises.
Promise == INSTANCE Association WITH
  state <- life.state,
  cause <- life.close_err,
  outcome <- [c \in Call |-> IF call[c].pc = "idle" THEN "none"
                             ELSE IF call[c].pc = "over" THEN call[c].result ELSE "open"]
Implements == Promise!Spec

\* Whatever the peer answers or leaves unanswered, a request made with `call`
\* returns, and so does a cancel (request_timeout); `close` and `abort` return once
\* the peer has ended the transport.  The write of the request itself is under no
\* timeout: the transport is taken to accept what is written to it.
CallReturns ==
  /\ \A c \in Call \ Started : call[c].pc = "checked" ~> call[c].pc = "over"
  /\ \A k \in Attempt : attempt[k].pc = "checked" ~> attempt[k].pc = "over"
  /\ closer = "closing" ~> closer = "over"

\* "Dropping the request on a timeout releases its response slot" (Conn::call_inner).
SlotReleased ==
  \A c \in Call : call[c].result = "timeout" => c \notin Range(pending)
=============================================================================
