---------------------------- MODULE ClientProofs ----------------------------
(***************************************************************************)
(* What holds of the client association for every set of requests and      *)
(* cancels, fewer than the invoke identifiers, and every interleaving of   *)
(* the callers, the reader, the closer and the peer.                       *)
(***************************************************************************)
EXTENDS ClientConn, TLAPS

\* The requests that have taken an invoke identifier.
Used == {c \in Call : call[c].id # 0}

\* The association has a cause exactly when it is not up, and the reader that
\* has begun fail_all left it closed; `closed` is told after that.
LifeInv ==
  /\ life.state = "connected" <=> life.close_err = "none"
  /\ reader \notin {"reading", "aborted"} \/ done => life.state = "closed"

\* Identifiers are handed out one after the other, and none twice.
IdInv ==
  /\ next_id = (Cardinality(Used) + 1) % InvokeIds
  /\ \A c \in Used : call[c].id \in 1 .. Cardinality(Used)
  /\ \A c, d \in Used : call[c].id = call[d].id => c = d
  /\ \A c \in Call : /\ call[c].pc = "idle" => call[c].id = 0
                     /\ call[c].pc \in {"checked", "registered", "waiting"} => call[c].id # 0

\* A slot is its request's own, and a request that waits has a slot or a value.
SlotInv ==
  /\ \A i \in DOMAIN pending : i # 0 /\ call[pending[i]].id = i
  /\ \A c \in Call : call[c].pc \in {"registered", "waiting"} =>
       call[c].rx # Empty \/ c \in Range(pending)

\* What the peer has read and what it has answered carry the identifier of the
\* request they are about.
PeerInv ==
  /\ \A r \in asked : r[1] # 0 /\ call[r[2]].id = r[1]
  /\ \A i \in DOMAIN inbox : inbox[i].kind \in {"response", "error"} =>
       inbox[i].id # 0 /\ call[inbox[i].of].id = inbox[i].id

\* A request's channel holds the answer to it or the cause that ended the
\* association, and so does its result.
RxGood(c) ==
  \/ call[c].rx = Empty
  \/ call[c].rx.kind \in {"response", "error"} /\ call[c].rx.of = c
  \/ call[c].rx = Plain(life.close_err) /\ life.state = "closed"

RxInv == \A c \in Call : RxGood(c)

\* A cancel's channel holds the answer to it or a cause.
CancelInv ==
  \A k \in Attempt : attempt[k].rx = Empty \/ attempt[k].rx.kind \in Causes \cup {"agreed", "refused"}

IndInv ==
  TypeOK /\ LifeInv /\ IdInv /\ SlotInv /\ PeerInv /\ RxInv /\ AnswerIsOwn /\ CancelInv

-----------------------------------------------------------------------------
(* Slots, values and identifiers *)

\* What a channel that is still listened to receives, and what else it keeps.
LEMMA ReceivedType ==
  ASSUME NEW r \in Outstanding, NEW v \in Value
  PROVE  LET q == Received(r, v)
         IN  /\ q \in Outstanding /\ q.pc = r.pc /\ q.id = r.id /\ q.result = r.result /\ q.of = r.of
             /\ q.rx = IF r.pc = "over" THEN r.rx ELSE v
BY DEF Received, Outstanding

\* The empty channel is no value.
LEMMA EmptyIsNone == Empty \notin Value /\ Empty.kind = "empty"
BY DEF Empty, Value, Causes

\* Requests that keep their identifiers, while none becomes idle and none that
\* has no identifier begins to wait.
LEMMA IdsKeep ==
  ASSUME IndInv, call' \in [Call -> Outstanding], next_id' = next_id,
         \A c \in Call : /\ call'[c].id = call[c].id
                         /\ call'[c].pc = "idle" => call[c].pc = "idle"
                         /\ call'[c].pc \in {"checked", "registered", "waiting"} =>
                              call[c].pc \in {"checked", "registered", "waiting"}
  PROVE  IdInv'
<1>1. Used' = Used
  BY DEF Used
<1>2. \A c \in Used : c \in Call
  BY DEF Used
<1> QED  BY <1>1, <1>2 DEF IndInv, IdInv

-----------------------------------------------------------------------------
(* What Association makes of a step *)

\* What has become of a request.
Outcome(r) == IF r.pc = "idle" THEN "none" ELSE IF r.pc = "over" THEN r.result ELSE "open"

outcome == [c \in Call |-> Outcome(call[c])]

PromiseStep == [Promise!Next]_(Promise!vars)

\* A step that changes neither the lifecycle nor an outcome is a stutter.
LEMMA SameOutcomes ==
  ASSUME life' = life, \A c \in Call : Outcome(call'[c]) = Outcome(call[c])
  PROVE  PromiseStep
<1>1. outcome' = outcome
  BY DEF outcome
<1> QED  BY <1>1 DEF PromiseStep, Promise!vars, outcome, Outcome

\* A step that changes one outcome as Association lets it.
LEMMA OneOutcome ==
  ASSUME NEW c \in Call, call \in [Call -> Outstanding], NEW q, call' = [call EXCEPT ![c] = q],
         life' = life,
         LET x == Outcome(call[c])
             y == Outcome(q)
         IN  \/ x = y
             \/ x = "none" /\ y = "open" /\ life.state = "connected"
             \/ x = "none" /\ y = life.close_err /\ life.state # "connected"
             \/ x = "open" /\ y \in {"response", "error", "unsent", "timeout", "dropped"}
             \/ x = "open" /\ y = life.close_err /\ life.state = "closed"
  PROVE  PromiseStep
<1>1. outcome' = [outcome EXCEPT ![c] = Outcome(q)] /\ outcome[c] = Outcome(call[c])
  BY Zenon DEF outcome
<1>2. CASE Outcome(call[c]) = Outcome(q)
  <2>1. \A d \in Call : Outcome(call'[d]) = Outcome(call[d])
    BY <1>2
  <2> QED  BY <2>1, SameOutcomes
<1>3. CASE Outcome(call[c]) # Outcome(q)
  <2>1. \/ Promise!Open(c) \/ Promise!Refuse(c) \/ Promise!Answer(c) \/ Promise!GiveUp(c)
        \/ Promise!Fail(c)
    BY <1>1, <1>3, Zenon DEF Promise!Open, Promise!Refuse, Promise!Answer, Promise!GiveUp, Promise!Fail,
                      outcome, Outcome
  <2> QED  BY <2>1 DEF PromiseStep, Promise!Next
<1> QED  BY <1>2, <1>3

\* The association ends.
LEMMA EndStep ==
  ASSUME IndInv, call' = call,
         \/ life' = life
         \/ /\ life.state = "connected" /\ life'.state \in {"closing", "closed"}
            /\ life'.close_err \in Causes
         \/ /\ life.state = "closing" /\ life'.state = "closed" /\ life'.close_err = life.close_err
  PROVE  PromiseStep
<1>1. outcome' = outcome
  BY DEF outcome
<1>2. CASE life' = life
  BY <1>2, SameOutcomes
<1>3. CASE life' # life
  <2>1. Promise!End
    BY <1>1, <1>3 DEF Promise!End, Promise!Causes, Causes, outcome, Outcome
  <2> QED  BY <2>1 DEF PromiseStep, Promise!Next
<1> QED  BY <1>2, <1>3

-----------------------------------------------------------------------------
(* The inductive step *)

\* One request goes on: it keeps its identifier and its value, and slots and
\* what the peer has read change for it alone.
LEMMA RequestKeeps ==
  ASSUME IndInv, NEW c \in Call, NEW q \in Outstanding, call' = [call EXCEPT ![c] = q],
         q.id = call[c].id, q.rx = call[c].rx,
         call[c].pc \in {"checked", "registered", "waiting"},
         q.pc \in {"registered", "waiting", "over"},
         q.result \in {"response", "error"} => q.of = c,
         UNCHANGED <<life, done, next_id, reader, inbox>>,
         asked' \subseteq asked \cup {<<call[c].id, c>>},
         \A i \in DOMAIN pending' : \/ i \in DOMAIN pending /\ pending'[i] = pending[i]
                                    \/ i = call[c].id /\ pending'[i] = c,
         q.pc = "over" \/ q.rx # Empty \/ c \in Range(pending'),
         \A d \in Range(pending) : d = c \/ d \in Range(pending')
  PROVE  /\ call' \in [Call -> Outstanding]
         /\ LifeInv' /\ IdInv' /\ SlotInv' /\ PeerInv' /\ RxInv' /\ AnswerIsOwn'
<1>0. call \in [Call -> Outstanding] /\ call[c].id # 0
  BY DEF IndInv, TypeOK, IdInv
<1>1. /\ call' \in [Call -> Outstanding] /\ call'[c] = q
      /\ \A d \in Call : d # c => call'[d] = call[d]
  BY <1>0
<1>2. \A d \in Call : call'[d].id = call[d].id /\ call'[d].rx = call[d].rx
  BY <1>1
<1>3. LifeInv'
  BY DEF IndInv, LifeInv
<1>4. IdInv'
  BY <1>1, <1>2, IdsKeep
<1>5. SlotInv'
  <2>1. \A i \in DOMAIN pending : pending[i] \in Call
    BY DEF IndInv, TypeOK, Range
  <2>2. \A i \in DOMAIN pending' : i # 0 /\ call'[pending'[i]].id = i
    BY <1>0, <1>2, <2>1 DEF IndInv, SlotInv
  <2>3. \A d \in Call : call'[d].pc \in {"registered", "waiting"} =>
          call'[d].rx # Empty \/ d \in Range(pending')
    BY <1>1 DEF IndInv, SlotInv
  <2> QED  BY <2>2, <2>3 DEF SlotInv
<1>6. PeerInv'
  <2>1. \A r \in asked' : r[1] # 0 /\ call'[r[2]].id = r[1]
    BY <1>0, <1>2 DEF IndInv, PeerInv, TypeOK
  <2>2. \A i \in DOMAIN inbox : inbox[i] \in Pdu
    BY DEF IndInv, TypeOK
  <2>3. \A i \in DOMAIN inbox : inbox[i].kind \in {"response", "error"} => inbox[i].of \in Call
    BY <2>2 DEF Pdu
  <2> QED  BY <1>2, <2>1, <2>3 DEF IndInv, PeerInv
<1>7. RxInv'
  BY <1>2 DEF IndInv, RxInv, RxGood
<1>8. AnswerIsOwn'
  BY <1>1 DEF IndInv, AnswerIsOwn
<1> QED  BY <1>1, <1>3, <1>4, <1>5, <1>6, <1>7, <1>8

\* A request with an identifier registers its slot, is sent or is over.
LEMMA CallMoves ==
  ASSUME IndInv, NEW c \in Call, NEW q \in Outstanding, call' = [call EXCEPT ![c] = q],
         q.id = call[c].id, q.rx = call[c].rx, q.result \in {"response", "error"} => q.of = c,
         call[c].pc \in {"checked", "registered", "waiting"},
         UNCHANGED <<life, done, next_id, reader, closer, shut, cancels, attempt, toCancel, inbox, gone>>,
         \/ /\ q.pc = "registered"
            /\ pending' = With(pending, call[c].id, c) /\ asked' = asked
         \/ /\ q.pc = "waiting" /\ call[c].pc = "registered"
            /\ pending' = pending /\ asked' \in {asked, asked \cup {<<call[c].id, c>>}}
         \/ /\ q.pc = "over"
            /\ \/ q.result \in {"response", "error", "unsent", "timeout", "dropped"}
               \/ q.result = life.close_err /\ life.state = "closed"
            /\ pending' \in {pending, Without(pending, call[c].id)} /\ asked' = asked
  PROVE  IndInv' /\ PromiseStep
<1>0. /\ call \in [Call -> Outstanding] /\ call[c] \in Outstanding
      /\ call[c].id \in Id /\ DOMAIN pending \subseteq Id /\ Range(pending) \subseteq Call
      /\ asked \subseteq Id \X Call
  <2>1. call[c] \in Outstanding
    BY DEF IndInv, TypeOK
  <2>2. call[c].id \in Id
    BY <2>1 DEF Outstanding
  <2> QED  BY <2>1, <2>2 DEF IndInv, TypeOK
<1>n. PICK n \in Id : n = call[c].id
  BY <1>0
<1>1. \A i \in DOMAIN pending : pending[i] \in Call /\ (i = n => pending[i] = c)
  <2>1. \A i \in DOMAIN pending : pending[i] \in Call /\ i # 0 /\ call[pending[i]].id = i
    BY <1>0, <1>n DEF IndInv, SlotInv, Range
  <2> QED  BY <1>n, <2>1 DEF IndInv, IdInv, Used
<1>2. /\ DOMAIN pending' \subseteq Id /\ Range(pending') \subseteq Call
      /\ \A i \in DOMAIN pending' : \/ i \in DOMAIN pending /\ pending'[i] = pending[i]
                                    \/ i = n /\ pending'[i] = c
      /\ q.pc = "over" \/ q.rx # Empty \/ c \in Range(pending')
      /\ \A d \in Range(pending) : d = c \/ d \in Range(pending')
  <2>1. CASE q.pc = "registered" /\ pending' = With(pending, n, c)
    <3>1. /\ DOMAIN pending' = DOMAIN pending \cup {n} /\ pending'[n] = c
          /\ \A i \in DOMAIN pending : i # n => pending'[i] = pending[i]
          /\ Range(pending') \subseteq Range(pending) \cup {c} /\ c \in Range(pending')
          /\ \A y \in Range(pending) : y \in Range(pending') \/ (n \in DOMAIN pending /\ y = pending[n])
      BY <2>1 DEF With, Range
    <3> QED  BY <1>0, <1>n, <1>1, <2>1, <3>1
  <2>2. CASE q.pc = "waiting" /\ call[c].pc = "registered" /\ pending' = pending
    BY <1>0, <1>n, <2>2 DEF IndInv, SlotInv
  <2>3. CASE q.pc = "over" /\ pending' = pending
    BY <1>0, <1>n, <2>3
  <2>4. CASE q.pc = "over" /\ pending' = Without(pending, n)
    <3>1. /\ DOMAIN pending' = DOMAIN pending \ {n}
          /\ \A i \in DOMAIN pending' : pending'[i] = pending[i]
          /\ Range(pending') \subseteq Range(pending)
          /\ \A y \in Range(pending) : y \in Range(pending') \/ (n \in DOMAIN pending /\ y = pending[n])
      BY <2>4 DEF Without, Restrict, Range
    <3> QED  BY <1>0, <1>n, <1>1, <2>4, <3>1
  <2> QED  BY <1>n, <2>1, <2>2, <2>3, <2>4
<1>3. asked' \subseteq asked \cup {<<n, c>>} /\ asked' \subseteq Id \X Call
  BY <1>0, <1>n
<1>4. q.pc \in {"registered", "waiting", "over"} /\ UNCHANGED <<life, done, next_id, reader, inbox>>
  OBVIOUS
<1>5. /\ call' \in [Call -> Outstanding]
      /\ LifeInv' /\ IdInv' /\ SlotInv' /\ PeerInv' /\ RxInv' /\ AnswerIsOwn'
  <2>1. /\ asked' \subseteq asked \cup {<<call[c].id, c>>}
        /\ \A i \in DOMAIN pending' : \/ i \in DOMAIN pending /\ pending'[i] = pending[i]
                                      \/ i = call[c].id /\ pending'[i] = c
    BY <1>n, <1>2, <1>3
  <2> HIDE <1>n
  <2> QED  BY <1>2, <1>4, <2>1, RequestKeeps, Zenon
<1>6. TypeOK' /\ CancelInv'
  BY <1>2, <1>3, <1>5 DEF IndInv, TypeOK, CancelInv
<1>7. PromiseStep
  <2>1. Outcome(call[c]) = "open" /\ Outcome(q) = IF q.pc = "over" THEN q.result ELSE "open"
    BY <1>4 DEF Outcome
  <2> QED  BY <1>0, <1>n, <2>1, OneOutcome, Zenon
<1> QED  BY <1>5, <1>6, <1>7 DEF IndInv

\* start registers the slot, sends the request or gives it up.
LEMMA SendKeeps ==
  ASSUME IndInv, NEW c \in Call, Register(c) \/ Send(c) \/ DropStart(c)
  PROVE  IndInv' /\ PromiseStep
<1>0. /\ call \in [Call -> Outstanding] /\ call[c] \in Outstanding
      /\ call[c].pc \in {"checked", "registered"}
      /\ UNCHANGED <<life, done, next_id, reader, closer, shut, cancels, attempt, toCancel, inbox, gone>>
      /\ call[c].result \in {"response", "error"} => call[c].of = c
  BY DEF IndInv, TypeOK, AnswerIsOwn, Register, Send, DropStart, local, peer
<1> DEFINE r == [call[c] EXCEPT !.pc = "registered"]
           w == [call[c] EXCEPT !.pc = "waiting"]
           u == [call[c] EXCEPT !.pc = "over", !.result = "unsent"]
           v == [call[c] EXCEPT !.pc = "over", !.result = "dropped"]
<1>1. \/ /\ call' = [call EXCEPT ![c] = r]
         /\ pending' = With(pending, call[c].id, c) /\ asked' = asked
      \/ /\ call' = [call EXCEPT ![c] = w] /\ call[c].pc = "registered"
         /\ pending' = pending /\ asked' \in {asked, asked \cup {<<call[c].id, c>>}}
      \/ /\ call' = [call EXCEPT ![c] = u]
         /\ pending' = Without(pending, call[c].id) /\ asked' = asked
      \/ /\ call' = [call EXCEPT ![c] = v] /\ pending' = pending /\ asked' = asked
  BY <1>0, Zenon DEF Register, Send, DropStart, peer
<1>2. /\ r \in Outstanding /\ r.id = call[c].id /\ r.rx = call[c].rx /\ r.of = call[c].of
      /\ r.pc = "registered" /\ r.result = call[c].result
  BY <1>0 DEF Outstanding
<1>3. /\ w \in Outstanding /\ w.id = call[c].id /\ w.rx = call[c].rx /\ w.of = call[c].of
      /\ w.pc = "waiting" /\ w.result = call[c].result
  BY <1>0 DEF Outstanding
<1>4. /\ u \in Outstanding /\ u.id = call[c].id /\ u.rx = call[c].rx /\ u.pc = "over"
      /\ u.result = "unsent"
  BY <1>0, Zenon DEF Outstanding, Outcomes
<1>5. /\ v \in Outstanding /\ v.id = call[c].id /\ v.rx = call[c].rx /\ v.pc = "over"
      /\ v.result = "dropped"
  BY <1>0, Zenon DEF Outstanding, Outcomes
<1> HIDE DEF r, w, u, v
<1> QED  BY <1>0, <1>1, <1>2, <1>3, <1>4, <1>5, CallMoves

\* wait returns what the channel holds; it never finds the channel closed and empty.
LEMMA WaitKeeps ==
  ASSUME IndInv, NEW c \in Call, Wait(c) \/ Timeout(c) \/ DropOutstanding(c)
  PROVE  IndInv' /\ PromiseStep
<1>0. /\ call \in [Call -> Outstanding] /\ call[c] \in Outstanding /\ call[c].pc = "waiting"
      /\ UNCHANGED <<life, done, next_id, reader, closer, shut, cancels, attempt, toCancel, inbox, gone>>
      /\ asked' = asked /\ life \in Lifecycle
  BY DEF IndInv, TypeOK, Wait, Timeout, DropOutstanding, local, peer
<1>1. CASE Wait(c)
  <2> DEFINE k == call[c].rx.kind
             o == call[c].rx.of
             q == [call[c] EXCEPT !.pc = "over", !.of = o, !.result = k]
  <2>1. call[c].rx # Empty
    BY <1>1 DEF Wait, IndInv, SlotInv
  <2>2. call' = [call EXCEPT ![c] = q] /\ pending' = pending
    BY <1>0, <1>1, <2>1, Zenon DEF Wait
  <2>3. \/ k \in {"response", "error"} /\ o = c
        \/ k = life.close_err /\ k \in Causes /\ o = NoCall /\ life.state = "closed"
    BY <1>0, <2>1 DEF IndInv, RxInv, RxGood, Plain, LifeInv, Lifecycle
  <2> HIDE DEF k, o
  <2>4. k \in Outcomes /\ o \in Call \cup {NoCall} /\ (k \in Causes => k \notin {"response", "error"})
    BY <2>3 DEF Outcomes, Causes
  <2>5. /\ q \in Outstanding /\ q.id = call[c].id /\ q.rx = call[c].rx /\ q.of = o
        /\ q.pc = "over" /\ q.result = k
    BY <1>0, <2>4, Zenon DEF Outstanding
  <2> HIDE DEF q
  <2> QED  BY <1>0, <2>2, <2>3, <2>4, <2>5, CallMoves, Zenon
<1>2. CASE Timeout(c)
  <2> DEFINE q == [call[c] EXCEPT !.pc = "over", !.result = "timeout"]
  <2>1. call' = [call EXCEPT ![c] = q] /\ pending' = pending
    BY <1>0, <1>2, Zenon DEF Timeout
  <2>2. /\ q \in Outstanding /\ q.id = call[c].id /\ q.rx = call[c].rx
        /\ q.pc = "over" /\ q.result = "timeout"
    BY <1>0, Zenon DEF Outstanding, Outcomes
  <2> HIDE DEF q
  <2> QED  BY <1>0, <2>1, <2>2, CallMoves, Zenon
<1>3. CASE DropOutstanding(c)
  <2> DEFINE q == [call[c] EXCEPT !.pc = "over", !.result = "dropped"]
  <2>1. call' = [call EXCEPT ![c] = q] /\ pending' = Without(pending, call[c].id)
    BY <1>0, <1>3, Zenon DEF DropOutstanding
  <2>2. /\ q \in Outstanding /\ q.id = call[c].id /\ q.rx = call[c].rx
        /\ q.pc = "over" /\ q.result = "dropped"
    BY <1>0, Zenon DEF Outstanding, Outcomes
  <2> HIDE DEF q
  <2> QED  BY <1>0, <2>1, <2>2, CallMoves, Zenon
<1> QED  BY <1>1, <1>2, <1>3

\* A step of a cancel, or of another part that leaves requests and slots alone.
LEMMA CallsUnmoved ==
  ASSUME IndInv, UNCHANGED <<call, next_id, pending, asked, inbox>>,
         life.state = "closed" => life' = life
  PROVE  IdInv' /\ SlotInv' /\ PeerInv' /\ RxInv' /\ AnswerIsOwn'
<1>1. IdInv'
  BY DEF IndInv, IdInv, Used
<1>2. SlotInv' /\ PeerInv' /\ AnswerIsOwn'
  BY DEF IndInv, SlotInv, PeerInv, AnswerIsOwn
<1>3. RxInv'
  BY DEF IndInv, RxInv, RxGood
<1> QED  BY <1>1, <1>2, <1>3

\* A cancel goes on: it touches no request.
LEMMA CancelKeeps ==
  ASSUME IndInv, NEW k \in Attempt, Cancelling(k)
  PROVE  IndInv' /\ PromiseStep
<1>0. /\ attempt \in [Attempt -> CancelCall] /\ attempt[k] \in CancelCall
      /\ attempt[k].rx = Empty \/ attempt[k].rx.kind \in Causes \cup {"agreed", "refused"}
      /\ UNCHANGED <<life, done, next_id, reader, closer, shut, call, pending, asked, inbox, gone>>
      /\ DOMAIN cancels \subseteq Id /\ Range(cancels) \subseteq Attempt /\ toCancel \subseteq Attempt
      /\ life \in Lifecycle
  BY Zenon DEF IndInv, TypeOK, CancelInv, Cancelling, CancelCheck, CancelRegister, CancelSend, CancelWait,
         CancelTimeout, CancelRemove, local, peer
<1>1. attempt[k].id \in Id
  BY <1>0 DEF CancelCall
<1>2. \E q \in CancelCall : attempt' = [attempt EXCEPT ![k] = q] /\ q.rx = attempt[k].rx
  <2>1. CASE \E c \in Call : CancelCheck(k, c)
    <3>1. PICK c \in Call : CancelCheck(k, c)
      BY <2>1
    <3>2. call[c].id \in Id /\ closed_error \in Causes \cup {"none"}
      <4>1. call[c] \in Outstanding
        BY DEF IndInv, TypeOK
      <4>2. call[c].id \in Id
        BY <4>1 DEF Outstanding
      <4> QED  BY <1>0, <4>2 DEF closed_error, Lifecycle, Causes
    <3> DEFINE i == call[c].id
               e == closed_error
               q == IF e = "none" THEN [attempt[k] EXCEPT !.pc = "checked", !.id = i]
                    ELSE [attempt[k] EXCEPT !.pc = "over", !.result = e]
    <3>3. attempt' = [attempt EXCEPT ![k] = q]
      BY <3>1 DEF CancelCheck
    <3> HIDE DEF i, e
    <3>4. q \in CancelCall /\ q.rx = attempt[k].rx
      BY <1>0, <3>2, Zenon DEF CancelCall, i, e
    <3> QED  BY <3>3, <3>4, Zenon
  <2>2. CASE CancelWait(k)
    <3> DEFINE x == IF attempt[k].rx # Empty THEN attempt[k].rx.kind ELSE "closed"
               q == [attempt[k] EXCEPT !.pc = "over", !.result = x]
    <3>1. attempt' = [attempt EXCEPT ![k] = q]
      BY <1>0, <2>2, Zenon DEF CancelWait
    <3>2. x \in Causes \cup {"agreed", "refused"}
      BY <1>0 DEF Causes
    <3> HIDE DEF x
    <3>3. q \in CancelCall /\ q.rx = attempt[k].rx
      BY <1>0, <3>2, Zenon DEF CancelCall
    <3> QED  BY <3>1, <3>3, Zenon
  <2>3. CASE CancelRegister(k) \/ CancelSend(k) \/ CancelTimeout(k) \/ CancelRemove(k)
    <3> DEFINE a == [attempt[k] EXCEPT !.pc = "over", !.result = "already"]
               b == [attempt[k] EXCEPT !.pc = "registered"]
               d == [attempt[k] EXCEPT !.pc = "waiting"]
               e == [attempt[k] EXCEPT !.pc = "over", !.result = "unsent"]
               f == [attempt[k] EXCEPT !.pc = "expired"]
               g == [attempt[k] EXCEPT !.pc = "over", !.result = "timeout"]
    <3>1. \/ attempt' = [attempt EXCEPT ![k] = a] \/ attempt' = [attempt EXCEPT ![k] = b]
          \/ attempt' = [attempt EXCEPT ![k] = d] \/ attempt' = [attempt EXCEPT ![k] = e]
          \/ attempt' = [attempt EXCEPT ![k] = f] \/ attempt' = [attempt EXCEPT ![k] = g]
      BY <1>0, <2>3, Zenon DEF CancelRegister, CancelSend, CancelTimeout, CancelRemove
    <3>2. /\ a \in CancelCall /\ a.rx = attempt[k].rx /\ b \in CancelCall /\ b.rx = attempt[k].rx
          /\ d \in CancelCall /\ d.rx = attempt[k].rx /\ e \in CancelCall /\ e.rx = attempt[k].rx
          /\ f \in CancelCall /\ f.rx = attempt[k].rx /\ g \in CancelCall /\ g.rx = attempt[k].rx
      BY <1>0, Zenon DEF CancelCall
    <3> HIDE DEF a, b, d, e, f, g
    <3> QED  BY <3>1, <3>2
  <2> QED  BY <2>1, <2>2, <2>3 DEF Cancelling
<1>3. DOMAIN cancels' \subseteq Id /\ Range(cancels') \subseteq Attempt /\ toCancel' \subseteq Attempt
  <2>1. \/ cancels' = cancels \/ cancels' = With(cancels, attempt[k].id, k)
        \/ cancels' = Without(cancels, attempt[k].id)
    BY Zenon DEF Cancelling, CancelCheck, CancelRegister, CancelSend, CancelWait, CancelTimeout, CancelRemove
  <2>2. toCancel' \subseteq toCancel \cup {k}
    BY Zenon DEF Cancelling, CancelCheck, CancelRegister, CancelSend, CancelWait, CancelTimeout, CancelRemove, peer
  <2>3. DOMAIN cancels' \subseteq DOMAIN cancels \cup {attempt[k].id} /\ Range(cancels') \subseteq Range(cancels) \cup {k}
    BY <2>1 DEF With, Without, Restrict, Range
  <2> QED  BY <1>0, <1>1, <2>2, <2>3
<1>4. attempt' \in [Attempt -> CancelCall] /\ CancelInv'
  <2>1. PICK q \in CancelCall : attempt' = [attempt EXCEPT ![k] = q] /\ q.rx = attempt[k].rx
    BY <1>2, Zenon
  <2>2. attempt' \in [Attempt -> CancelCall] /\ \A j \in Attempt : attempt'[j].rx = attempt[j].rx
    BY <1>0, <2>1
  <2> QED  BY <2>2 DEF IndInv, CancelInv
<1>5. TypeOK' /\ LifeInv'
  BY <1>0, <1>3, <1>4 DEF IndInv, TypeOK, LifeInv
<1>6. IdInv' /\ SlotInv' /\ PeerInv' /\ RxInv' /\ AnswerIsOwn'
  BY <1>0, CallsUnmoved
<1>7. PromiseStep
  BY <1>0, SameOutcomes
<1> QED  BY <1>4, <1>5, <1>6, <1>7 DEF IndInv

\* What is in the peer's hands and on its way, when requests keep their identifiers.
LEMMA InboxKeeps ==
  ASSUME IndInv, \A c \in Call : call'[c].id = call[c].id, asked' \subseteq asked, inbox' \in Seq(Pdu),
         \A i \in DOMAIN inbox' :
           \/ \E j \in DOMAIN inbox : inbox'[i] = inbox[j]
           \/ inbox'[i].kind \in {"response", "error"} =>
                inbox'[i].id # 0 /\ call[inbox'[i].of].id = inbox'[i].id
  PROVE  PeerInv'
<1>1. \A r \in asked' : r[2] \in Call /\ r[1] # 0 /\ call[r[2]].id = r[1]
  BY DEF IndInv, TypeOK, PeerInv
<1>2. \A i \in DOMAIN inbox' : inbox'[i].kind \in {"response", "error"} =>
        inbox'[i].id # 0 /\ call[inbox'[i].of].id = inbox'[i].id
  BY DEF IndInv, PeerInv
<1>3. \A i \in DOMAIN inbox' : inbox'[i].kind \in {"response", "error"} => inbox'[i].of \in Call
  <2>1. \A i \in DOMAIN inbox' : inbox'[i] \in Pdu
    OBVIOUS
  <2> QED  BY <2>1 DEF Pdu
<1> QED  BY <1>1, <1>2, <1>3 DEF PeerInv

\* Values arrive in channels: a request that loses its slot has one.
LEMMA ValuesKeep ==
  ASSUME IndInv, call' \in [Call -> Outstanding], life' = life, next_id' = next_id,
         \A d \in Call : /\ call'[d].pc = call[d].pc /\ call'[d].id = call[d].id
                         /\ call'[d].result = call[d].result /\ call'[d].of = call[d].of
                         /\ RxGood(d)'
                         /\ call[d].pc \in {"registered", "waiting"} =>
                              call'[d].rx # Empty \/ d \in Range(pending'),
         \A i \in DOMAIN pending' : i \in DOMAIN pending /\ pending'[i] = pending[i]
  PROVE  IdInv' /\ SlotInv' /\ RxInv' /\ AnswerIsOwn' /\ PromiseStep
<1>1. IdInv'
  BY IdsKeep
<1>2. SlotInv'
  <2>1. \A i \in DOMAIN pending : pending[i] \in Call
    BY DEF IndInv, TypeOK, Range
  <2> QED  BY <2>1 DEF IndInv, SlotInv
<1>3. RxInv' /\ AnswerIsOwn'
  BY DEF IndInv, RxInv, AnswerIsOwn
<1>4. PromiseStep
  <2>1. \A c \in Call : Outcome(call'[c]) = Outcome(call[c])
    BY DEF Outcome
  <2> QED  BY <2>1, SameOutcomes
<1> QED  BY <1>1, <1>2, <1>3, <1>4

\* The reader hands an answer to the request that asked for it, or a cancel's
\* answer to the cancel.
LEMMA DispatchKeeps ==
  ASSUME IndInv, dispatch
  PROVE  IndInv' /\ PromiseStep
<1> DEFINE m == Head(inbox)
<1>0. /\ inbox \in Seq(Pdu) /\ inbox # << >> /\ inbox' = Tail(inbox)
      /\ UNCHANGED <<life, done, next_id, reader, closer, shut, asked, toCancel, gone>>
      /\ call \in [Call -> Outstanding] /\ attempt \in [Attempt -> CancelCall]
      /\ DOMAIN pending \subseteq Id /\ Range(pending) \subseteq Call
      /\ DOMAIN cancels \subseteq Id /\ Range(cancels) \subseteq Attempt
  BY DEF IndInv, TypeOK, dispatch, local
<1>1. /\ m \in Pdu /\ inbox' \in Seq(Pdu) /\ m = inbox[1] /\ 1 \in DOMAIN inbox
      /\ \A i \in DOMAIN inbox' : \E j \in DOMAIN inbox : inbox'[i] = inbox[j]
  <2>1. m \in Pdu /\ inbox' \in Seq(Pdu) /\ m = inbox[1] /\ 1 \in DOMAIN inbox
    BY <1>0
  <2>2. ASSUME NEW i \in DOMAIN inbox'
        PROVE  inbox'[i] = inbox[i + 1] /\ i + 1 \in DOMAIN inbox
    BY <1>0, <2>2
  <2> QED  BY <2>1, <2>2
<1> HIDE DEF m
<1>2. CASE m.kind \in {"response", "error"}
  <2>0. /\ m.of \in Call /\ m.id \in Id /\ m.id # 0 /\ call[m.of].id = m.id
        /\ cancels' = cancels /\ attempt' = attempt /\ deliver(m)
    <3>1. m.of \in Call /\ m.id \in Id
      BY <1>1, <1>2 DEF Pdu
    <3>2. m.id # 0 /\ call[m.of].id = m.id
      BY <1>1, <1>2 DEF IndInv, PeerInv
    <3>3. deliver(m)
      BY <1>2 DEF dispatch, m
    <3> QED  BY <3>1, <3>2, <3>3 DEF deliver
  <2>1. CASE m.id \in DOMAIN pending
    <3> DEFINE v == [kind |-> m.kind, of |-> m.of]
               d == pending[m.id]
               q == Received(call[d], v)
    <3>1. d \in Call /\ d = m.of /\ call[d] \in Outstanding
      <4>1. d \in Call /\ call[d].id = m.id
        BY <1>0, <2>1 DEF IndInv, SlotInv, Range
      <4> QED  BY <1>0, <2>0, <4>1 DEF IndInv, IdInv, Used
    <3>2. v \in Value /\ v.kind = m.kind /\ v.of = m.of /\ v # Empty
      <4>1. v \in Value /\ v.kind = m.kind /\ v.of = m.of
        BY <1>2, <2>0 DEF Value
      <4> QED  BY <4>1, EmptyIsNone
    <3>3. call' = [call EXCEPT ![d] = q] /\ pending' = Without(pending, m.id)
      BY <2>0, <2>1 DEF deliver
    <3> HIDE DEF v
    <3>4. /\ q \in Outstanding /\ q.pc = call[d].pc /\ q.id = call[d].id /\ q.result = call[d].result
          /\ q.of = call[d].of /\ q.rx = IF call[d].pc = "over" THEN call[d].rx ELSE v
      BY <3>1, <3>2, ReceivedType
    <3> HIDE DEF q, d
    <3>5. call' \in [Call -> Outstanding] /\ call'[d] = q /\ \A c \in Call : c # d => call'[c] = call[c]
      BY <1>0, <3>1, <3>3, <3>4
    <3>6. /\ \A i \in DOMAIN pending' : i \in DOMAIN pending /\ pending'[i] = pending[i]
          /\ \A c \in Range(pending) : c = d \/ c \in Range(pending')
          /\ DOMAIN pending' \subseteq Id /\ Range(pending') \subseteq Call
      BY <1>0, <3>3, Zenon DEF Without, Restrict, Range, d
    <3>7. ASSUME NEW c \in Call
          PROVE  /\ call'[c].pc = call[c].pc /\ call'[c].id = call[c].id
                 /\ call'[c].result = call[c].result /\ call'[c].of = call[c].of
                 /\ RxGood(c)'
                 /\ call[c].pc \in {"registered", "waiting"} =>
                      call'[c].rx # Empty \/ c \in Range(pending')
      <4>1. RxGood(c) /\ (call[c].pc \in {"registered", "waiting"} => call[c].rx # Empty \/ c \in Range(pending))
        BY DEF IndInv, RxInv, SlotInv
      <4>2. CASE c = d
        BY <1>0, <1>2, <3>1, <3>2, <3>4, <3>5, <4>1, <4>2, Zenon DEF RxGood
      <4>3. CASE c # d
        BY <1>0, <3>5, <3>6, <4>1, <4>3 DEF RxGood
      <4> QED  BY <4>2, <4>3
    <3>8. IdInv' /\ SlotInv' /\ RxInv' /\ AnswerIsOwn' /\ PromiseStep
      BY <1>0, <3>5, <3>6, <3>7, ValuesKeep
    <3>9. PeerInv'
      BY <1>0, <1>1, <3>7, InboxKeeps
    <3>10. TypeOK' /\ LifeInv' /\ CancelInv'
      BY <1>0, <1>1, <2>0, <3>5, <3>6 DEF IndInv, TypeOK, LifeInv, CancelInv
    <3> QED  BY <3>8, <3>9, <3>10 DEF IndInv
  <2>2. CASE m.id \notin DOMAIN pending
    <3>1. call' = call /\ pending' = pending
      BY <2>0, <2>2 DEF deliver
    <3>2. PeerInv'
      BY <1>0, <1>1, <3>1, InboxKeeps
    <3>3. TypeOK' /\ LifeInv' /\ CancelInv'
      BY <1>0, <1>1, <2>0, <3>1 DEF IndInv, TypeOK, LifeInv, CancelInv
    <3>4. IdInv' /\ SlotInv' /\ RxInv' /\ AnswerIsOwn'
      BY <1>0, <3>1, Zenon DEF IndInv, IdInv, Used, SlotInv, RxInv, RxGood, AnswerIsOwn
    <3>5. PromiseStep
      BY <1>0, <3>1, SameOutcomes
    <3> QED  BY <3>2, <3>3, <3>4, <3>5 DEF IndInv
  <2> QED  BY <2>1, <2>2
<1>3. CASE m.kind \notin {"response", "error"}
  <2>0. m.kind \in {"agreed", "refused"} /\ deliver_cancel(m) /\ call' = call /\ pending' = pending
    <3>1. m.kind \in {"agreed", "refused"}
      BY <1>1, <1>3 DEF Pdu
    <3>2. deliver_cancel(m)
      BY <1>3 DEF dispatch, m
    <3> QED  BY <3>1, <3>2 DEF deliver_cancel
  <2>1. /\ attempt' \in [Attempt -> CancelCall] /\ CancelInv'
        /\ DOMAIN cancels' \subseteq Id /\ Range(cancels') \subseteq Attempt
    <3>1. CASE m.id \in DOMAIN cancels
      <4> DEFINE k == cancels[m.id]
                 v == Plain(m.kind)
                 q == IF attempt[k].pc = "expired" THEN attempt[k] ELSE Received(attempt[k], v)
      <4>1. k \in Attempt /\ attempt[k] \in CancelCall
        BY <1>0, <3>1 DEF Range
      <4>2. v \in Value /\ v.kind = m.kind
        BY <2>0 DEF Value, Plain
      <4>3. attempt' = [attempt EXCEPT ![k] = q] /\ cancels' = Without(cancels, m.id)
        BY <2>0, <3>1 DEF deliver_cancel
      <4> HIDE DEF v, k
      <4>4. q \in CancelCall /\ q.rx \in {attempt[k].rx, v}
        BY <4>1, <4>2 DEF CancelCall, Received
      <4> HIDE DEF q
      <4>5. /\ attempt' \in [Attempt -> CancelCall] /\ attempt'[k] = q
            /\ \A j \in Attempt : j # k => attempt'[j] = attempt[j]
        BY <1>0, <4>1, <4>3, <4>4
      <4>6. CancelInv'
        BY <2>0, <4>1, <4>2, <4>4, <4>5 DEF IndInv, CancelInv
      <4>7. DOMAIN cancels' \subseteq Id /\ Range(cancels') \subseteq Attempt
        BY <1>0, <4>3, Zenon DEF Without, Restrict, Range
      <4> QED  BY <4>5, <4>6, <4>7
    <3>2. CASE m.id \notin DOMAIN cancels
      BY <1>0, <2>0, <3>2 DEF deliver_cancel, IndInv, CancelInv
    <3> QED  BY <3>1, <3>2
  <2>2. PeerInv'
    BY <1>0, <1>1, <2>0, InboxKeeps, Zenon
  <2>3. TypeOK' /\ LifeInv'
    BY <1>0, <1>1, <2>0, <2>1 DEF IndInv, TypeOK, LifeInv
  <2>4. IdInv' /\ SlotInv' /\ RxInv' /\ AnswerIsOwn'
    BY <1>0, <2>0, Zenon DEF IndInv, IdInv, Used, SlotInv, RxInv, RxGood, AnswerIsOwn
  <2>5. PromiseStep
    BY <1>0, <2>0, SameOutcomes
  <2> QED  BY <2>1, <2>2, <2>3, <2>4, <2>5 DEF IndInv
<1> QED  BY <1>2, <1>3

\* The reader fails what is left: every request with a slot gets the cause.
LEMMA FailAllKeeps ==
  ASSUME IndInv, ReadEnd \/ DrainPending \/ DrainCancels \/ Done
  PROVE  IndInv' /\ PromiseStep
<1>0. /\ call \in [Call -> Outstanding] /\ attempt \in [Attempt -> CancelCall] /\ life \in Lifecycle
      /\ UNCHANGED <<next_id, closer, shut, asked, toCancel, inbox, gone>>
      /\ life.state # "connected" => life.close_err \in Causes
      /\ \A c \in Call : call[c] \in Outstanding
  BY DEF IndInv, TypeOK, LifeInv, Lifecycle, Causes, ReadEnd, DrainPending, DrainCancels, Done, peer
<1>1. CASE ReadEnd
  <2> DEFINE e == IF life.state = "connected" THEN "lost" ELSE life.close_err
  <2>1. /\ life' = [state |-> "closed", close_err |-> e] /\ reader' = "drain_pending"
        /\ UNCHANGED <<call, pending, cancels, attempt, done>>
    BY <1>1 DEF ReadEnd, FailLife
  <2>2. e \in Causes
    BY <1>0 DEF Causes
  <2>3. life.state = "closed" => life' = life
    <3>1. life = [state |-> life.state, close_err |-> life.close_err]
      BY <1>0 DEF Lifecycle
    <3> QED  BY <2>1, <3>1
  <2> HIDE DEF e
  <2>4. IdInv' /\ SlotInv' /\ PeerInv' /\ RxInv' /\ AnswerIsOwn'
    BY <1>0, <2>1, <2>3, CallsUnmoved
  <2>5. TypeOK' /\ LifeInv' /\ CancelInv'
    <3>1. life' \in Lifecycle /\ life'.state = "closed" /\ life'.close_err # "none"
      BY <2>1, <2>2 DEF Lifecycle, Causes
    <3> QED  BY <1>0, <2>1, <3>1 DEF IndInv, TypeOK, LifeInv, CancelInv
  <2>6. PromiseStep
    <3>1. life.state \in {"connected", "closing", "closed"}
      BY <1>0 DEF Lifecycle
    <3>2. life'.state = "closed" /\ life'.close_err = e
      BY <2>1
    <3> QED  BY <2>1, <2>2, <2>3, <3>1, <3>2, EndStep DEF e
  <2> QED  BY <2>4, <2>5, <2>6 DEF IndInv
<1>2. CASE DrainPending
  <2> DEFINE v == Plain(life.close_err)
  <2>1. /\ call' = [c \in Call |-> IF c \in Range(pending) THEN Received(call[c], v) ELSE call[c]]
        /\ pending' = << >> /\ reader' = "drain_cancels" /\ UNCHANGED <<life, done, cancels, attempt>>
        /\ life.state = "closed"
    BY <1>2 DEF DrainPending, IndInv, LifeInv
  <2>2. v \in Value /\ v # Empty
    <3>1. v \in Value
      BY <1>0, <2>1, Zenon DEF Value, Plain
    <3> QED  BY <3>1, EmptyIsNone
  <2>3. DOMAIN pending' = {} /\ Range(pending') = {}
    BY <2>1 DEF Range
  <2> HIDE DEF v
  <2>4. ASSUME NEW c \in Call
        PROVE  /\ call'[c] \in Outstanding
               /\ call'[c].pc = call[c].pc /\ call'[c].id = call[c].id
               /\ call'[c].result = call[c].result /\ call'[c].of = call[c].of
               /\ RxGood(c)'
               /\ call[c].pc \in {"registered", "waiting"} =>
                    call'[c].rx # Empty \/ c \in Range(pending')
    <3> DEFINE q == Received(call[c], v)
    <3>1. /\ q \in Outstanding /\ q.pc = call[c].pc /\ q.id = call[c].id /\ q.result = call[c].result
          /\ q.of = call[c].of /\ q.rx = IF call[c].pc = "over" THEN call[c].rx ELSE v
      BY <1>0, <2>2, ReceivedType
    <3>2. call'[c] = IF c \in Range(pending) THEN q ELSE call[c]
      BY <2>1
    <3> HIDE DEF q
    <3>3. RxGood(c) /\ (call[c].pc \in {"registered", "waiting"} => call[c].rx # Empty \/ c \in Range(pending))
      BY DEF IndInv, RxInv, SlotInv
    <3>4. RxGood(c)'
      BY <2>1, <3>1, <3>2, <3>3 DEF RxGood, v
    <3> QED  BY <1>0, <2>2, <3>1, <3>2, <3>3, <3>4, Zenon
  <2>5. call' \in [Call -> Outstanding]
    BY <2>1, <2>4
  <2>6. IdInv' /\ SlotInv' /\ RxInv' /\ AnswerIsOwn' /\ PromiseStep
    BY <1>0, <2>1, <2>3, <2>4, <2>5, ValuesKeep
  <2>7. PeerInv'
    <3>1. inbox' \in Seq(Pdu) /\ \A i \in DOMAIN inbox' : \E j \in DOMAIN inbox : inbox'[i] = inbox[j]
      BY <1>0 DEF IndInv, TypeOK
    <3> QED  BY <1>0, <2>4, <3>1, InboxKeeps, Zenon
  <2>8. TypeOK' /\ LifeInv' /\ CancelInv'
    BY <1>0, <2>1, <2>3, <2>5 DEF IndInv, TypeOK, LifeInv, CancelInv
  <2> QED  BY <2>6, <2>7, <2>8 DEF IndInv
<1>3. CASE DrainCancels
  <2> DEFINE v == Plain(life.close_err)
  <2>1. /\ attempt' = [k \in Attempt |-> IF k \in Range(cancels) /\ attempt[k].pc # "expired"
                                          THEN Received(attempt[k], v) ELSE attempt[k]]
        /\ cancels' = << >> /\ reader' = "drained" /\ UNCHANGED <<life, done, pending, call>>
        /\ life.state = "closed"
    BY <1>3, Zenon DEF DrainCancels, IndInv, LifeInv
  <2>2. v \in Value /\ v.kind \in Causes
    BY <1>0, <2>1, Zenon DEF Value, Plain
  <2>3. DOMAIN cancels' = {} /\ Range(cancels') = {}
    BY <2>1 DEF Range
  <2> HIDE DEF v
  <2>4. ASSUME NEW k \in Attempt
        PROVE  attempt'[k] \in CancelCall /\ attempt'[k].rx \in {attempt[k].rx, v}
    <3>1. attempt[k] \in CancelCall
      BY <1>0
    <3>2. Received(attempt[k], v) \in CancelCall /\ Received(attempt[k], v).rx \in {attempt[k].rx, v}
      BY <2>2, <3>1 DEF CancelCall, Received
    <3> QED  BY <2>1, <3>1, <3>2
  <2>5. attempt' \in [Attempt -> CancelCall] /\ CancelInv'
    <3>1. attempt' \in [Attempt -> CancelCall]
      BY <2>1, <2>4
    <3> QED  BY <2>2, <2>4, <3>1 DEF IndInv, CancelInv
  <2>6. TypeOK' /\ LifeInv'
    BY <1>0, <2>1, <2>3, <2>5 DEF IndInv, TypeOK, LifeInv
  <2>7. IdInv' /\ SlotInv' /\ PeerInv' /\ RxInv' /\ AnswerIsOwn'
    BY <1>0, <2>1, CallsUnmoved
  <2>8. PromiseStep
    BY <2>1, SameOutcomes
  <2> QED  BY <2>5, <2>6, <2>7, <2>8 DEF IndInv
<1>4. CASE Done
  <2>1. done' = TRUE /\ reader' = "ended" /\ UNCHANGED <<life, pending, cancels, call, attempt>> /\ life.state = "closed"
    BY <1>4 DEF Done, IndInv, LifeInv
  <2>2. TypeOK' /\ LifeInv' /\ CancelInv'
    BY <1>0, <2>1 DEF IndInv, TypeOK, LifeInv, CancelInv
  <2>3. IdInv' /\ SlotInv' /\ PeerInv' /\ RxInv' /\ AnswerIsOwn'
    BY <1>0, <2>1, CallsUnmoved
  <2>4. PromiseStep
    BY <2>1, SameOutcomes
  <2> QED  BY <2>2, <2>3, <2>4 DEF IndInv
<1> QED  BY <1>1, <1>2, <1>3, <1>4

\* close, abort and the drop of the Conn end the association once, with one cause.
LEMMA EndingKeeps ==
  ASSUME IndInv, Ending
  PROVE  IndInv' /\ PromiseStep
<1>0. /\ life \in Lifecycle /\ UNCHANGED <<done, next_id, pending, cancels, call, attempt, asked, toCancel, inbox, gone>>
      /\ closer' \in {"idle", "closing", "shut", "over"} /\ shut' \in BOOLEAN
      /\ reader' = reader \/ (reader = "reading" /\ reader' = "aborted")
  BY Zenon DEF IndInv, TypeOK, Ending, CloseBegin, CloseWrite, finish_close, DropConn, peer
<1>1. \/ life' = life
      \/ /\ life.state = "connected" /\ reader \in {"reading", "aborted"}
         /\ \E e \in Causes : life' = [state |-> "closing", close_err |-> e]
  <2>1. CASE CloseBegin
    <3>1. life.state = "connected" => reader \in {"reading", "aborted"}
      BY DEF IndInv, LifeInv
    <3> QED  BY <2>1, <3>1 DEF CloseBegin, Causes
  <2>2. CASE finish_close
    <3>1. life = [state |-> life.state, close_err |-> life.close_err] /\ life.state = "closed"
      BY <1>0, <2>2 DEF Lifecycle, finish_close, IndInv, LifeInv
    <3> QED  BY <2>2, <3>1 DEF finish_close
  <2>3. CASE CloseWrite \/ DropConn
    BY <2>3 DEF CloseWrite, DropConn
  <2> QED  BY <2>1, <2>2, <2>3 DEF Ending
<1>2. /\ life' \in Lifecycle /\ (life.state = "closed" => life' = life)
      /\ life' = life \/ (/\ life.state = "connected" /\ life'.state = "closing"
                        /\ life'.close_err \in Causes /\ reader \in {"reading", "aborted"})
  BY <1>0, <1>1 DEF Lifecycle
<1>3. IdInv' /\ SlotInv' /\ PeerInv' /\ RxInv' /\ AnswerIsOwn'
  BY <1>0, <1>2, CallsUnmoved
<1>4. TypeOK' /\ CancelInv'
  BY <1>0, <1>2 DEF IndInv, TypeOK, CancelInv
<1>5. LifeInv'
  BY <1>0, <1>2 DEF IndInv, LifeInv, Causes
<1>6. PromiseStep
  BY <1>0, <1>2, EndStep
<1> QED  BY <1>3, <1>4, <1>5, <1>6 DEF IndInv

\* The peer answers with the identifier it was asked under, or goes.
LEMMA PeerKeeps ==
  ASSUME IndInv, Peer
  PROVE  IndInv' /\ PromiseStep
<1>0. /\ UNCHANGED <<life, done, next_id, reader, closer, shut, pending, cancels, call, attempt>>
      /\ asked' \subseteq asked /\ toCancel' \subseteq toCancel /\ gone' \in BOOLEAN
      /\ inbox \in Seq(Pdu) /\ toCancel \subseteq Attempt
  BY Zenon DEF IndInv, TypeOK, Peer, Answer, AnswerCancel, PeerGoes, local
<1>1. \A r \in asked : r[1] \in Id /\ r[2] \in Call /\ r[1] # 0 /\ call[r[2]].id = r[1]
  BY DEF IndInv, TypeOK, PeerInv
<1>2. ASSUME NEW x \in Seq(Pdu), inbox' = inbox \o x,
             \A i \in DOMAIN x : x[i].kind \in {"response", "error"} =>
               x[i].id # 0 /\ call[x[i].of].id = x[i].id
      PROVE  inbox' \in Seq(Pdu) /\ PeerInv'
  <2>1. inbox' \in Seq(Pdu)
    BY <1>0, <1>2
  <2>2. ASSUME NEW i \in DOMAIN inbox'
        PROVE  \/ i \in DOMAIN inbox /\ inbox'[i] = inbox[i]
               \/ i - Len(inbox) \in DOMAIN x /\ inbox'[i] = x[i - Len(inbox)]
    BY <1>0, <1>2, <2>2
  <2>3. \A i \in DOMAIN inbox' :
          \/ \E j \in DOMAIN inbox : inbox'[i] = inbox[j]
          \/ inbox'[i].kind \in {"response", "error"} =>
               inbox'[i].id # 0 /\ call[inbox'[i].of].id = inbox'[i].id
    BY <1>2, <2>2, Zenon
  <2> QED  BY <1>0, <2>1, <2>3, InboxKeeps, Zenon
<1>3. inbox' \in Seq(Pdu) /\ PeerInv'
  <2>1. CASE \E r \in asked : Answer(r)
    <3>1. PICK r \in asked : Answer(r)
      BY <2>1
    <3> DEFINE m == [kind |-> "response", id |-> r[1], of |-> r[2]]
    <3>2. m \in Pdu /\ m.id = r[1] /\ m.of = r[2]
      BY <1>1 DEF Pdu
    <3>3. inbox' = Append(inbox, m)
      BY <3>1 DEF Answer
    <3> HIDE DEF m
    <3>4. <<m>> \in Seq(Pdu) /\ inbox' = inbox \o <<m>> /\ DOMAIN <<m>> = {1} /\ <<m>>[1] = m
      BY <1>0, <3>2, <3>3
    <3> QED  BY <1>1, <1>2, <3>2, <3>4, Zenon
  <2>2. CASE \E k \in toCancel : AnswerCancel(k)
    <3>1. PICK k \in toCancel : AnswerCancel(k)
      BY <2>2
    <3>2. attempt[k].id \in Id
      <4>1. attempt[k] \in CancelCall
        BY <1>0 DEF IndInv, TypeOK
      <4> QED  BY <4>1 DEF CancelCall
    <3> DEFINE a == [kind |-> "agreed", id |-> attempt[k].id, of |-> NoCall]
               n == [kind |-> "refused", id |-> attempt[k].id, of |-> NoCall]
    <3>3. a \in Pdu /\ n \in Pdu /\ a.kind = "agreed" /\ n.kind = "refused"
      BY <3>2, Zenon DEF Pdu
    <3>4. CASE inbox' = Append(inbox, n)
      <4> HIDE DEF n
      <4>1. <<n>> \in Seq(Pdu) /\ inbox' = inbox \o <<n>> /\ DOMAIN <<n>> = {1} /\ <<n>>[1] = n
        BY <1>0, <3>3, <3>4
      <4> QED  BY <1>2, <3>3, <4>1, Zenon
    <3>5. CASE inbox' # Append(inbox, n)
      <4>1. PICK r \in asked :
              /\ r[1] = attempt[k].id
              /\ inbox' = inbox \o <<a, [kind |-> "error", id |-> attempt[k].id, of |-> r[2]]>>
        BY <3>1, <3>5, Zenon DEF AnswerCancel
      <4> DEFINE e == [kind |-> "error", id |-> attempt[k].id, of |-> r[2]]
      <4>2. e \in Pdu /\ e.id = r[1] /\ e.of = r[2]
        BY <1>1, <3>2, <4>1 DEF Pdu
      <4> HIDE DEF a, e
      <4>3. /\ <<a, e>> \in Seq(Pdu) /\ inbox' = inbox \o <<a, e>> /\ DOMAIN <<a, e>> = {1, 2}
            /\ <<a, e>>[1] = a /\ <<a, e>>[2] = e
        BY <3>3, <4>1, <4>2 DEF e
      <4>4. \A i \in DOMAIN <<a, e>> : <<a, e>>[i].kind \in {"response", "error"} => <<a, e>>[i] = e
        BY <3>3, <4>3, Zenon
      <4>5. e.id # 0 /\ call[e.of].id = e.id
        BY <1>1, <4>1, <4>2, Zenon
      <4> DEFINE x == <<a, e>>
      <4>6. \A i \in DOMAIN x : x[i].kind \in {"response", "error"} =>
              x[i].id # 0 /\ call[x[i].of].id = x[i].id
        BY <4>4, <4>5, Zenon
      <4>7. x \in Seq(Pdu) /\ inbox' = inbox \o x
        BY <4>3
      <4> HIDE DEF x
      <4> QED  BY <1>2, <4>6, <4>7, Zenon
    <3> QED  BY <3>4, <3>5
  <2>3. CASE PeerGoes
    <3>1. inbox' = inbox /\ asked' = asked
      BY <2>3 DEF PeerGoes
    <3> QED  BY <1>0, <3>1, Zenon DEF IndInv, PeerInv
  <2> QED  BY <2>1, <2>2, <2>3 DEF Peer
<1>4. TypeOK' /\ LifeInv' /\ CancelInv'
  BY <1>0, <1>3, Zenon DEF IndInv, TypeOK, LifeInv, CancelInv
<1>5. IdInv' /\ SlotInv' /\ RxInv' /\ AnswerIsOwn'
  BY <1>0, Zenon DEF IndInv, IdInv, Used, SlotInv, RxInv, RxGood, AnswerIsOwn
<1>6. PromiseStep
  BY <1>0, SameOutcomes
<1> QED  BY <1>3, <1>4, <1>5, <1>6 DEF IndInv

-----------------------------------------------------------------------------
(* The identifiers are counted: this part rests on the facts of finite sets *)

INSTANCE FiniteSetTheorems

\* The number of the requests with an identifier.
LEMMA UsedCount ==
  ASSUME IndInv
  PROVE  /\ IsFiniteSet(Used) /\ Cardinality(Used) \in Nat /\ Cardinality(Call) \in Nat
         /\ Cardinality(Used) < InvokeIds
         /\ \A c \in Call : call[c].id = 0 => Cardinality(Used) + 1 < InvokeIds
<1>1. IsFiniteSet(Call) /\ Used \in SUBSET Call /\ Cardinality(Call) \in Nat
  BY InvokeIdsAssumption, FS_CardinalityType DEF Used
<1>2. IsFiniteSet(Used) /\ Cardinality(Used) <= Cardinality(Call) /\ Cardinality(Used) \in Nat
  BY <1>1, FS_Subset, FS_CardinalityType
<1>3. ASSUME NEW c \in Call, call[c].id = 0
      PROVE  Cardinality(Used) # Cardinality(Call)
  <2>1. Used # Call
    BY <1>3 DEF Used
  <2> QED  BY <1>1, <2>1, FS_Subset
<1> QED  BY <1>1, <1>2, <1>3, InvokeIdsAssumption

\* A new association.
LEMMA ClientStarts == Init => IndInv
<1> SUFFICES ASSUME Init PROVE IndInv
  OBVIOUS
<1>0. 0 \in Id /\ 1 \in Id
  BY InvokeIdsAssumption DEF Id
<1> DEFINE fresh == [pc |-> "idle", id |-> 0, rx |-> Empty, result |-> "none", of |-> NoCall]
           none  == [pc |-> "idle", id |-> 0, rx |-> Empty, result |-> "none"]
<1>1. call = [c \in Call |-> fresh] /\ attempt = [k \in Attempt |-> none]
  BY DEF Init
<1>2. /\ fresh \in Outstanding /\ fresh.pc = "idle" /\ fresh.id = 0 /\ fresh.rx = Empty
      /\ fresh.result = "none" /\ none \in CancelCall /\ none.rx = Empty
  BY <1>0 DEF Outstanding, CancelCall, Outcomes
<1> HIDE DEF fresh, none
<1>3. Used = {} /\ Cardinality(Used) = 0
  BY <1>1, <1>2, FS_EmptySet, Zenon DEF Used
<1>4. /\ pending = << >> /\ cancels = << >> /\ asked = {} /\ toCancel = {} /\ inbox = << >>
      /\ next_id = 1 /\ reader = "reading" /\ closer = "idle" /\ ~done /\ ~shut /\ ~gone
      /\ done \in BOOLEAN /\ shut \in BOOLEAN /\ gone \in BOOLEAN
      /\ life = [state |-> "connected", close_err |-> "none"]
  BY Zenon DEF Init
<1>5. DOMAIN << >> = {} /\ Range(<< >>) = {} /\ << >> \in Seq(Pdu)
  BY DEF Range
<1>6. TypeOK
  <2>1. call \in [Call -> Outstanding] /\ attempt \in [Attempt -> CancelCall]
    BY <1>1, <1>2
  <2>2. life \in Lifecycle
    BY <1>4 DEF Lifecycle
  <2> QED  BY <1>0, <1>4, <1>5, <2>1, <2>2 DEF TypeOK
<1>7. LifeInv
  BY <1>4 DEF LifeInv
<1>8. IdInv
  <2>1. next_id = (Cardinality(Used) + 1) % InvokeIds
    BY <1>3, <1>4, InvokeIdsAssumption
  <2> QED  BY <1>1, <1>2, <1>3, <2>1 DEF IdInv
<1>9. SlotInv /\ PeerInv /\ RxInv /\ AnswerIsOwn /\ CancelInv
  BY <1>1, <1>2, <1>4, <1>5 DEF SlotInv, PeerInv, RxInv, RxGood, AnswerIsOwn, CancelInv
<1> QED  BY <1>6, <1>7, <1>8, <1>9 DEF IndInv

\* A request takes the next identifier, which no other has, or is refused with
\* the cause.
LEMMA CheckKeeps ==
  ASSUME IndInv, NEW c \in Call, Check(c)
  PROVE  IndInv' /\ PromiseStep
<1>0. /\ call \in [Call -> Outstanding] /\ call[c] \in Outstanding /\ call[c].pc = "idle"
      /\ call[c].id = 0 /\ life \in Lifecycle /\ next_id \in Id
      /\ UNCHANGED <<life, done, pending, cancels, attempt, reader, closer, shut, asked, toCancel,
                     inbox, gone>>
  BY DEF IndInv, TypeOK, IdInv, Check, peer
<1>1. \A i \in DOMAIN pending : pending[i] \in Call /\ pending[i] # c
  BY <1>0 DEF IndInv, TypeOK, SlotInv, Range
<1>2. \A r \in asked : r[2] \in Call /\ r[2] # c
  BY <1>0 DEF IndInv, TypeOK, PeerInv
<1>3. \A i \in DOMAIN inbox : inbox[i].kind \in {"response", "error"} =>
        inbox[i].of \in Call /\ inbox[i].of # c
  <2>1. \A i \in DOMAIN inbox : inbox[i] \in Pdu
    BY DEF IndInv, TypeOK
  <2>2. \A i \in DOMAIN inbox : inbox[i].kind \in {"response", "error"} => inbox[i].of \in Call
    BY <2>1 DEF Pdu
  <2> QED  BY <1>0, <2>2, Zenon DEF IndInv, PeerInv
<1>4. ASSUME NEW q \in Outstanding, call' = [call EXCEPT ![c] = q], q.rx = call[c].rx,
             q.pc \in {"checked", "over"}, q.result \in {"response", "error"} => q.of = c,
             IdInv', next_id' \in Id
      PROVE  IndInv'
  <2>1. call' \in [Call -> Outstanding] /\ call'[c] = q /\ \A d \in Call : d # c => call'[d] = call[d]
    BY <1>0, <1>4
  <2>2. TypeOK' /\ LifeInv' /\ CancelInv'
    BY <1>0, <1>4, <2>1 DEF IndInv, TypeOK, LifeInv, CancelInv
  <2>3. SlotInv' /\ PeerInv'
    BY <1>0, <1>1, <1>2, <1>3, <1>4, <2>1 DEF IndInv, SlotInv, PeerInv
  <2>4. RxInv' /\ AnswerIsOwn'
    BY <1>0, <1>4, <2>1, Zenon DEF IndInv, RxInv, RxGood, AnswerIsOwn
  <2> QED  BY <1>4, <2>2, <2>3, <2>4 DEF IndInv
<1>5. CASE closed_error = "none"
  <2> DEFINE q == [call[c] EXCEPT !.pc = "checked", !.id = next_id]
             n == Cardinality(Used)
  <2>1. call' = [call EXCEPT ![c] = q] /\ next_id' = (next_id + 1) % InvokeIds
    BY <1>0, <1>5, Zenon DEF Check
  <2>2. /\ q \in Outstanding /\ q.pc = "checked" /\ q.id = next_id /\ q.rx = call[c].rx
        /\ q.result = call[c].result /\ q.of = call[c].of
    BY <1>0, Zenon DEF Outstanding
  <2> HIDE DEF q
  <2>3. n \in Nat /\ n + 1 < InvokeIds /\ IsFiniteSet(Used)
    BY <1>0, UsedCount
  <2>4. next_id = (n + 1) % InvokeIds
    BY DEF IndInv, IdInv
  <2>5. PICK m \in Nat : m = n + 1
    BY <2>3
  <2>6. next_id = m /\ m # 0 /\ m < InvokeIds
    BY <2>3, <2>4, <2>5, InvokeIdsAssumption
  <2>7. call'[c] = q /\ \A d \in Call : d # c => call'[d] = call[d]
    BY <1>0, <2>1
  <2>8. Used' = Used \cup {c} /\ c \notin Used
    BY <1>0, <2>2, <2>6, <2>7 DEF Used
  <2>9. Cardinality(Used') = m
    BY <2>3, <2>5, <2>8, FS_AddElement
  <2>10. next_id' \in Id /\ next_id' = (m + 1) % InvokeIds
    BY <2>1, <2>6, InvokeIdsAssumption DEF Id
  <2>11. IdInv'
    <3>1. \A d \in Used : d \in Call /\ d # c /\ call'[d] = call[d] /\ call[d].id \in 1 .. n
      BY <2>7, <2>8 DEF IndInv, IdInv, Used
    <3>2. \A d \in Used : call'[d].id \in 1 .. m /\ call'[d].id # m
      BY <2>3, <2>5, <3>1
    <3>3. call'[c].id = m /\ m \in 1 .. m
      BY <2>2, <2>6, <2>7
    <3>4. \A d \in Used' : call'[d].id \in 1 .. m
      BY <2>8, <3>2, <3>3
    <3>5. \A d, e \in Used' : call'[d].id = call'[e].id => d = e
      <4>1. \A d, e \in Used : call'[d].id = call'[e].id => d = e
        BY <3>1 DEF IndInv, IdInv
      <4> QED  BY <2>8, <3>2, <3>3, <4>1
    <3>6. \A d \in Call : /\ call'[d].pc = "idle" => call'[d].id = 0
                          /\ call'[d].pc \in {"checked", "registered", "waiting"} => call'[d].id # 0
      BY <2>2, <2>6, <2>7 DEF IndInv, IdInv
    <3> QED  BY <2>9, <2>10, <3>4, <3>5, <3>6 DEF IdInv
  <2>12. q.result \in {"response", "error"} => q.of = c
    BY <2>2 DEF IndInv, AnswerIsOwn
  <2>13. IndInv'
    BY <1>4, <2>1, <2>2, <2>10, <2>11, <2>12, Zenon
  <2>14. PromiseStep
    <3>1. Outcome(call[c]) = "none" /\ Outcome(q) = "open" /\ life.state = "connected"
      BY <1>0, <1>5, <2>2 DEF Outcome, closed_error
    <3> QED  BY <1>0, <2>1, <3>1, OneOutcome, Zenon
  <2> QED  BY <2>13, <2>14
<1>6. CASE closed_error # "none"
  <2> DEFINE e == closed_error
             q == [call[c] EXCEPT !.pc = "over", !.result = e]
  <2>1. e \in Causes /\ e = life.close_err /\ life.state # "connected"
    BY <1>0, <1>6 DEF closed_error, IndInv, LifeInv, Lifecycle
  <2>2. call' = [call EXCEPT ![c] = q] /\ next_id' = next_id
    BY <1>0, <1>6, Zenon DEF Check
  <2> HIDE DEF e
  <2>3. /\ q \in Outstanding /\ q.pc = "over" /\ q.id = call[c].id /\ q.rx = call[c].rx /\ q.result = e
    BY <1>0, <2>1, Zenon DEF Outstanding, Outcomes
  <2> HIDE DEF q
  <2>4. call' \in [Call -> Outstanding] /\ call'[c] = q /\ \A d \in Call : d # c => call'[d] = call[d]
    BY <1>0, <2>2, <2>3
  <2>5. IdInv'
    BY <1>0, <2>2, <2>3, <2>4, IdsKeep
  <2>6. q.result \notin {"response", "error"}
    BY <2>1, <2>3 DEF Causes
  <2>7. IndInv'
    BY <1>0, <1>4, <2>2, <2>3, <2>5, <2>6, Zenon
  <2>8. Outcome(call[c]) = "none" /\ Outcome(q) = e
    BY <1>0, <2>3 DEF Outcome
  <2>9. PromiseStep
    BY <1>0, <2>1, <2>2, <2>8, OneOutcome, Zenon
  <2> QED  BY <2>7, <2>9
<1> QED  BY <1>5, <1>6

\* Every step keeps the invariant and is a step of Association or a stutter.
LEMMA ClientStep ==
  ASSUME IndInv, [Next]_vars
  PROVE  IndInv' /\ PromiseStep
<1>1. ASSUME NEW c \in Call, Request(c) PROVE IndInv' /\ PromiseStep
  BY <1>1, CheckKeeps, SendKeeps, WaitKeeps DEF Request
<1>2. ASSUME NEW k \in Attempt, Cancelling(k) PROVE IndInv' /\ PromiseStep
  BY <1>2, CancelKeeps
<1>3. CASE Reader
  BY <1>3, DispatchKeeps, FailAllKeeps DEF Reader
<1>4. CASE Ending
  BY <1>4, EndingKeeps
<1>5. CASE Peer
  BY <1>5, PeerKeeps
<1>6. CASE UNCHANGED vars
  <2>1. /\ UNCHANGED <<life, done, next_id, reader, closer, shut, pending, cancels, call, attempt>>
        /\ UNCHANGED <<asked, toCancel, inbox, gone>>
    BY <1>6 DEF vars
  <2>2. IdInv' /\ SlotInv' /\ PeerInv' /\ RxInv' /\ AnswerIsOwn'
    BY <2>1, CallsUnmoved
  <2>3. TypeOK' /\ LifeInv' /\ CancelInv'
    BY <2>1 DEF IndInv, TypeOK, LifeInv, CancelInv
  <2>4. PromiseStep
    BY <2>1, SameOutcomes
  <2> QED  BY <2>2, <2>3, <2>4 DEF IndInv
<1> QED  BY <1>1, <1>2, <1>3, <1>4, <1>5, <1>6 DEF Next

\* The association keeps its invariant.
LEMMA ClientInvariant == Spec => []IndInv
<1>1. IndInv /\ [Next]_vars => IndInv'
  BY ClientStep
<1> QED  BY <1>1, ClientStarts, PTL DEF Spec

-----------------------------------------------------------------------------
(* The theorems *)

\* A caller is given the response to its own request and to no other, for any
\* number of requests and cancels fewer than the invoke identifiers, however
\* late the answers are and whatever was dropped or timed out before.
THEOREM AnswersAreOwn == Spec => []AnswerIsOwn
<1>1. IndInv => AnswerIsOwn
  BY DEF IndInv
<1> QED  BY <1>1, ClientInvariant, PTL

\* The association implements Association: a request is opened only while it is
\* up, gets one outcome and keeps it, and is ended by the association's end only
\* with the one cause that start, wait, close, abort and fail_all agree on.
THEOREM AssociationImplemented == Spec => Implements
<1>1. Init => Promise!Init
  BY DEF Init, Promise!Init
<1>2. IndInv /\ [Next]_vars => [Promise!Next]_(Promise!vars)
  BY ClientStep DEF PromiseStep
<1> QED  BY <1>1, <1>2, ClientInvariant, PTL DEF Implements, Promise!Spec, Spec

\* No variable leaves its type: identifiers stay in their range, a slot names a
\* request, and a cancel's result is never a response.
THEOREM ClientTypes == Spec => []TypeOK
<1>1. IndInv => TypeOK
  BY DEF IndInv
<1> QED  BY <1>1, ClientInvariant, PTL
=============================================================================
