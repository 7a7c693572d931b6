------------------------------ MODULE RSession ------------------------------
(***************************************************************************)
(* A routable session (rsession/session.rs) between a publisher and a      *)
(* subscriber whose key stores the keepers of module KeyKeeper change      *)
(* under them: Session::send from several threads, the reader thread's     *)
(* queue, and Session::check with one replay window per sending stream and *)
(* key.  The network delivers in order; what it repeats and reorders is    *)
(* module ReplayWindow's subject.                                          *)
(***************************************************************************)
EXTENDS KeyKeeper, ReplayWindow, Sequences

CONSTANTS
    Pub, Sub,       \* the two members
    Thread,         \* threads of the publisher that send
    Queue,          \* the reader's channel: 64 in the code
    MaxSpdu         \* bound: SPDUs sent

VARIABLES
    policy,         \* Config: [secured, allow_unsecured, width]
    number,         \* Session::number
    sending,        \* per thread, the key `send' read, or Idling
    air,            \* SPDUs on the network, in order: [key, num]
    rxq,            \* the reader's channel
    wins,           \* Session::replay, by key: a partial function
    stats,          \* Counters
    open            \* FALSE once the session is shut down

sessVars == <<policy, number, sending, air, rxq, wins, stats, open>>

Idling == -1

NoStats == [accepted |-> 0, unknown |-> 0, unsecured |-> 0, replayed |-> 0]

SessInit ==
    /\ policy \in [secured : BOOLEAN, allow_unsecured : BOOLEAN, width : {1, Bits}]
    /\ number = 0
    /\ sending = [t \in Thread |-> Idling]
    /\ air = <<>>
    /\ rxq = <<>>
    /\ wins = [k \in {} |-> NewWindow]
    /\ stats = NoStats
    /\ open = TRUE

(***************************************************************************)
(* Session::send up to the lock: the active key is read, and without one   *)
(* nothing is sent.                                                        *)
(***************************************************************************)
ReadKey(t) ==
    /\ sending[t] = Idling /\ number < MaxSpdu
    /\ policy.secured => kstore[Pub].active # 0     \* Error::NoActiveKey
    /\ sending' = [sending EXCEPT ![t] = IF policy.secured THEN kstore[Pub].active ELSE 0]
    /\ UNCHANGED <<policy, number, air, rxq, wins, stats, open>>

(***************************************************************************)
(* A bug: the number is not taken.                                         *)
(***************************************************************************)
SendOut_NotCounted(t) ==
    /\ sending[t] # Idling /\ number < MaxSpdu
    /\ air' = Append(air, [key |-> sending[t], num |-> number % Mod])
    /\ sending' = [sending EXCEPT ![t] = Idling]
    /\ UNCHANGED <<policy, number, rxq, wins, stats, open>>

(***************************************************************************)
(* Session::send under send_lock: the number is taken and the SPDU sent.   *)
(***************************************************************************)
SendOut(t) ==
    /\ sending[t] # Idling /\ number < MaxSpdu
    /\ air' = Append(air, [key |-> sending[t], num |-> number % Mod])
    /\ number' = number + 1
    /\ sending' = [sending EXCEPT ![t] = Idling]
    /\ UNCHANGED <<policy, rxq, wins, stats, open>>

(***************************************************************************)
(* read_loop moves a datagram to the channel, waiting when it is full; the *)
(* network may also lose it.                                               *)
(***************************************************************************)
ReadLoop ==
    /\ open /\ air # <<>> /\ Len(rxq) < Queue
    /\ rxq' = Append(rxq, Head(air))
    /\ air' = Tail(air)
    /\ UNCHANGED <<policy, number, sending, wins, stats, open>>

Lose ==
    /\ air # <<>>
    /\ air' = Tail(air)
    /\ UNCHANGED <<policy, number, sending, rxq, wins, stats, open>>

(***************************************************************************)
(* Session::check: the key is looked up, an unsecured SPDU is a matter of  *)
(* policy, a secured one goes through the window of its stream.            *)
(***************************************************************************)
window(k) == IF k \in DOMAIN wins THEN wins[k] ELSE NewWindow

check(s) ==
    IF s.key # 0 /\ s.key \notin kstore[Sub].ids THEN "unknown"
    ELSE IF s.key = 0 THEN IF policy.allow_unsecured THEN "accepted" ELSE "unsecured"
    ELSE IF fresh(window(s.key), s.num, policy.width) THEN "accepted" ELSE "replayed"

(***************************************************************************)
(* Session::receive_until for the next datagram of the channel.            *)
(***************************************************************************)
Receive ==
    /\ open /\ rxq # <<>>
    /\ LET s == Head(rxq)
       IN  /\ stats' = [stats EXCEPT ![check(s)] = @ + 1]
           /\ wins' = IF check(s) # "accepted" \/ s.key = 0 THEN wins
                      ELSE [k \in DOMAIN wins \cup {s.key} |->
                               IF k = s.key THEN recorded(window(k), s.num) ELSE wins[k]]
    /\ rxq' = Tail(rxq)
    /\ UNCHANGED <<policy, number, sending, air, open>>

Shutdown ==
    /\ open /\ open' = FALSE
    /\ UNCHANGED <<policy, number, sending, air, rxq, wins, stats>>

SessNext ==
    \/ \E t \in Thread : ReadKey(t) \/ SendOut(t)
    \/ ReadLoop \/ Lose \/ Receive \/ Shutdown

-----------------------------------------------------------------------------
SessTypeOK ==
    /\ number \in 0..MaxSpdu
    /\ sending \in [Thread -> Spi \cup {0, Idling}]
    /\ Len(rxq) <= Queue
    /\ \A k \in DOMAIN wins : wins[k].seen \subseteq 0..(Bits - 1)

(***************************************************************************)
(* On a network that keeps the order no SPDU is refused as a replay,       *)
(* whatever the width of the window and however the sending threads, a key *)
(* change between reading the key and taking the lock, and losses          *)
(* interleave: numbers are taken and sent under one lock, and a window     *)
(* belongs to one key.                                                     *)
(***************************************************************************)
InOrderIsFresh == stats.replayed = 0

=============================================================================
