----------------------------- MODULE SvControl -----------------------------
(***************************************************************************)
(* Sampled-value control blocks (server/svcb.rs) and the delivery of their *)
(* changes to the application (queue_sv, flush_sv of server/server.rs).    *)
(*                                                                         *)
(* A block changes under the model lock; the event that says so is queued  *)
(* after the lock is released and delivered under a lock of its own.       *)
(***************************************************************************)
EXTENDS Integers, Sequences, FiniteSets

CONSTANTS
  Conn,     \* associations
  SvBlk,    \* the sampled-value control blocks
  Unicast   \* those that are unicast, and so can be reserved

NoConn == "nobody"

ASSUME SvAssumption == Unicast \subseteq SvBlk /\ IsFiniteSet(SvBlk) /\ NoConn \notin Conn

VARIABLES
  svcb,       \* svcb[b]: [owner, Resv, SvEna]
  sv_queue,   \* events waiting for delivery
  sv_deliver, \* who holds the delivery lock
  told,       \* the last event delivered for each block
  made        \* observation: the changes of each block so far

svVars == <<svcb, sv_queue, sv_deliver, told, made>>

\* "n" numbers a block's changes, to observe the order they are delivered in.
SvEvent == [blk : SvBlk, enabled : BOOLEAN, reserved : BOOLEAN, n : Nat]

SvInit ==
  /\ svcb = [b \in SvBlk |-> [owner |-> NoConn, Resv |-> FALSE, SvEna |-> FALSE]]
  /\ sv_queue = <<>>
  /\ sv_deliver = NoConn
  /\ told = [b \in SvBlk |-> [enabled |-> FALSE, reserved |-> FALSE, n |-> 0]]
  /\ made = [b \in SvBlk |-> 0]

\* Whether an association may write an attribute of a block.
sv_check_write(c, b, attr) ==
  IF svcb[b].owner \notin {NoConn, c} THEN "TemporarilyUnavailable"
  ELSE IF attr = "SvEna" \/ (attr = "Resv" /\ b \in Unicast) THEN "ok"
  ELSE IF svcb[b].SvEna THEN "TemporarilyUnavailable"
  ELSE "ObjectAccessDenied"

event(b, st) == [blk |-> b, enabled |-> st.SvEna, reserved |-> b \in Unicast /\ st.Resv,
                 n |-> made[b] + 1]

\* A stored write: Resv sets or gives up the reservation.
sv_after(c, b, attr, v) ==
  IF attr = "Resv" THEN [svcb[b] EXCEPT !.Resv = v, !.owner = IF v THEN c ELSE NoConn]
  ELSE [svcb[b] EXCEPT !.SvEna = v]

\* before, store and on_write: an event when the value changed.
sv_on_write(c, b, attr, v) ==
  /\ svcb' = [svcb EXCEPT ![b] = sv_after(c, b, attr, v)]
  /\ made' = IF svcb[b][attr] # v THEN [made EXCEPT ![b] = @ + 1] ELSE made

sv_events(c, b, attr, v) ==
  IF svcb[b][attr] # v THEN <<event(b, sv_after(c, b, attr, v))>> ELSE <<>>

\* A bug: the blocks of an association that ends stay reserved.
sv_release_Keeps(c) == UNCHANGED <<svcb, made>>

\* release_conn: the blocks an association reserved are freed and disabled as
\* it ends, each with an event.
sv_release(c) ==
  LET mine == {b \in SvBlk : svcb[b].owner = c}
  IN /\ svcb' = [b \in SvBlk |->
                   IF b \in mine THEN [owner |-> NoConn, Resv |-> FALSE, SvEna |-> FALSE]
                   ELSE svcb[b]]
     /\ made' = [b \in SvBlk |-> IF b \in mine THEN made[b] + 1 ELSE made[b]]

\* The elements of a set in some order.
SetToSeq(S) ==
  CHOOSE f \in [1 .. Cardinality(S) -> S] :
    \A i, k \in 1 .. Cardinality(S) : f[i] = f[k] => i = k

sv_released(c) ==
  LET bs == SetToSeq({b \in SvBlk : svcb[b].owner = c})
  IN [i \in 1 .. Len(bs) |-> event(bs[i], [SvEna |-> FALSE, Resv |-> FALSE])]

queue_sv(evs) == sv_queue' = sv_queue \o evs

\* flush_sv takes the delivery lock ...
flush_lock(c) == sv_deliver = NoConn /\ sv_deliver' = c

\* ... and, while the queue has events, takes it whole and delivers each.
flush_batch ==
  /\ sv_queue # <<>>
  /\ told' = [b \in SvBlk |->
       LET mine == {i \in 1 .. Len(sv_queue) : sv_queue[i].blk = b}
       IN IF mine = {} THEN told[b]
          ELSE LET e == sv_queue[CHOOSE i \in mine : \A k \in mine : k <= i]
               IN [enabled |-> e.enabled, reserved |-> e.reserved, n |-> e.n]]
  /\ sv_queue' = <<>>

\* A bug: the lock is not given back.
flush_done_Holds == sv_queue = <<>> /\ UNCHANGED sv_deliver

flush_done == sv_queue = <<>> /\ sv_deliver' = NoConn

SvTypeOK ==
  /\ svcb \in [SvBlk -> [owner : Conn \cup {NoConn}, Resv : BOOLEAN, SvEna : BOOLEAN]]
  /\ sv_queue \in Seq(SvEvent)
  /\ \A b \in SvBlk : svcb[b].owner # NoConn => b \in Unicast /\ svcb[b].Resv
=============================================================================
