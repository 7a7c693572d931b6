------------------------------- MODULE Goose --------------------------------
(* A GOOSE publisher with its retransmission tasks (goose/publisher.rs), the  *)
(* Ethernet segment, and a supervised subscription (goose/subscriber.rs) to   *)
(* its control block.  Time passes in ticks between the steps, which take     *)
(* none; a timer may be some ticks late.                                       *)
EXTENDS Integers, Sequences, FiniteSets

CONSTANTS
  Thread,         \* threads that may use the publisher
  NoThread,       \* nobody
  StMax, SqMax,   \* the largest stNum and sqNum, 2^32 - 1
  Configs         \* the configurations and bounds a behaviour may have

\* The retransmission schedule in ticks, how late a timer may fire, the threads,
\* how many publishes, lost frames, refused writes and restarts there are, and
\* whether the subscription may be stopped.
Config == [retrans : Seq(Nat \ {0}), late : Nat, threads : SUBSET Thread,
           publishes : Nat, lost : Nat, failed : Nat, restarts : Nat, stops : BOOLEAN]

ASSUME ConfigAssumption ==
  /\ Configs \subseteq Config
  /\ \A c \in Configs : c.retrans # << >> /\ \A i \in DOMAIN c.retrans : c.late < c.retrans[i]
  /\ StMax \in Nat \ {0} /\ SqMax \in Nat \ {0}
  /\ NoThread \notin Thread

VARIABLES
  cfg,            \* PublisherConfig, with the bounds
  pub,            \* PubState: the stNum and sqNum being advertised
  closed,         \* the publisher is closed
  slot,           \* who holds the task slot
  thread,         \* what each thread is doing in the publisher
  tasks,          \* the retransmission tasks
  wire,           \* frames on their way to the subscriber
  written,        \* the last frame that went onto the segment
  since,          \* what has happened to frames since the last one on its way
  seq,            \* the tracker's state of the control block
  flags,          \* the anomalies of the last message, and what it is compared with
  watch,          \* the supervision: the block's deadline and its thread
  reading,        \* the reader thread is before the callback
  view,           \* what the application was told last
  stopped,        \* the subscription has been stopped
  used            \* how much of each bound has been used

publisher  == <<cfg, pub, closed, slot, thread, tasks>>
segment    == <<wire, written, since>>
subscriber == <<seq, flags, watch, reading, view, stopped>>
vars == <<cfg, pub, closed, slot, thread, tasks, wire, written, since, seq, flags, watch,
          reading, view, stopped, used>>

-----------------------------------------------------------------------------
Retrans == cfg.retrans
Min(a, b) == IF a < b THEN a ELSE b
Interval(n) == Retrans[Min(n + 1, Len(Retrans))]
\* Mutant of tatl: the interval is not doubled.
tatl_Once(n) == Interval(n)

\* timeAllowedToLive of transmission n of a state.
tatl(n) == 2 * Interval(n)

\* Both counters roll over to 1.
NextSt(n) == IF n = StMax THEN 1 ELSE n + 1
NextSq(n) == IF n = SqMax THEN 1 ELSE n + 1

\* What happened since the frame before: frames lost, "again" for one that repeated
\* a number, a restart of the publisher, and time without a task that sends.
Since == [lost : SUBSET {"frame", "again"}, reborn : BOOLEAN, silent : BOOLEAN]
Nothing == [lost |-> {}, reborn |-> FALSE, silent |-> FALSE]
Message == [st : 1 .. StMax, sq : 0 .. SqMax, tatl : Nat]
Frame == [msg : Message, since : Since]
NoMessage == [st |-> 0, sq |-> 0, tatl |-> 0]

\* A retransmission task: its message, whether its generation is the current
\* one, whether it is the one in the slot, and how far it is.
Task == [msg : Message, fresh : BOOLEAN, handle : BOOLEAN, i : 0 .. Len(Retrans),
         left : Int, awake : BOOLEAN]

Idle == [pc |-> "idle", change |-> FALSE, msg |-> NoMessage]

Init ==
  /\ cfg \in Configs
  /\ pub = [st |-> 0, sq |-> 0]
  /\ closed = FALSE
  /\ slot = NoThread
  /\ thread = [t \in Thread |-> Idle]
  /\ tasks = {}
  /\ wire = << >>
  /\ written = NoMessage
  /\ since = Nothing
  /\ seq = [heard |-> FALSE, st |-> 0, sq |-> 0, tatl |-> 0, age |-> 0]
  /\ flags = [regressed |-> FALSE, gap |-> FALSE, stale |-> FALSE, sq |-> 0, again |-> FALSE,
              since |-> Nothing]
  /\ watch = [armed |-> FALSE, left |-> 0, fired |-> FALSE, calling |-> FALSE]
  /\ reading = FALSE
  /\ view = "nothing"
  /\ stopped = FALSE
  /\ used = [publishes |-> 0, lost |-> 0, failed |-> 0, restarts |-> 0]

-----------------------------------------------------------------------------
(* The segment: Interface::write_frame                                        *)

\* The frame is written, and delivered or lost.
Written(m) ==
  LET again == m.sq = 0 /\ m.st = written.st
  IN  /\ written' = m
      /\ \/ /\ wire' = Append(wire, [msg |-> m, since |-> since])
            /\ since' = Nothing
            /\ UNCHANGED used
         \/ /\ used.lost < cfg.lost
            /\ used' = [used EXCEPT !.lost = @ + 1]
            /\ since' = [since EXCEPT !.lost = @ \cup {IF again THEN "again" ELSE "frame"}]
            /\ UNCHANGED wire

\* The interface refuses the frame.
WriteFails ==
  /\ used.failed < cfg.failed
  /\ used' = [used EXCEPT !.failed = @ + 1]
  /\ UNCHANGED segment

-----------------------------------------------------------------------------
(* The publisher                                                              *)

\* JoinHandle::abort on the task in the slot: one that sleeps is gone, one that
\* runs is gone when it next sleeps.
Aborted == {[k EXCEPT !.handle = FALSE] : k \in {j \in tasks : ~j.handle \/ j.awake}}

\* publish or refresh on a publisher that is not closed.
PublishBegin(t, change) ==
  /\ thread[t].pc = "idle"
  /\ ~closed
  /\ used.publishes < cfg.publishes
  /\ used' = [used EXCEPT !.publishes = @ + 1]
  /\ thread' = [thread EXCEPT ![t].pc = "begun", ![t].change = change]
  /\ UNCHANGED <<cfg, pub, closed, slot, tasks, segment, subscriber>>

\* With the slot held, the new state is recorded under the state lock and its
\* generation outdates every task.
publish_state(t) ==
  LET st == IF thread[t].change THEN NextSt(pub.st) ELSE IF pub.st = 0 THEN 1 ELSE pub.st
  IN  /\ thread[t].pc = "begun"
      /\ slot = NoThread
      /\ slot' = t
      /\ pub' = [st |-> st, sq |-> 0]
      /\ tasks' = {[k EXCEPT !.fresh = FALSE] : k \in tasks}
      /\ thread' = [thread EXCEPT ![t] = [pc |-> "recorded", change |-> FALSE,
                                           msg |-> [st |-> st, sq |-> 0, tatl |-> tatl(0)]]]
      /\ UNCHANGED <<cfg, closed, segment, subscriber, used>>

\* A message that does not fit a frame is refused before anything changes.
FrameTooLarge(t) ==
  /\ thread[t].pc = "begun"
  /\ slot = NoThread
  /\ thread' = [thread EXCEPT ![t] = Idle]
  /\ UNCHANGED <<cfg, pub, closed, slot, tasks, segment, subscriber, used>>

\* The first transmission; when the interface refuses it, publish returns.
PublishSend(t) ==
  /\ thread[t].pc = "recorded"
  /\ \/ /\ Written(thread[t].msg)
        /\ thread' = [thread EXCEPT ![t].pc = "sent"]
        /\ UNCHANGED slot
     \/ /\ WriteFails
        /\ thread' = [thread EXCEPT ![t] = Idle]
        /\ slot' = NoThread
  /\ UNCHANGED <<cfg, pub, closed, tasks, subscriber>>

\* The retransmission task takes the place of the one in the slot.
PublishSpawn(t) ==
  /\ thread[t].pc = "sent"
  /\ thread' = [thread EXCEPT ![t] = Idle]
  /\ slot' = NoThread
  /\ tasks' = Aborted \cup {[msg |-> thread[t].msg, fresh |-> TRUE, handle |-> TRUE, i |-> 0,
                             left |-> Interval(0), awake |-> FALSE]}
  /\ UNCHANGED <<cfg, pub, closed, segment, subscriber, used>>

CloseBegin(t) ==
  /\ thread[t].pc = "idle"
  /\ ~closed
  /\ closed' = TRUE
  /\ thread' = [thread EXCEPT ![t].pc = "closing"]
  /\ UNCHANGED <<cfg, pub, slot, tasks, segment, subscriber, used>>

CloseAbort(t) ==
  /\ thread[t].pc = "closing"
  /\ slot = NoThread
  /\ tasks' = Aborted
  /\ thread' = [thread EXCEPT ![t] = Idle]
  /\ UNCHANGED <<cfg, pub, closed, slot, segment, subscriber, used>>

\* A closed publisher makes way for a new one of the same control block.
Restart ==
  /\ closed
  /\ \A t \in Thread : thread[t].pc = "idle"
  /\ tasks = {}
  /\ used.restarts < cfg.restarts
  /\ used' = [used EXCEPT !.restarts = @ + 1]
  /\ closed' = FALSE
  /\ pub' = [st |-> 0, sq |-> 0]
  /\ since' = [since EXCEPT !.reborn = TRUE]
  /\ UNCHANGED <<cfg, slot, thread, tasks, wire, written, subscriber>>

\* A task wakes up and looks whether the publisher is closed.
Wake(k) ==
  /\ ~k.awake /\ k.left <= 0
  /\ tasks' = (tasks \ {k}) \cup IF closed THEN {} ELSE {[k EXCEPT !.awake = TRUE]}
  /\ UNCHANGED <<cfg, pub, closed, slot, thread, segment, subscriber, used>>

\* The message of the next transmission of a task.
Repeat(k) == [k.msg EXCEPT !.sq = NextSq(@), !.tatl = tatl(k.i + 1)]

\* Mutant of retransmit: the generation is not checked.
retransmit_Outdated(k) ==
  /\ k.awake
  /\ pub' = [pub EXCEPT !.sq = Repeat(k).sq]
  /\ Written(Repeat(k))
  /\ tasks' = tasks \ {k}
  /\ UNCHANGED <<cfg, closed, slot, thread, subscriber>>

\* Under the state lock it ends if outdated and sends again otherwise, until the
\* interface refuses the frame.
retransmit(k) ==
  /\ k.awake
  /\ IF ~k.fresh
     THEN /\ tasks' = tasks \ {k}
          /\ UNCHANGED <<pub, segment, used>>
     ELSE /\ pub' = [pub EXCEPT !.sq = Repeat(k).sq]
          /\ \/ /\ Written(Repeat(k))
                /\ tasks' = (tasks \ {k}) \cup
                     IF k.handle THEN {[k EXCEPT !.msg = Repeat(k), !.i = Min(@ + 1, Len(Retrans)),
                                                 !.left = Interval(k.i + 1), !.awake = FALSE]}
                     ELSE {}
             \/ /\ WriteFails
                /\ tasks' = tasks \ {k}
  /\ UNCHANGED <<cfg, closed, slot, thread, subscriber>>

-----------------------------------------------------------------------------
(* The subscriber                                                             *)

\* Mutant of observe: a counter that rolls over is a gap.
observe_SqWrap(f) ==
  /\ flags' = [regressed |-> FALSE, stale |-> FALSE, sq |-> f.msg.sq, again |-> FALSE,
               gap |-> seq.heard /\ IF f.msg.st = seq.st THEN f.msg.sq # seq.sq + 1 ELSE f.msg.sq # 0,
               since |-> IF seq.heard THEN f.since ELSE Nothing]
  /\ seq' = [heard |-> TRUE, st |-> f.msg.st, sq |-> f.msg.sq, tatl |-> f.msg.tatl, age |-> 0]

\* SequenceTracker::observe
observe(f) ==
  LET m == f.msg
      wrapped == seq.st = StMax /\ m.st = 1
  IN  /\ flags' = [regressed |-> seq.heard /\ m.st < seq.st /\ ~wrapped,
                   gap |-> seq.heard /\ IF m.st = seq.st THEN m.sq # NextSq(seq.sq) ELSE m.sq # 0,
                   stale |-> seq.heard /\ seq.tatl # 0 /\ seq.age > seq.tatl,
                   sq |-> m.sq, again |-> seq.heard /\ m.st = seq.st /\ m.sq = 0,
                   since |-> IF seq.heard THEN f.since ELSE Nothing]
      /\ seq' = [heard |-> TRUE, st |-> m.st, sq |-> m.sq, tatl |-> m.tatl, age |-> 0]

\* Mutant of arrived: a block heard for the first time has no deadline.
arrived_Known(f) ==
  watch' = IF ~watch.armed THEN watch ELSE [watch EXCEPT !.left = f.msg.tatl, !.fired = FALSE]

\* Supervision::arrived
arrived(f) ==
  watch' = IF f.msg.tatl = 0 THEN watch
           ELSE [watch EXCEPT !.armed = TRUE, !.left = f.msg.tatl, !.fired = FALSE]

\* The reader thread takes a frame; stopped, it ends.
Read ==
  /\ wire # << >>
  /\ ~reading
  /\ wire' = Tail(wire)
  /\ IF stopped
     THEN UNCHANGED <<seq, flags, watch, reading>>
     ELSE observe(Head(wire)) /\ arrived(Head(wire)) /\ reading' = TRUE
  /\ UNCHANGED <<publisher, written, since, view, stopped, used>>

Callback ==
  /\ reading
  /\ reading' = FALSE
  /\ view' = "message"
  /\ UNCHANGED <<publisher, segment, seq, flags, watch, stopped, used>>

\* Supervision::run finds the deadline passed, once per silence.
Due ==
  /\ watch.armed /\ ~watch.fired /\ ~watch.calling
  /\ watch.left <= 0
  /\ ~stopped
  /\ watch' = [watch EXCEPT !.fired = TRUE, !.calling = TRUE]
  /\ UNCHANGED <<publisher, segment, seq, flags, reading, view, stopped, used>>

\* It has given the lock back and calls the application.
Expired ==
  /\ watch.calling
  /\ watch' = [watch EXCEPT !.calling = FALSE]
  /\ view' = "expired"
  /\ UNCHANGED <<publisher, segment, seq, flags, reading, stopped, used>>

Stop ==
  /\ cfg.stops /\ ~stopped
  /\ stopped' = TRUE
  /\ UNCHANGED <<publisher, segment, seq, flags, watch, reading, view, used>>

-----------------------------------------------------------------------------
\* A task retransmits what the publisher advertises.
Alive == \E k \in tasks : k.fresh

\* Time passes when nobody has anything to do that a timer did not start.
Tick ==
  /\ \A t \in Thread : thread[t].pc = "idle"
  /\ wire = << >> /\ ~reading /\ ~watch.calling
  /\ \A k \in tasks : ~k.awake /\ k.left > -cfg.late
  /\ watch.armed /\ ~watch.fired /\ ~stopped => watch.left > -cfg.late
  /\ tasks' = {[k EXCEPT !.left = @ - 1] : k \in tasks}
  /\ watch' = IF watch.armed /\ ~watch.fired /\ ~stopped THEN [watch EXCEPT !.left = @ - 1] ELSE watch
  /\ seq' = [seq EXCEPT !.age = IF seq.heard THEN Min(@ + 1, seq.tatl + 1) ELSE 0]
  /\ since' = [since EXCEPT !.silent = @ \/ ~Alive]
  /\ UNCHANGED <<cfg, pub, closed, slot, thread, wire, written, flags, reading, view, stopped, used>>

Publish(t) ==
  \/ \E change \in BOOLEAN : PublishBegin(t, change)
  \/ publish_state(t) \/ FrameTooLarge(t) \/ PublishSend(t) \/ PublishSpawn(t)
  \/ CloseBegin(t) \/ CloseAbort(t)

Next ==
  \/ \E t \in cfg.threads : Publish(t)
  \/ \E k \in tasks : Wake(k) \/ retransmit(k)
  \/ Restart \/ Read \/ Callback \/ Due \/ Expired \/ Stop \/ Tick

Spec == Init /\ [][Next]_vars

\* Threads and tasks run, frames arrive and time passes.
FairSpec ==
  /\ Spec
  /\ \A t \in Thread : /\ WF_vars(publish_state(t)) /\ WF_vars(PublishSend(t))
                       /\ WF_vars(PublishSpawn(t)) /\ WF_vars(CloseAbort(t))
  /\ WF_vars(\E k \in tasks : Wake(k) \/ retransmit(k))
  /\ WF_vars(Read) /\ WF_vars(Callback) /\ WF_vars(Due) /\ WF_vars(Expired) /\ WF_vars(Tick)

-----------------------------------------------------------------------------
(* Properties                                                                 *)

\* Every variable has its type.
TypeOK ==
  /\ pub \in [st : 0 .. StMax, sq : 0 .. SqMax]
  /\ closed \in BOOLEAN /\ reading \in BOOLEAN /\ stopped \in BOOLEAN
  /\ slot \in Thread \cup {NoThread}
  /\ thread \in [Thread -> [pc : {"idle", "begun", "recorded", "sent", "closing"},
                            change : BOOLEAN, msg : Message \cup {NoMessage}]]
  /\ tasks \subseteq Task
  /\ wire \in Seq(Frame)
  /\ written \in Message \cup {NoMessage}
  /\ since \in Since
  /\ view \in {"nothing", "message", "expired"}

\* No publish is between recording a state and sending it.
Settled == \A t \in Thread : thread[t].pc # "recorded"

\* While a state is being retransmitted, the last frame on the segment is the one
\* `state` reports: a frame of an older state never follows a newer one (generation).
WireIsCurrent ==
  Settled /\ Alive => written.st = pub.st /\ written.sq = pub.sq

\* A gap is reported only if a frame was lost, or if the state was sent again from
\* sqNum 0, by `refresh` or by a publisher that restarted: observe flags that one
\* too, with nothing lost.  Within a state every loss is reported that leaves a
\* hole in sqNum; the loss of a frame that repeats a number leaves none.
GapIffLost ==
  /\ flags.gap => flags.since.lost # {} \/ flags.again
  /\ flags.sq # 0 /\ flags.since.lost = {"frame"} => flags.gap

\* The stream has been interrupted and no frame after that has been read.
Interrupted ==
  \E m \in {since} \cup {wire[i].since : i \in DOMAIN wire} : m.lost # {} \/ m.silent

\* Supervision reports a silence only if a frame was lost or the publisher had
\* stopped sending: timeAllowedToLive covers a late retransmission.
NoFalseExpiry ==
  [][watch.fired' /\ ~watch.fired => Interrupted \/ ~Alive]_vars

\* A publisher that falls silent is noticed (timeAllowedToLive supervision).
SilenceNoticed ==
  (<>[](~Alive)) => <>[](stopped \/ ~seq.heard \/ view = "expired")

\* "A background task retransmits with increasing `sqNum` until the next publish,
\* refresh or close" (Publisher).
RetransmitsUntilReplaced ==
  pub.st # 0 /\ ~closed /\ (\A t \in Thread : thread[t].pc \in {"idle", "begun"}) => Alive

\* "twice the interval until the next retransmission, so a subscriber that misses
\* one frame does not yet call the value stale" (Shared::tatl).
OneLossIsCovered ==
  [][watch.fired' /\ ~watch.fired => used.lost > 1 \/ ~Alive]_vars
=============================================================================
