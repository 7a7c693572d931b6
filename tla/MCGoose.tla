------------------------------ MODULE MCGoose -------------------------------
(* Instances of Goose for TLC. *)
EXTENDS Goose

CONSTANTS t1, t2

\* Two threads, timers that are late and a write that fails, on a schedule that
\* slows down; and one thread whose counters roll over and that restarts.
MCConfigs ==
  {[retrans |-> <<2, 4>>, late |-> 1, threads |-> {t1, t2},
    publishes |-> 2, lost |-> 1, failed |-> 1, restarts |-> 0, stops |-> TRUE],
   [retrans |-> <<1>>, late |-> 0, threads |-> {t1},
    publishes |-> 4, lost |-> 1, failed |-> 0, restarts |-> 1, stops |-> FALSE]}
=============================================================================
