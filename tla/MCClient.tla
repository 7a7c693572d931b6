------------------------------ MODULE MCClient ------------------------------
(***************************************************************************)
(* Instances of ClientConn for TLC.  A plan limits what happens:           *)
(*   requests  two requests, every end, no cancel;                         *)
(*   cancel    two requests and a cancel on an association this side does  *)
(*             not end;                                                    *)
(*   ending    one of the requests, a cancel and every end.                *)
(***************************************************************************)
EXTENDS ClientConn

CONSTANTS c1, c2, k1

VARIABLE plan

Within ==
  CASE plan = "requests" -> attempt[k1].pc = "idle"
    [] plan = "cancel" -> closer = "idle"
    [] plan = "ending" -> \E c \in Call : call[c].pc = "idle"

MCInit == Init /\ plan \in {"requests", "cancel", "ending"}
MCNext == Next /\ UNCHANGED plan /\ Within'
MCFairSpec == MCInit /\ [][MCNext]_<<vars, plan>> /\ Fairness
=============================================================================
