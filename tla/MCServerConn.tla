---------------------------- MODULE MCServerConn ----------------------------
(***************************************************************************)
(* Instances of ServerConn for TLC.  A plan limits what the client sends   *)
(* and what is posted: two requests and two PDUs, named in the order they  *)
(* come in, or a deferred request beside one request and one PDU.          *)
(***************************************************************************)
EXTENDS ServerConn

CONSTANTS r1, r2, d1, p1, p2,
          Plans      \* the plans of this instance

VARIABLE plan

Within ==
  CASE plan = "reports" ->
         /\ Msg("deferred", d1) \in client
         /\ Msg("request", r1) \in client => Msg("request", r2) \in client
         /\ origin[p1].how = "unposted" => origin[p2].how = "unposted"
    [] plan = "deferred" -> Msg("request", r2) \in client /\ origin[p2].how = "unposted"

MCInit == Init /\ plan \in Plans
MCNext == Next /\ UNCHANGED plan /\ Within'
MCSpec == MCInit /\ [][MCNext]_<<vars, plan>>
MCFairSpec == MCSpec /\ Fairness
=============================================================================
