------------------------------ MODULE MCReport ------------------------------
(***************************************************************************)
(* Instances of ReportControl for TLC.  A plan limits what clients and     *)
(* process do:                                                             *)
(*   delivery  a BRCB without a buffer time, shared by two clients, whose  *)
(*             buffer overflows;                                           *)
(*   hold      a block of either kind that three associations from two     *)
(*             addresses compete for;                                      *)
(*   window    a block with a buffer time and one client;                  *)
(*   reserve   a block nothing happens to, taken and left;                 *)
(*   free      no limit.                                                   *)
(***************************************************************************)
EXTENDS ReportControl, TLC

CONSTANTS c1, c2, c3, a, b, x, y, ds1,
          Plans      \* the plans of this instance

VARIABLE plan

\* c1 and c2 come from one address, so that a client can return to its block.
MCIp == (c1 :> a) @@ (c2 :> a) @@ (c3 :> b)
MCIp1 == (c1 :> a) @@ (c3 :> b)
MCMembers1 == ds1 :> <<x>>
MCMembersXY == ds1 :> <<x, y>>

Within ==
  CASE plan = "delivery" ->
         /\ conns \cup ended \subseteq {c1, c3}
         /\ cfg.buffered /\ cfg.intgPd = 0 /\ cfg.resvTms = 0 /\ cfg.trgOps = {"dchg"}
    [] plan = "hold" ->
         /\ updates = 0 /\ cfg.confRev = 0 /\ cfg.trgOps \in {{}, {"integrity"}}
    [] plan = "window" -> conns \cup ended \subseteq {c1} /\ cfg.resvTms = 0
    [] plan = "reserve" -> updates = 0
    [] plan = "free" -> TRUE

\* A held block reports once.
Quiet == plan = "hold" /\ rcb.entries >= 1 => rcb'.entries = rcb.entries

MCInit == Init /\ plan \in Plans /\ Within
MCNext == Next /\ UNCHANGED plan /\ Within' /\ Quiet
MCSpec == MCInit /\ [][MCNext]_<<vars, plan>>
MCFairSpec == MCSpec /\ Fairness
=============================================================================
