----------------------------- MODULE MCControl -----------------------------
(***************************************************************************)
(* Instances of Control for TLC.  A plan limits what the clients ask for:  *)
(*   twice    two reservations of one object and an operate;               *)
(*   operate  a reservation and two operates, with two control numbers;    *)
(*   direct   operates of direct objects of either security.               *)
(***************************************************************************)
EXTENDS Control, TLC

CONSTANTS c1, c2, o1, o2

VARIABLE plan

MCSelect == {(o1 :> m) @@ (o2 :> "StatusOnly") : m \in {"SboEnhanced", "SboNormal", "undeclared"}}
MCDirect == (o1 :> "DirectEnhanced") @@ (o2 :> "DirectNormal")
MCDeclared == MCSelect \cup {MCDirect}

\* Reservations and operates made or under way.
Selects == selects + Cardinality({c \in Conn : req[c] # Idle /\ req[c].phase = "SBOw"})
Operates == nops + Cardinality({c \in Conn : req[c] # Idle /\ req[c].phase = "Oper" /\ req[c].op = 0})
Numbers == {req[c].ctl_num : c \in {d \in Conn : req[d] # Idle}}

Within ==
  CASE plan = "twice" -> Operates <= 1 /\ Numbers \subseteq {1}
    [] plan = "operate" -> Selects <= 1
    [] plan = "direct" -> clock = 0 /\ selects = 0 /\ Numbers \subseteq {1}

MCInit ==
  /\ Init
  /\ plan \in {"twice", "operate", "direct"}
  /\ plan = "direct" <=> ctlModel = MCDirect
MCNext == Next /\ UNCHANGED plan /\ Within'
MCFairSpec == MCInit /\ [][MCNext]_<<vars, plan>> /\ Fairness
=============================================================================
