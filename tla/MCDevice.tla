------------------------------ MODULE MCDevice ------------------------------
(* Small devices and workloads for Device, one per group of interacting     *)
(* services.                                                                *)
EXTENDS Device

MCSetting == {"s1", "s2"}
MCEditable == {"s1"}
Declares(a) ==
  [act |-> a, base |-> [s \in MCSetting |-> "u"],
    rec |-> [s \in MCSetting |-> [g \in 1 .. 2 |-> IF g = 2 THEN "v" ELSE NoVal]]]
MCSgConfig == {Declares(1), Declares(2)}
MCLcb == <<"l1", "l2">>
MCMember == {"Pos", "SgcbTrk", "LocbTrk"}
MCDsMembers == [d1 |-> {"Pos"}, d2 |-> {"SgcbTrk"}, d3 |-> {"Pos"}]

Off == [ena |-> FALSE, datSet |-> NoDs, trg |-> {"dchg"}, intgPd |-> FALSE]
On(d, r) == [ena |-> TRUE, datSet |-> d, trg |-> r, intgPd |-> FALSE]
Lcbs(a, b) == [l1 |-> a, l2 |-> b]
W(k, b, a, v) == [kind |-> k, blk |-> b, attr |-> a, val |-> v]

Base == [requests |-> {}, tracks |-> FALSE, hook |-> {}, lcb |-> Lcbs(Off, Off), data |-> {},
         dynamic |-> {}, deletable_logs |-> FALSE, reads |-> FALSE, closes |-> FALSE, files |-> FALSE,
         max_conns |-> 0, clients |-> Conn, documents |-> {Declares(2)}]

Settings == [Base EXCEPT !.documents = MCSgConfig, !.hook = {"ObjectAccessDenied"},
  !.requests = {<<W("sgcb", "SGCB", "ActSG", g)>> : g \in 1 .. 3}
         \cup {<<W("sgcb", "SGCB", "EditSG", g)>> : g \in 0 .. 2}
         \cup {<<W("se", "-", "s1", v), W("sgcb", "SGCB", "CnfEdit", TRUE)>> : v \in {"u", "v"}}
         \cup {<<W("se", "-", "s1", "u")>>, <<W("sgcb", "SGCB", "CnfEdit", FALSE)>>}]

Tracking == [Base EXCEPT !.tracks = TRUE, !.lcb = Lcbs(On("d2", {"dupd"}), Off),
  !.requests = {<<W("sgcb", "SGCB", "ActSG", 1)>>, <<W("sgcb", "SGCB", "NumOfSG", 1)>>,
                <<W("sgcb", "SGCB", "ActSG", 2), W("sgcb", "SGCB", "EditSG", 1)>>,
                <<W("lcb", "l2", "DatSet", "d1"), W("sgcb", "SGCB", "ActSG", 1)>>}]

Logging == [Base EXCEPT !.lcb = Lcbs(On("d1", {"dchg", "dupd"}), On("d1", {"dupd"})),
                        !.data = {"Pos"}, !.clients = {"c1"}, !.deletable_logs = TRUE, !.reads = TRUE]

Integrity == [Base EXCEPT !.clients = {"c1"}, !.closes = TRUE,
  !.lcb = Lcbs([ena |-> TRUE, datSet |-> "d1", trg |-> {"integrity"}, intgPd |-> TRUE], Off),
  !.requests = {<<W("lcb", "l1", "LogEna", v)>> : v \in BOOLEAN}
         \cup {<<W("lcb", "l1", "TrgOps", {"dchg"})>>, <<W("lcb", "l1", "IntgPd", FALSE)>>,
               <<W("lcb", "l2", "LogEna", TRUE)>>, <<W("lcb", "l1", "OldEnt", 0)>>,
               <<W("lcb", "l1", "LogEna", FALSE), W("lcb", "l1", "LogEna", TRUE)>>}]

Naming == [Base EXCEPT !.dynamic = {"d3"},
  !.requests = {<<W("lcb", "l1", "DatSet", d)>> : d \in {"d3", NoDs}}
         \cup {<<W("lcb", "l1", "DatSet", "d3"), W("lcb", "l1", "LogEna", TRUE)>>}
         \cup {<<W("rcb", "rp", "DatSet", d)>> : d \in {"d1", "d3", NoDs}}
         \cup {<<W("rcb", "rp", "RptEna", v)>> : v \in BOOLEAN}]

Sampling == [Base EXCEPT
  !.requests = {<<W("svcb", b, "SvEna", v)>> : b \in {"ms", "us"}, v \in BOOLEAN}
         \cup {<<W("svcb", "us", "Resv", v)>> : v \in BOOLEAN}
         \cup {<<W("svcb", "ms", "SvID", TRUE)>>,
               <<W("svcb", "us", "Resv", TRUE), W("svcb", "us", "SvEna", TRUE)>>}]

Slots == [Base EXCEPT !.max_conns = 1,
  !.requests = {<<W("svcb", "us", "Resv", TRUE)>>}]

Filing == [Base EXCEPT !.files = TRUE, !.clients = {}]

MCScenarios == {Filing, Slots, Settings, Tracking, Logging, Integrity, Naming, Sampling}
=============================================================================
