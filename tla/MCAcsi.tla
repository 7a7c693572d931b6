------------------------------- MODULE MCAcsi -------------------------------
(***************************************************************************)
(* The ACSI client beside the server it talks to, one part at a time: how  *)
(* it finds out what the server holds (Directory), how it controls objects *)
(* (ClientControl) and how it subscribes to reports (Subscription); and    *)
(* how the server's model is loaded from an SCL document (SclBuild).       *)
(*                                                                         *)
(* The documents to load come first, then devices to find out about,       *)
(* handles to control with and reports to subscribe to.                    *)
(***************************************************************************)
EXTENDS Directory, ClientControl, Subscription, SclBuild

el(name, attrs, kids) == [Node(name, attrs) EXCEPT !.children = kids]
leaf(name, attrs) == el(name, attrs, <<>>)
text(name, attrs, t) == [Node(name, attrs) EXCEPT !.text = t]
w(s) == Word(s)
no == [x \in {} |-> w("")]

da(name, fc, btype) == leaf("DA", [name |-> w(name), fc |-> w(fc), bType |-> w(btype)])
da_array(name, fc, btype, n) == leaf("DA", [name |-> w(name), fc |-> w(fc), bType |-> w(btype), count |-> Number(n)])
da_typed(name, fc, btype, type) == leaf("DA", [name |-> w(name), fc |-> w(fc), bType |-> w(btype), type |-> w(type)])

\* One object with a setting, settings in arrays, an enumeration, a set point, a
\* structure and an array of sub-objects.
SetTypes ==
  el("DataTypeTemplates", no,
     << el("LNodeType", [id |-> w("LLN0t"), lnClass |-> w("LLN0")], <<leaf("DO", [name |-> w("Set"), type |-> w("SetT")])>>),
        el("DOType", [id |-> w("SetT"), cdc |-> w("ING")],
           << da("val", "SG", "INT32"), da_array("arr", "SG", "INT32", 2), da_typed("en", "SG", "Enum", "OnOff"),
              da("sp", "SP", "INT32"), da_array("cfa", "CF", "INT32", 2), da_typed("str", "SG", "Struct", "StrT"),
              leaf("SDO", [name |-> w("ph"), type |-> w("PhT"), count |-> Number(2)]) >>),
        el("DOType", [id |-> w("PhT")], <<da("val", "SG", "INT32")>>),
        el("DAType", [id |-> w("StrT")], <<leaf("BDA", [name |-> w("f"), bType |-> w("INT16")])>>),
        el("EnumType", [id |-> w("OnOff")], <<text("EnumVal", [ord |-> Number(0)], w("off")), text("EnumVal", [ord |-> Number(1)], w("on"))>>) >>)

group(n) == IF n = 0 THEN no ELSE [sGroup |-> Number(n)]
val(g, t) == text("Val", group(g), t)

Target == {"val", "arr1", "arr2", "en", "sp", "cfa", "cfa2", "str", "ph", "ph2"}
dai(name, sub, v) == el("DAI", IF sub = 0 THEN [name |-> w(name)] ELSE [name |-> w(name), sAddr |-> Number(sub)], <<v>>)
place(t, v) ==
  CASE t \in {"val", "en", "sp"} -> dai(t, 0, v)
    [] t = "arr1" -> dai("arr", 1, v) [] t = "arr2" -> dai("arr", 2, v)
    [] t = "cfa" -> dai("cfa", 0, v) [] t = "cfa2" -> dai("cfa", 2, v)
    [] t = "str" -> el("SDI", [name |-> w("str")], <<dai("f", 0, v)>>)
    [] t = "ph" -> el("SDI", [name |-> w("ph")], <<dai("val", 0, v)>>)
    [] t = "ph2" -> el("SDI", [name |-> w("ph"), ix |-> Number(2)], <<dai("val", 0, v)>>)

ied_of(lns) ==
  el("IED", [name |-> w("ied1")], <<el("AccessPoint", [name |-> w("S1")], <<el("Server", no,
     <<el("LDevice", [inst |-> w("LD0")], lns)>>)>>)>>)

settings_doc(act, dois) ==
  el("SCL", no, << ied_of(<<el("LN0", [lnType |-> w("LLN0t")],
       <<leaf("SettingControl", [numOfSGs |-> Number(2), actSG |-> Number(act)]), el("DOI", [name |-> w("Set")], dois)>>)>>),
     SetTypes >>)

Plain == [ied |-> "", access_point |-> "", strict |-> FALSE]

\* A device with every kind of control block, addressed in a Communication section.
fcda(ln, do, da_name, fc) == leaf("FCDA", [ldInst |-> w("LD0"), lnClass |-> w(ln), doName |-> w(do), daName |-> w(da_name), fc |-> w(fc)])
p(type, t) == text("P", [type |-> w(type)], t)
ip(a) == [Word(a) EXCEPT !.as = {"Ip"}]
hex(s, n) == [Word(s) EXCEPT !.hex = <<n>>]
BlocksComm ==
  el("Communication", no, <<el("SubNetwork", [name |-> w("W1")],
    << el("ConnectedAP", [iedName |-> w("ied2"), apName |-> w("S1")], <<el("Address", no, <<p("IP", ip("10.0.0.9"))>>)>>),
       el("ConnectedAP", [iedName |-> w("ied1"), apName |-> w("S2")],
          <<el("GSE", [ldInst |-> w("LD0"), cbName |-> w("gcb")], <<el("Address", no, <<p("APPID", hex("0001", 1))>>)>>)>>),
       el("ConnectedAP", [iedName |-> w("ied1"), apName |-> w("S1")],
          << el("GSE", [ldInst |-> w("LD0"), cbName |-> w("gcb")],
                <<el("Address", no, <<p("MAC-Address", [Word("01-0C-CD-01-00-01") EXCEPT !.as = {"Mac"}]), p("APPID", hex("1000", 4096)),
                                      p("VLAN-ID", hex("00A", 10)), p("VLAN-PRIORITY", Number(4))>>),
                  text("MinTime", no, Number(4)), text("MaxTime", no, Number(1000))>>),
             el("SMV", [ldInst |-> w("LD0"), cbName |-> w("us")], <<el("Address", no, <<p("IP", ip("239.0.0.1"))>>)>>) >>) >>)>>)

yes == w("true")
BlocksLN0 ==
  el("LN0", [lnType |-> w("LLN0t")],
    << el("DataSet", [name |-> w("ds1")], <<fcda("LLN0", "Mod", "stVal", "ST")>>),
       el("ReportControl", [name |-> w("urcb"), datSet |-> w("ds1")],
          <<leaf("TrgOps", [dchg |-> yes]), leaf("OptFields", [seqNum |-> yes]),
            el("RptEnabled", [max |-> Number(2)], <<leaf("ClientLN", [iedName |-> w("ied2"), apRef |-> w("S1")])>>)>>),
       leaf("ReportControl", [name |-> w("brcb"), datSet |-> w("ds1"), buffered |-> yes, indexed |-> w("false")]),
       leaf("LogControl", [name |-> w("lcb"), datSet |-> w("ds1"), logName |-> w("log1"), lnClass |-> w("LLN0")]),
       el("DOI", [name |-> w("SetPt")], <<el("DAI", [name |-> w("setVal")], <<text("Val", no, Number(3))>>)>>),
       leaf("Log", [name |-> w("log1")]),
       el("Private", [type |-> w("x")], <<leaf("Note", no)>>),
       leaf("GSEControl", [name |-> w("gcb"), appID |-> w("g1"), datSet |-> w("ds1")]),
       leaf("GSEControl", [name |-> w("gscb"), type |-> w("GSSE")]),
       leaf("SampledValueControl", [name |-> w("ms"), smpRate |-> Number(80), nofASDU |-> Number(1)]),
       el("SampledValueControl", [name |-> w("us"), smpMod |-> w("SmpPerSec")],
          <<leaf("SmvOpts", [sampleRate |-> yes]), text("Protocol", no, w("R-SV"))>>),
       leaf("SettingControl", [numOfSGs |-> Number(1), actSG |-> Number(1), resvTms |-> Number(10)]) >>)

BlocksTypes ==
  el("DataTypeTemplates", no,
     << el("LNodeType", [id |-> w("LLN0t"), lnClass |-> w("LLN0")],
           <<leaf("DO", [name |-> w("Mod"), type |-> w("ModT")]), leaf("DO", [name |-> w("SetPt"), type |-> w("SptT")])>>),
        el("DOType", [id |-> w("ModT"), cdc |-> w("ENC")],
           <<da_typed("stVal", "ST", "Enum", "Beh"), da("q", "ST", "Quality"), da_typed("ctlModel", "CF", "Enum", "Beh")>>),
        el("DOType", [id |-> w("SptT"), cdc |-> w("ING")], <<da("setVal", "SP", "INT8")>>),
        el("EnumType", [id |-> w("Beh")], <<text("EnumVal", [ord |-> Number(1)], w("on"))>>) >>)

BlocksDoc ==
  el("SCL", [version |-> w("2007"), revision |-> w("B")],
     << leaf("Header", [id |-> w("d")]), BlocksComm,
        el("IED", [name |-> w("ied1")],
           << el("Services", no, <<leaf("ConfReportControl", [maxBuf |-> Number(8)])>>),
              el("AccessPoint", [name |-> w("S1")], <<el("Server", no, <<el("LDevice", [inst |-> w("LD0")], <<BlocksLN0>>)>>)>>) >>),
        BlocksTypes >>)

\* Structured attributes, sub-objects, an array of structures and a constraint of a
\* later edition.
RebuildTypes ==
  el("DataTypeTemplates", no,
     << el("LNodeType", [id |-> w("LLN0t"), lnClass |-> w("LLN0")], <<leaf("DO", [name |-> w("Mod"), type |-> w("ModT")])>>),
        el("LNodeType", [id |-> w("MMXUt"), lnClass |-> w("MMXU")],
           <<leaf("DO", [name |-> w("A"), type |-> w("WyeT")]), leaf("DO", [name |-> w("Har"), type |-> w("HarT")])>>),
        leaf("LNodeType", [id |-> w("LPHDt"), lnClass |-> w("LPHD")]),
        el("DOType", [id |-> w("ModT"), cdc |-> w("ENC")],
           <<da_typed("stVal", "ST", "Enum", "Beh"), da("q", "ST", "Quality"), da_typed("ctlModel", "CF", "Enum", "Beh")>>),
        el("DOType", [id |-> w("WyeT"), cdc |-> w("WYE")],
           <<da("ena", "CF", "BOOLEAN"), leaf("SDO", [name |-> w("phsA"), type |-> w("PhaT")]), leaf("SDO", [name |-> w("phsB"), type |-> w("PhbT")])>>),
        el("DOType", [id |-> w("PhaT"), cdc |-> w("CMV")], <<da_typed("cVal", "MX", "Struct", "VecT"), da("q", "MX", "Quality")>>),
        el("DOType", [id |-> w("PhbT"), cdc |-> w("CMV")], <<da("q", "MX", "Quality"), da("db", "CF", "INT16U"), da_typed("zero", "CF", "Struct", "ElT")>>),
        el("DOType", [id |-> w("HarT"), cdc |-> w("NEW")],
           <<leaf("DA", [name |-> w("har"), fc |-> w("MX"), bType |-> w("Struct"), type |-> w("ElT"), count |-> Number(2)]), da("x", "XX", "BOOLEAN")>>),
        el("DAType", [id |-> w("VecT")], <<leaf("BDA", [name |-> w("mag"), bType |-> w("FLOAT32")])>>),
        el("DAType", [id |-> w("ElT")], <<leaf("BDA", [name |-> w("f"), bType |-> w("FLOAT32")])>>),
        el("EnumType", [id |-> w("Beh")], <<text("EnumVal", [ord |-> Number(1)], w("on"))>>) >>)
RebuildDoc ==
  el("SCL", no, << ied_of(<< el("LN0", [lnType |-> w("LLN0t")], <<leaf("SettingControl", [numOfSGs |-> Number(1)])>>),
                             leaf("LN", [lnClass |-> w("MMXU"), inst |-> w("1"), lnType |-> w("MMXUt")]),
                             leaf("LN", [lnClass |-> w("LPHD"), inst |-> w("1"), lnType |-> w("LPHDt")]) >>), RebuildTypes >>)

nodes_of(doc) == build_model(scl_from(doc), {}, Plain).v[1].nodes

\* Elements nested deeper than is kept, some not decoded, below one that is not decoded.
RECURSIVE nest(_)
nest(n) == IF n = 0 THEN leaf("Private", no) ELSE el(IF n % 3 = 0 THEN "Note" ELSE "Text", no, <<leaf("Val", no), nest(n - 1), leaf("Odd", no)>>)
DeepDoc == el("SCL", no, <<ied_of(<<leaf("LN0", [lnType |-> w("none")])>>), nest(13)>>)

\* Two values declared in order, for every pair of places, of groups and of texts; and
\* the documents that are read event by event.
DocKey(kind) == [kind |-> kind, act |-> 0, t1 |-> "val", t2 |-> "val", g1 |-> 0, g2 |-> 0]
MCDocId == [kind : {"settings"}, act : 0 .. 2, t1 : Target, t2 : Target, g1 : 0 .. 2, g2 : 0 .. 2]
           \cup {DocKey("blocks"), DocKey("deep")}
BlocksEvents == xml_events(BlocksDoc)
DeepEvents == xml_events(DeepDoc)
MCDocument(c) ==
  CASE c.kind = "blocks" -> [source |-> BlocksDoc, events |-> BlocksEvents, opts |-> Plain]
    [] c.kind = "deep" -> [source |-> DeepDoc, events |-> DeepEvents, opts |-> Plain]
    [] OTHER -> [source |-> settings_doc(c.act, <<place(c.t1, val(c.g1, IF c.t1 = "en" THEN w("on") ELSE Number(5))),
                                                  place(c.t2, val(c.g2, Number(7)))>>),
                 events |-> <<>>, opts |-> Plain]

-----------------------------------------------------------------------------
(* The instances *)

int(name, fc, btype) == DataAttribute(name, fc, btype, <<Scalar("Integer", 1)>>)
quality(fc) == DataAttribute("q", fc, "Quality", <<Bits(13)>>)

Bare(name) ==
  [name |-> name, objects |-> <<>>, data_sets |-> <<>>, logs |-> <<>>, setting_groups |-> <<>>,
   gse_controls |-> <<>>, sv_controls |-> <<>>, log_controls |-> <<>>, report_controls |-> <<>>]

Set(name, members, deletable) == [name |-> name, members |-> members, deletable |-> deletable]
Mod == DataObject("Mod", <<int("stVal", "ST", "Enum"), quality("ST"), int("ctlModel", "CF", "Enum")>>, <<>>)
Spt == DataObject("SetPt", <<DataAttribute("setVal", "SP", "INT8", <<Scalar("Integer", 3)>>)>>, <<>>)
StVal == <<"LLN0", "ST", "Mod", "stVal">>
SetVal == <<"LLN0", "SP", "SetPt", "setVal">>

\* A node small enough to page through while data sets come and go.
Small ==
  [Bare("LLN0") EXCEPT !.objects = <<Spt, Mod>>, !.logs = <<"log1">>,
     !.data_sets = <<Set("ds1", <<StVal>>, FALSE), Set("dyn1", <<SetVal>>, TRUE), Set("dyn2", <<StVal>>, TRUE)>>]

\* A client finding every kind of block; one rebuilding a model while another client
\* writes; one paging through data sets, and reading one, while they come and go.
Blocks == [name |-> "ied1LD0", nodes |-> nodes_of(BlocksDoc), sorted |-> <<"LLN0">>, page |-> 40, ops |-> {"browse"}, sets |-> {},
           writable |-> {}, writes |-> {}, defines |-> {}]
Rebuild == [name |-> "ied1LD0",
            nodes |-> nodes_of(RebuildDoc),
            sorted |-> <<"LLN0", "LPHD1", "MMXU1">>, page |-> 9, ops |-> {"retrieve"}, sets |-> {}, defines |-> {},
            writable |-> {"SP", "SV", "SE", "CF"},
            writes |-> {[item |-> <<"MMXU1", "CF", "A", "phsB", "db">>, value |-> Scalar("Unsigned", 7)],
                        [item |-> <<"MMXU1", "CF", "A", "phsB", "zero", "f">>, value |-> Scalar("Float32", 7)]}]
Paging == [name |-> "ied1LD0", nodes |-> <<Small>>, sorted |-> <<"LLN0">>, page |-> 2, ops |-> {"browse"},
           sets |-> {<<"LLN0", "ds1">>, <<"LLN0", "dyn1">>},
           writable |-> {"SP", "SV", "SE"},
           writes |-> {[item |-> SetVal, value |-> Scalar("Integer", n)] : n \in {127, 128}},
           defines |-> {[ln |-> "LLN0", set |-> Set("dyn1", <<StVal, SetVal>>, TRUE)],
                        [ln |-> "LLN0", set |-> Set("dyn3", <<StVal>>, TRUE)]}]

\* Leaves of a basic type of a later edition beside others and in a sub-object.
Weird == DataObject("Weird", <<int("a", "ST", "INT32"), DataAttribute("b", "ST", "Later", <<>>), int("e", "SP", "INT8")>>,
                    <<DataObject("sub", <<DataAttribute("d", "SP", "Later", <<>>)>>, <<>>)>>)
Vendor == [name |-> "ied1LD0", nodes |-> <<[Bare("GGIO1") EXCEPT !.objects = <<Mod, Weird>>]>>, sorted |-> <<"GGIO1">>,
           page |-> 40, ops |-> {"browse"}, sets |-> {}, writable |-> {"SP", "SV", "SE"}, defines |-> {},
           writes |-> {[item |-> <<"GGIO1">> \o x[1], value |-> Scalar("Integer", x[2])] :
                         x \in {<< <<"ST", "Weird", "b">>, 5>>, << <<"SP", "Weird", "sub", "d">>, 5>>, << <<"SP", "Weird", "sub">>, 5>>,
                                << <<"SP", "Weird", "e">>, 5>>, << <<"SP", "Weird", "e">>, 128>>, << <<"ST", "Mod", "stVal">>, 5>>}}]

MCConfig == {Blocks, Rebuild, Paging, Vendor}

\* One handle per object, whose calls may overlap only across objects; and an
\* application that drops calls.
Handle(obj, model) == [object |-> obj, model |-> model]
Selecting == [of |-> [a |-> Handle("A", "SboEnhanced"), b |-> Handle("B", "SboNormal")],
              ops |-> {"operate", "select", "cancel"}, shared |-> FALSE, drops |-> FALSE]
Direct == [of |-> [a |-> Handle("A", "DirectEnhanced"), b |-> Handle("B", "DirectNormal")],
           ops |-> {"operate"}, shared |-> FALSE, drops |-> FALSE]
Dropping == [of |-> [a |-> Handle("A", "DirectEnhanced")], ops |-> {"operate"}, shared |-> FALSE, drops |-> TRUE]
MCCtlPlan == {Selecting, Direct, Dropping}

\* A data set with a member inside another and one whose name starts like it.
Ind1 == <<"GGIO1", "ST", "Ind1", "stVal">>
Ind10 == <<"GGIO1", "ST", "Ind10", "stVal">>
MCDsDef == [ds1 |-> <<Ind1, <<"GGIO1", "ST", "Ind1">>, Ind10>>, ds2 |-> <<Ind10, Ind1>>]
Quality1 == [item |-> <<"GGIO1", "ST", "Ind1", "q">>, reason |-> "qchg"]
MCChanges == {{[item |-> Ind1, reason |-> "dchg"]}, {Quality1},
              {[item |-> Ind1, reason |-> "dchg"], Quality1, [item |-> Ind10, reason |-> "dchg"]}}
MCOptSets == {SUPPORTED_OPT_FLDS, {"TIME_OF_ENTRY", "DATA_SET_NAME", "BUF_OVFL", "CONF_REV", "SEGMENTATION"}}
             \cup SUBSET {"SEQ_NUM", "ENTRY_ID", "DATA_REF", "REASON_CODE"}

-----------------------------------------------------------------------------
(* The parts together *)

VARIABLE part       \* which of them this behaviour is about

vars == <<part, dirVars, ctlVars, subVars, load>>

NoDevice == [name |-> "", nodes |-> <<>>, sorted |-> <<>>, page |-> 1, ops |-> {}, sets |-> {},
             writable |-> {}, writes |-> {}, defines |-> {}]

Init ==
  /\ part \in {"directory", "control", "reports", "configuration"}
  /\ DirInit(IF part = "directory" THEN Config ELSE {NoDevice})
  /\ CtlInit /\ (part # "control" => plan = CHOOSE x \in CtlPlan : TRUE)
  /\ SubInit /\ (part # "reports" => blk.buffered)
  /\ SclInit(IF part = "configuration" THEN DocId ELSE {CHOOSE d \in DocId : Document(d).events = <<>>})

Next ==
  \/ part = "directory" /\ DirNext /\ UNCHANGED <<part, ctlVars, subVars, load>>
  \/ part = "control" /\ CtlNext /\ UNCHANGED <<part, dirVars, subVars, load>>
  \/ part = "configuration" /\ SclNext /\ UNCHANGED <<part, dirVars, ctlVars, subVars>>
  \/ part = "reports" /\ SubNext /\ UNCHANGED <<part, dirVars, ctlVars, load>>

Spec == Init /\ [][Next]_vars
=============================================================================
