-------------------------------- MODULE Scl --------------------------------
(***************************************************************************)
(* Reading an SCL document: XML events into a tree (scl/dom.rs), the audit *)
(* of elements that are not decoded, and the typed document                *)
(* (scl/parse.rs, scl/types.rs).                                           *)
(*                                                                         *)
(* A text is known by what it reads as: its word, the number it is or      *)
(* stands for, the value types it can be parsed to, its length when it is  *)
(* a string of bits, its value read as hexadecimal, the names a dotted one *)
(* is made of, and the name before a trailing index.  Fields no later step *)
(* looks at are left out of the typed document.                            *)
(***************************************************************************)
EXTENDS Access

CONSTANTS XML_MAX_DEPTH,    \* nesting kept in the tree (256)
          MAX_AUDIT_DEPTH   \* nesting the audit's paths follow (32)

ASSUME SclAssumption == XML_MAX_DEPTH \in Nat \ {0} /\ MAX_AUDIT_DEPTH \in Nat

Text(word, n, as) ==
  [word |-> word, n |-> n, as |-> as, len |-> 0, hex |-> <<>>, parts |-> <<word>>, base |-> ""]
Word(w) == Text(w, 0, {})
NoText == [Text("", 0, {"BitString", "OctetString"}) EXCEPT !.parts = <<>>]

\* A decimal number reads as several things, as a flag or a bit string among them.
Number(n) ==
  [Text(ToString(n), n, {"Integer", "Float32", "Float64"}
                        \cup (IF n >= 0 THEN {"Unsigned"} ELSE {})
                        \cup (IF n \in {0, 1} THEN {"Boolean", "BitString"} ELSE {})
                        \cup (IF n \in 10 .. 99 THEN {"OctetString"} ELSE {}))
     EXCEPT !.len = 1]
is_number(t) == "Integer" \in t.as

\* One element, before its children are read.
Node(name, attrs) == [name |-> name, attrs |-> attrs, text |-> NoText, children |-> <<>>]

attr(n, a) == IF a \in DOMAIN n.attrs THEN n.attrs[a] ELSE NoText
attr_string(n, a) == attr(n, a).word
attr_num(n, a) == LET t == attr(n, a) IN IF is_number(t) /\ t.n >= 0 THEN t.n ELSE 0
attr_bool(n, a, default) ==
  LET w == attr_string(n, a) IN IF default THEN w \notin {"false", "0"} ELSE w \in {"true", "1"}

children_named(n, name) == SelectSeq(n.children, LAMBDA c : c.name = name)
child(n, name) == LET all == children_named(n, name) IN SubSeq(all, 1, IF all = <<>> THEN 0 ELSE 1)
each(seq, Op(_)) == FoldLeft(LAMBDA done, x : Append(done, Op(x)), <<>>, seq)

----------------------------------------------------------------------------
(* dom::parse, one event at a time: the open elements, how many are open   *)
(* beyond the depth that is kept, and the root once it is closed.          *)

Reader == [stack |-> <<>>, skipped |-> 0, root |-> <<>>, ok |-> TRUE]

push_child(stack, x) == [stack EXCEPT ![Len(stack)].children = Append(@, x)]

dom_start(r, x) ==
  IF r.skipped > 0 \/ Len(r.stack) >= XML_MAX_DEPTH THEN [r EXCEPT !.skipped = @ + 1]
  ELSE [r EXCEPT !.stack = Append(@, x)]

dom_empty(r, x) ==
  IF r.skipped > 0 \/ Len(r.stack) >= XML_MAX_DEPTH THEN r
  ELSE IF r.stack # <<>> THEN [r EXCEPT !.stack = push_child(@, x)]
  ELSE IF r.root = <<>> THEN [r EXCEPT !.root = <<x>>] ELSE r

dom_end(r) ==
  IF r.skipped > 0 THEN [r EXCEPT !.skipped = @ - 1]
  ELSE IF r.stack = <<>> THEN [r EXCEPT !.ok = FALSE]
  ELSE LET open == Front(r.stack)
       IN  IF open # <<>> THEN [r EXCEPT !.stack = push_child(open, Last(r.stack))]
           ELSE [r EXCEPT !.stack = <<>>, !.root = <<Last(r.stack)>>]

\* Character data is added to the innermost open element.
dom_text(r, t) ==
  IF r.skipped > 0 \/ r.stack = <<>> \/ t = NoText THEN r
  ELSE [r EXCEPT !.stack[Len(r.stack)].text = IF @ = NoText THEN t ELSE Word(@.word \o t.word)]

\* Elements still open at the end are an error, and so is a document with none.
dom_eof(r) ==
  [r EXCEPT !.ok = r.ok /\ r.stack = <<>> /\ r.skipped = 0 /\ r.root # <<>>]

dom_event(r, ev) ==
  CASE ev.e = "start" -> dom_start(r, ev.node)
    [] ev.e = "empty" -> dom_empty(r, ev.node)
    [] ev.e = "end" -> dom_end(r)
    [] ev.e = "text" -> dom_text(r, ev.node.text)
    [] ev.e = "eof" -> dom_eof(r)

\* The events of an element and what is inside it (the XML reader's, given well-formed text).
RECURSIVE events_of(_)
events_of(n) ==
  LET bare == [n EXCEPT !.text = NoText, !.children = <<>>]
      ev(e, x) == <<[e |-> e, node |-> x]>>
  IN  IF n.text = NoText /\ n.children = <<>> THEN ev("empty", bare)
      ELSE ev("start", bare) \o (IF n.text = NoText THEN <<>> ELSE ev("text", n))
           \o FlattenSeq([i \in DOMAIN n.children |-> events_of(n.children[i])]) \o ev("end", bare)

xml_events(root) == events_of(root) \o <<[e |-> "eof", node |-> root]>>

----------------------------------------------------------------------------
(* The audit: the elements not decoded, with the paths they sit at.        *)

DECLARED ==
  {"AccessPoint", "Address", "AnyMax", "Association", "Authentication", "BDA", "BitRate",
   "ClientLN", "ClientServices", "CommProt", "Communication", "ConductingEquipment",
   "ConfDataSet", "ConfLNs", "ConfLogControl", "ConfReportControl", "ConfSG", "ConfSigRef",
   "ConnectedAP", "DA", "DAI", "DataObjectDirectory", "DataSet", "DataSetDirectory",
   "DataTypeTemplates", "DAType", "DO", "DOI", "DOType", "DynAssociation", "EnumType",
   "EnumVal", "ExtRef", "FCDA", "FileHandling", "Function", "GetCBValues",
   "GetDataObjectDefinition", "GetDataSetValue", "GetDirectory", "GOOSE", "GOOSESecurity",
   "GSE", "GSEControl", "GSEDir", "GSESettings", "GSSE", "Header", "History", "Hitem", "IED",
   "IEDName", "Inputs", "IssuerName", "KDC", "LANRedundancy", "LDevice", "Line", "LN", "LN0",
   "LNodeType", "Log", "LogControl", "LogSettings", "MaxTime", "MinTime", "OptFields", "P",
   "PhysConn", "Process", "Protocol", "ReadWrite", "RedProt", "ReportControl",
   "ReportSettings", "RptEnabled", "SampledValueControl", "SCL", "SDI", "SDO", "Server",
   "ServerAt", "Services", "SetDataSetValue", "SettingControl", "SettingGroups", "SGEdit",
   "SMV", "SmvOpts", "SMVsc", "SMVSecurity", "SMVSettings", "SubNetwork", "Subject",
   "Substation", "SuperSeqMax", "SupSubscription", "Text", "TimerActivatedControl",
   "TimeSyncProt", "TrgOps", "Val", "ValueHandling", "VoltageLevel"}

Auditor == [path |-> <<>>, depth |-> 0, drops |-> {}]

audit_event(a, ev) ==
  LET name == ev.node.name
      drops == IF name \in DECLARED THEN a.drops
               ELSE a.drops \cup {[path |-> Append(a.path, name),
                                   cut |-> Len(a.path) >= MAX_AUDIT_DEPTH]}
      up == IF a.depth = 0 THEN 0 ELSE a.depth - 1
  IN  CASE ev.e = "start" ->
             [path |-> IF a.depth < MAX_AUDIT_DEPTH THEN Append(a.path, name) ELSE a.path,
              depth |-> a.depth + 1, drops |-> drops]
        [] ev.e = "empty" -> [a EXCEPT !.drops = drops]
        [] ev.e = "end" ->
             [a EXCEPT !.depth = up, !.path = IF up < Len(@) THEN Front(@) ELSE @]
        [] OTHER -> a

----------------------------------------------------------------------------
(* The typed document.  Optional elements are sequences of at most one.    *)

val_from(n) == [s_group |-> attr(n, "sGroup"), value |-> n.text]

dai_from(n) ==
  [name |-> attr(n, "name"), s_addr |-> attr(n, "sAddr"),
   vals |-> each(children_named(n, "Val"), val_from)]

RECURSIVE sdi_from(_)
sdi_from(n) ==
  [name |-> attr(n, "name"), ix |-> attr(n, "ix"),
   dais |-> each(children_named(n, "DAI"), dai_from),
   sdis |-> each(children_named(n, "SDI"), sdi_from)]

doi_from(n) ==
  [name |-> attr(n, "name"), ix |-> attr(n, "ix"),
   dais |-> each(children_named(n, "DAI"), dai_from),
   sdis |-> each(children_named(n, "SDI"), sdi_from)]

fcda_from(n) ==
  [ld_inst |-> attr_string(n, "ldInst"), prefix |-> attr_string(n, "prefix"),
   ln_class |-> attr_string(n, "lnClass"), ln_inst |-> attr_string(n, "lnInst"),
   do_name |-> attr(n, "doName"), da_name |-> attr(n, "daName"),
   fc |-> attr_string(n, "fc"), ix |-> attr(n, "ix")]

data_set_from(n) ==
  [name |-> attr_string(n, "name"), fcdas |-> each(children_named(n, "FCDA"), fcda_from)]

\* The trigger options an element sets; gi is on unless it is turned off.
triggers(n) == {t \in {"dchg", "qchg", "dupd"} : attr_bool(n, t, FALSE)}
trg_ops_from(n) ==
  triggers(n) \cup {t \in {"period"} : attr_bool(n, t, FALSE)}
              \cup {t \in {"gi"} : attr_bool(n, t, TRUE)}

client_ln_from(n) ==
  [ied_name |-> attr_string(n, "iedName"), ap_name |-> attr_string(n, "apName"),
   ap_ref |-> attr_string(n, "apRef")]

opt_fields_from(n) ==
  {f \in {"seqNum", "timeStamp", "dataSet", "reasonCode", "dataRef", "entryID", "configRef",
          "segmentation"} : attr_bool(n, f, FALSE)}
  \cup {f \in {"bufOvfl"} : attr_bool(n, f, TRUE)}

report_control_from(n) ==
  [name |-> attr_string(n, "name"), rpt_id |-> attr_string(n, "rptID"),
   dat_set |-> attr_string(n, "datSet"), buffered |-> attr_bool(n, "buffered", FALSE),
   intg_pd |-> attr_num(n, "intgPd"), buf_depth |-> attr_num(n, "bufDepth"),
   indexed |-> attr_bool(n, "indexed", TRUE),
   trg_ops |-> each(child(n, "TrgOps"), trg_ops_from),
   opt_fields |-> each(child(n, "OptFields"), opt_fields_from),
   rpt_enabled |-> each(child(n, "RptEnabled"),
      LAMBDA r : [max |-> attr_num(r, "max"),
                  client_lns |-> each(children_named(r, "ClientLN"), client_ln_from)])]

\* A Protocol element's text; "" without one.
protocol_from(n) == IF child(n, "Protocol") = <<>> THEN "" ELSE child(n, "Protocol")[1].text.word

gse_control_from(n) ==
  [name |-> attr_string(n, "name"), app_id |-> attr_string(n, "appID"),
   dat_set |-> attr_string(n, "datSet"), kind |-> attr_string(n, "type"),
   fixed_offs |-> attr_bool(n, "fixedOffs", FALSE), protocol |-> protocol_from(n)]

sv_control_from(n) ==
  [name |-> attr_string(n, "name"), smv_id |-> attr_string(n, "smvID"),
   dat_set |-> attr_string(n, "datSet"), smp_rate |-> attr_num(n, "smpRate"),
   nof_asdu |-> attr_num(n, "nofASDU"), multicast |-> attr_bool(n, "multicast", TRUE),
   smp_mod |-> attr_string(n, "smpMod"), protocol |-> protocol_from(n),
   smv_opts |-> {o \in {"refreshTime", "sampleRate", "dataSet", "synchSourceId"} :
                   \E s \in ToSet(child(n, "SmvOpts")) : attr_bool(s, o, FALSE)}]

log_control_from(n) ==
  [name |-> attr_string(n, "name"), dat_set |-> attr_string(n, "datSet"),
   log_name |-> attr_string(n, "logName"), log_ena |-> attr_bool(n, "logEna", TRUE),
   reason_code |-> attr_bool(n, "reasonCode", TRUE), intg_pd |-> attr_num(n, "intgPd"),
   ld_inst |-> attr_string(n, "ldInst"), prefix |-> attr_string(n, "prefix"),
   ln_class |-> attr_string(n, "lnClass"), ln_inst |-> attr_string(n, "lnInst"),
   trg_ops |-> each(child(n, "TrgOps"), trg_ops_from)]

\* The element name says what LN0 is when the class is left out.
ln_from(n) ==
  [ln_class |-> IF attr_string(n, "lnClass") = "" /\ n.name = "LN0" THEN "LLN0"
                ELSE attr_string(n, "lnClass"),
   inst |-> attr_string(n, "inst"), ln_type |-> attr_string(n, "lnType"),
   prefix |-> attr_string(n, "prefix"),
   dois |-> each(children_named(n, "DOI"), doi_from),
   data_sets |-> each(children_named(n, "DataSet"), data_set_from),
   report_controls |-> each(children_named(n, "ReportControl"), report_control_from),
   gse_controls |-> each(children_named(n, "GSEControl"), gse_control_from),
   sampled_value_controls |-> each(children_named(n, "SampledValueControl"), sv_control_from),
   log_controls |-> each(children_named(n, "LogControl"), log_control_from),
   setting_control |-> each(child(n, "SettingControl"),
      LAMBDA s : [num_of_sgs |-> attr_num(s, "numOfSGs"), act_sg |-> attr_num(s, "actSG"),
                  resv_tms |-> attr_num(s, "resvTms")]),
   logs |-> SelectSeq(each(children_named(n, "Log"), LAMBDA l : attr_string(l, "name")),
                      LAMBDA w : w # "")]

instance_name(ln) ==
  IF ln.ln_class = "LLN0" THEN "LLN0" ELSE ln.prefix \o ln.ln_class \o ln.inst

all_lns(ld) == ld.ln0 \o ld.lns

server_from(n) ==
  [l_devices |-> each(children_named(n, "LDevice"),
     LAMBDA d : [inst |-> attr_string(d, "inst"), ln0 |-> each(child(d, "LN0"), ln_from),
                 lns |-> each(children_named(d, "LN"), ln_from)])]

services_from(n) ==
  [name_length |-> attr_string(n, "nameLength"),
   max_buf |-> each(child(n, "ConfReportControl"), LAMBDA c : attr_num(c, "maxBuf")),
   supervises |-> \E s \in ToSet(child(n, "SupSubscription")) :
                    attr_num(s, "maxGo") > 0 \/ attr_num(s, "maxSv") > 0]

ied_from(n) ==
  [name |-> attr_string(n, "name"), services |-> each(child(n, "Services"), services_from),
   access_points |-> each(children_named(n, "AccessPoint"),
     LAMBDA a : [name |-> attr_string(a, "name"),
                 services |-> each(child(a, "Services"), services_from),
                 server |-> each(child(a, "Server"), server_from)])]

\* An address: the text of each parameter, by its type.
address_from(n) ==
  LET ps == children_named(n, "P")
      of(type) == LET i == SelectInSeq(ps, LAMBDA p : attr_string(p, "type") \in {type, "tP_" \o type})
                  IN  IF i = 0 THEN NoText ELSE ps[i].text
  IN  [t \in {"MAC-Address", "APPID", "VLAN-ID", "VLAN-PRIORITY", "IP", "IPv6"} |-> of(t)]

NoAddress == [t \in {"MAC-Address", "APPID", "VLAN-ID", "VLAN-PRIORITY", "IP", "IPv6"} |-> NoText]

\* A duration in milliseconds; none, or one that is no number, is 0.
dur_from(opt) == IF opt # <<>> /\ is_number(opt[1].text) THEN opt[1].text.n ELSE 0

\* A GSE or SMV entry of an access point.
stream_from(n) ==
  [ld_inst |-> attr_string(n, "ldInst"), cb_name |-> attr_string(n, "cbName"),
   address |-> IF child(n, "Address") = <<>> THEN NoAddress ELSE address_from(child(n, "Address")[1]),
   min_time |-> dur_from(child(n, "MinTime")), max_time |-> dur_from(child(n, "MaxTime"))]

connected_ap_from(n) ==
  [ied_name |-> attr_string(n, "iedName"), ap_name |-> attr_string(n, "apName"),
   address |-> IF child(n, "Address") = <<>> THEN NoAddress ELSE address_from(child(n, "Address")[1]),
   gses |-> each(children_named(n, "GSE"), stream_from),
   smvs |-> each(children_named(n, "SMV"), stream_from)]

\* The connected access points of every subnetwork, in order.
communication_from(n) ==
  FlattenSeq(each(children_named(n, "SubNetwork"),
    LAMBDA s : each(children_named(s, "ConnectedAP"), connected_ap_from)))

\* A DA or BDA.
da_from(n) ==
  [name |-> attr_string(n, "name"), fc |-> attr_string(n, "fc"), btype |-> attr_string(n, "bType"),
   kind |-> attr_string(n, "type"), count |-> attr(n, "count"), trg |-> triggers(n),
   vals |-> each(children_named(n, "Val"), val_from)]

templates_from(n) ==
  LET id(t) == attr_string(t, "id")
  IN  [ln_types |-> each(children_named(n, "LNodeType"),
         LAMBDA t : [id |-> id(t), ln_class |-> attr_string(t, "lnClass"),
                     dos |-> each(children_named(t, "DO"),
                       LAMBDA d : [name |-> attr_string(d, "name"), kind |-> attr_string(d, "type")])]),
       do_types |-> each(children_named(n, "DOType"),
         LAMBDA t : [id |-> id(t), cdc |-> attr_string(t, "cdc"),
                     das |-> each(children_named(t, "DA"), da_from),
                     sdos |-> each(children_named(t, "SDO"),
                       LAMBDA s : [name |-> attr_string(s, "name"), kind |-> attr_string(s, "type"),
                                   count |-> attr(s, "count")])]),
       da_types |-> each(children_named(n, "DAType"),
         LAMBDA t : [id |-> id(t), bdas |-> each(children_named(t, "BDA"), da_from)]),
       enums |-> each(children_named(n, "EnumType"),
         LAMBDA t : [id |-> id(t), vals |-> each(children_named(t, "EnumVal"),
                       LAMBDA v : [name |-> v.text.word, ord |-> attr(v, "ord").n])])]

NoTemplates == [ln_types |-> <<>>, do_types |-> <<>>, da_types |-> <<>>, enums |-> <<>>]

scl_from(n) ==
  [xmlns |-> attr_string(n, "xmlns"), version |-> attr_string(n, "version"),
   revision |-> attr_string(n, "revision"), release |-> attr_string(n, "release"),
   comm |-> IF child(n, "Communication") = <<>> THEN <<>>
            ELSE communication_from(child(n, "Communication")[1]),
   ieds |-> each(children_named(n, "IED"), ied_from),
   types |-> IF child(n, "DataTypeTemplates") = <<>> THEN NoTemplates
             ELSE templates_from(child(n, "DataTypeTemplates")[1])]

\* Edition::validate: a foreign namespace, or a version that was not published.
known_edition(scl) ==
  \/ scl.version = ""
  \/ scl.version = "2003" /\ scl.revision = "A" /\ scl.release = ""
  \/ scl.version = "2007" /\ scl.revision = "B" /\ scl.release \in {"", "1", "2", "3", "4"}
  \/ scl.version = "2007" /\ scl.revision = "C" /\ scl.release = "5"

edition_validates(scl) ==
  scl.xmlns = "" \/ (scl.xmlns = "http://www.iec.ch/61850/2003/SCL" /\ known_edition(scl))
=============================================================================
