------------------------------ MODULE Access ------------------------------
(***************************************************************************)
(* The information model of a device and the flat MMS names it is served   *)
(* under (model/nodes.rs, model/fc.rs, model/reference.rs,                 *)
(* server/access.rs, server/cb.rs, server/rcb.rs).                         *)
(*                                                                         *)
(* A name is the sequence of its components: the item ID LN$FC$DO$DA is    *)
(* <<"LN", "FC", "DO", "DA">>.  An option is <<>> or <<x>>.                *)
(***************************************************************************)
EXTENDS Integers, SequencesExt

(* Functional constraints, in the order the enumeration declares them. *)
FcOrder ==
  << "None", "ST", "MX", "CO", "SP", "SG", "SE", "SV", "CF", "DC", "EX", "OR", "BL",
     "RP", "BR", "LG", "GO", "GS", "MS", "US", "All", "SR", "Unknown" >>

ALL_VALUES == ToSet(FcOrder) \ {"None", "All", "Unknown"}

parse_fc(s) == IF s = "*" THEN <<"All">> ELSE IF s \in ALL_VALUES THEN <<s>> ELSE <<>>

parse_fc_lenient(s) ==
  IF s = "" THEN "None" ELSE IF parse_fc(s) = <<>> THEN "Unknown" ELSE Head(parse_fc(s))

\* The mnemonic an item ID carries: the document's own for an unknown constraint.
fc_text(fc, raw) == IF fc # "Unknown" THEN fc ELSE IF raw = "" THEN "??" ELSE raw

matches(fc, other) == fc \in {"All", "None", other}

(***************************************************************************)
(* Values, attributes, objects.  A value has a type, a number (its         *)
(* contents), a length (of a bit string) and elements.                     *)
(***************************************************************************)
Scalar(type, n) == [type |-> type, n |-> n, len |-> 0, elems |-> <<>>]
Bits(len) == [type |-> "BitString", n |-> 0, len |-> len, elems |-> <<>>]
Structure(elems) == [type |-> "Structure", n |-> 0, len |-> 0, elems |-> elems]
Array(elems) == [type |-> "Array", n |-> 0, len |-> 0, elems |-> elems]

\* A leaf; one of a basic type the loader does not know has no value.
DataAttribute(name, raw, btype, value) ==
  [name |-> name, fc |-> parse_fc_lenient(raw), fc_name |-> raw, btype |-> btype,
   kind |-> IF value = <<>> THEN "None" ELSE value[1].type,
   value |-> value, kids |-> <<>>, count |-> 0]

Constructed(name, raw, kids) ==
  [DataAttribute(name, raw, "Struct", <<>>) EXCEPT !.kind = "Structure", !.kids = kids]

DataObject(name, attrs, subs) == [name |-> name, attrs |-> attrs, subs |-> subs]

\* The first element of that name, as iter().find returns it.
named(seq, name) ==
  LET i == SelectInSeq(seq, LAMBDA x : x.name = name) IN IF i = 0 THEN <<>> ELSE <<seq[i]>>

RECURSIVE fcs(_)
fcs(o) == {o.attrs[i].fc : i \in DOMAIN o.attrs} \cup UNION {fcs(o.subs[i]) : i \in DOMAIN o.subs}

has_fc(o, fc) == fc \in fcs(o)

\* The mnemonic the object writes for a constraint it exposes.
RECURSIVE object_fc_text(_, _)
object_fc_text(o, fc) ==
  LET i == SelectInSeq(o.attrs, LAMBDA a : a.fc = fc)
      j == SelectInSeq(o.subs, LAMBDA s : has_fc(s, fc))
  IN  IF i # 0 THEN fc_text(fc, o.attrs[i].fc_name)
      ELSE IF j # 0 THEN object_fc_text(o.subs[j], fc) ELSE fc_text(fc, "")

(***************************************************************************)
(* The name list of a logical device.                                      *)
(***************************************************************************)
RECURSIVE append_attr_names(_, _, _)
append_attr_names(prefix, a, fc) ==
  IF a.fc # fc THEN <<>>
  ELSE LET p == Append(prefix, a.name)
       IN  <<p>> \o FlattenSeq([i \in DOMAIN a.kids |-> append_attr_names(p, a.kids[i], fc)])

RECURSIVE append_sub_do_names(_, _, _)
append_sub_do_names(prefix, o, fc) ==
  IF ~has_fc(o, fc) THEN <<>>
  ELSE LET p == Append(prefix, o.name)
       IN  <<p>> \o FlattenSeq([i \in DOMAIN o.attrs |-> append_attr_names(p, o.attrs[i], fc)])
                 \o FlattenSeq([i \in DOMAIN o.subs |-> append_sub_do_names(p, o.subs[i], fc)])

\* The constraints present on a node, in canonical order.
constraints(ln) ==
  SelectSeq(FcOrder, LAMBDA fc : \E i \in DOMAIN ln.objects : has_fc(ln.objects[i], fc))

\* The name a node uses for a constraint: that of the first object exposing it.
fc_name_for(ln, fc) ==
  LET i == SelectInSeq(ln.objects, LAMBDA o : has_fc(o, fc))
  IN  IF i = 0 THEN fc_text(fc, "") ELSE object_fc_text(ln.objects[i], fc)

node_names(ln) ==
  LET order == constraints(ln)
      under(fc) == LET p == <<ln.name, fc_name_for(ln, fc)>>
                   IN  <<p>> \o FlattenSeq([i \in DOMAIN ln.objects |->
                                              append_sub_do_names(p, ln.objects[i], fc)])
  IN  << <<ln.name>> >> \o FlattenSeq([i \in DOMAIN order |-> under(order[i])])

names_for_domain(ld) == FlattenSeq([i \in DOMAIN ld.nodes |-> node_names(ld.nodes[i])])

(***************************************************************************)
(* Reading an item: the value composed for it, or why there is none.       *)
(***************************************************************************)
Ok(v) == [ok |-> TRUE, value |-> <<v>>, err |-> ""]
Err(e) == [ok |-> FALSE, value |-> <<>>, err |-> e]

RECURSIVE da_value_opt(_)
da_value_opt(da) ==
  IF da.kids = <<>>
  THEN IF da.value # <<>> THEN da.value
       ELSE IF da.kind = "None" THEN <<>> ELSE <<Scalar("Boolean", 0)>>
  ELSE LET kids == [i \in DOMAIN da.kids |-> da_value_opt(da.kids[i])]
           elem == Structure(FlattenSeq(kids))
       IN  IF <<>> \in ToSet(kids) THEN <<>>
           ELSE IF da.kind = "Array" THEN <<Array([i \in 1 .. da.count |-> elem])>> ELSE <<elem>>

RECURSIVE do_value(_, _)
do_value(o, fc) ==
  LET mine == SelectSeq(o.attrs, LAMBDA a : a.fc = fc)
      attrs == [i \in DOMAIN mine |-> da_value_opt(mine[i])]
      subs == [i \in DOMAIN o.subs |-> do_value(o.subs[i], fc)]
      members == FlattenSeq(attrs) \o FlattenSeq(subs)
  IN  IF <<>> \in ToSet(attrs) \/ members = <<>> THEN <<>> ELSE <<Structure(members)>>

RECURSIVE descend_objects(_, _)
descend_objects(o, rest) ==
  LET sub == IF rest = <<>> THEN <<>> ELSE named(o.subs, Head(rest))
  IN  IF sub = <<>> THEN [object |-> o, rest |-> rest] ELSE descend_objects(sub[1], Tail(rest))

RECURSIVE descend_kids(_, _)
descend_kids(da, rest) ==
  IF rest = <<>> THEN <<da>>
  ELSE LET kid == named(da.kids, Head(rest))
       IN  IF kid = <<>> THEN <<>> ELSE descend_kids(kid[1], Tail(rest))

\* The constraint selects at the first level; nested attributes inherit it.
descend_attributes(o, fc, rest) ==
  LET da == named(SelectSeq(o.attrs, LAMBDA a : a.fc = fc), Head(rest))
  IN  IF da = <<>> THEN <<>> ELSE descend_kids(da[1], Tail(rest))

\* A read of the object the path ends in.
read_object(at, fc) ==
  LET v == do_value(at.object, fc)
  IN  IF v = <<>> THEN Err("ObjectNonExistent") ELSE Ok(v[1])

\* A read of the attribute the path ends in.
read_attribute(at, fc) ==
  LET da == descend_attributes(at.object, fc, at.rest)
      v == IF da = <<>> THEN <<>> ELSE da_value_opt(da[1])
  IN  IF da = <<>> THEN Err("ObjectNonExistent")
      ELSE IF v = <<>> THEN Err("TypeInconsistent") ELSE Ok(v[1])

resolve_read_err(ln, item) ==
  LET fc == parse_fc_lenient(item[2])
      rest == SubSeq(item, 3, Len(item))
      top == named(ln.objects, rest[1])
      at == descend_objects(top[1], Tail(rest))
  IN  IF Len(item) < 2 THEN Err("ObjectNonExistent")
      ELSE IF rest = <<>>
      THEN Ok(Structure(FlattenSeq([i \in DOMAIN ln.objects |-> do_value(ln.objects[i], fc)])))
      ELSE IF top = <<>> THEN Err("ObjectNonExistent")
      ELSE IF at.rest = <<>> THEN read_object(at, fc) ELSE read_attribute(at, fc)

(***************************************************************************)
(* Writing an item: the leaf it addresses, and whether a value fits it.    *)
(***************************************************************************)
put(seq, name, x) == [i \in DOMAIN seq |-> IF seq[i].name = name THEN x ELSE seq[i]]

\* The attribute with the leaf at `rest' holding v; <<>> when there is none.
RECURSIVE write_kid(_, _, _)
write_kid(da, rest, v) ==
  IF rest = <<>>
  THEN IF da.kids = <<>> THEN <<[da EXCEPT !.value = <<v>>]>> ELSE <<>>
  ELSE LET kid == named(da.kids, Head(rest))
           new == IF kid = <<>> THEN <<>> ELSE write_kid(kid[1], Tail(rest), v)
       IN  IF new = <<>> THEN <<>> ELSE <<[da EXCEPT !.kids = put(@, Head(rest), new[1])]>>

\* Sub-objects are descended one short, so the last component names an attribute.
RECURSIVE write_object(_, _, _, _)
write_object(o, fc, rest, v) ==
  LET sub == IF Len(rest) > 1 THEN named(o.subs, Head(rest)) ELSE <<>>
      i == SelectInSeq(o.attrs, LAMBDA a : a.name = Head(rest) /\ a.fc = fc)
      new == IF sub # <<>> THEN write_object(sub[1], fc, Tail(rest), v)
             ELSE IF i = 0 THEN <<>> ELSE write_kid(o.attrs[i], Tail(rest), v)
  IN  IF new = <<>> THEN <<>>
      ELSE IF sub # <<>> THEN <<[o EXCEPT !.subs = put(@, Head(rest), new[1])]>>
      ELSE <<[o EXCEPT !.attrs = [@ EXCEPT ![i] = new[1]]]>>

\* The node with the addressed leaf holding v; <<>> when the item is no leaf.
resolve_write(ln, item, v) ==
  LET top == named(ln.objects, item[3])
      new == write_object(top[1], parse_fc_lenient(item[2]), SubSeq(item, 4, Len(item)), v)
  IN  IF Len(item) < 4 \/ top = <<>> \/ new = <<>> THEN <<>>
      ELSE <<[ln EXCEPT !.objects = put(@, item[3], new[1])]>>

\* The leaf itself, as the server looks at it before storing.
leaf_at(ln, item) ==
  LET at == descend_objects(named(ln.objects, item[3])[1], SubSeq(item, 4, Len(item)))
  IN  descend_attributes(at.object, parse_fc_lenient(item[2]), at.rest)

int_range(btype) ==
  LET signed(w) == << -(2^(w - 1)), 2^(w - 1) - 1 >>
      unsigned(w) == << 0, 2^w - 1 >>
  IN  CASE btype = "INT8" -> signed(8)
        [] btype = "INT16" -> signed(16)
        [] btype = "INT32" -> signed(32)
        [] btype = "INT8U" -> unsigned(8)
        [] btype = "INT16U" -> unsigned(16)
        [] btype = "INT32U" -> unsigned(32)
        [] OTHER -> <<>>

value_fits(da, v) ==
  LET range == int_range(da.btype)
  IN  \/ da.kind = "None" /\ da.value = <<>>
      \/ /\ v.type = IF da.value # <<>> THEN da.value[1].type ELSE da.kind
         /\ v.type = "BitString" => da.value = <<>> \/ v.len = da.value[1].len
         /\ v.type = "Integer" => range = <<>> \/ v.n \in range[1] .. range[2]
         /\ v.type = "Unsigned" => range = <<>> \/ v.n <= range[2]

(***************************************************************************)
(* The type specification of an item.                                      *)
(***************************************************************************)
scalar(kind) == [kind |-> kind, size |-> 0, count |-> 0, comps |-> <<>>]
sized(kind, size) == [scalar(kind) EXCEPT !.size = size]
structure(comps) == [scalar("Structure") EXCEPT !.comps = comps]
array(count, el) ==
  [scalar("Array") EXCEPT !.count = count, !.comps = << [name |-> "", spec |-> el] >>]
Component(name, spec) == [name |-> name, spec |-> spec]

\* The width IEC 61850-8-1 maps a basic type to; <<>> for one described by its value.
btype_type_spec(btype) ==
  CASE btype \in {"INT8", "Enum"} -> <<sized("Integer", 8)>>
    [] btype = "INT16" -> <<sized("Integer", 16)>>
    [] btype = "INT32" -> <<sized("Integer", 32)>>
    [] btype = "INT64" -> <<sized("Integer", 64)>>
    [] btype = "INT8U" -> <<sized("Unsigned", 8)>>
    [] btype = "INT16U" -> <<sized("Unsigned", 16)>>
    [] btype = "INT24U" -> <<sized("Unsigned", 24)>>
    [] btype = "INT32U" -> <<sized("Unsigned", 32)>>
    [] btype = "VisString32" -> <<sized("VisibleString", 32)>>
    [] btype = "VisString64" -> <<sized("VisibleString", 64)>>
    [] btype = "VisString65" -> <<sized("VisibleString", 65)>>
    [] btype \in {"VisString129", "ObjRef"} -> <<sized("VisibleString", 129)>>
    [] btype = "VisString255" -> <<sized("VisibleString", 255)>>
    [] btype = "Unicode255" -> <<sized("MmsString", 255)>>
    [] OTHER -> <<>>

RECURSIVE value_type_spec(_)
value_type_spec(value) ==
  IF value = <<>> THEN scalar("Boolean")
  ELSE LET v == value[1]
       IN  CASE v.type = "BitString" -> sized("BitString", -v.len)
             [] v.type \in {"Integer", "Unsigned"} -> sized(v.type, 32)
             [] v.type = "VisibleString" -> sized("VisibleString", 129)
             [] v.type = "OctetString" -> sized("OctetString", 64)
             [] v.type = "Array" ->
                  array(Len(v.elems), value_type_spec(SubSeq(v.elems, 1, IF v.elems = <<>> THEN 0 ELSE 1)))
             [] OTHER -> scalar(v.type)

RECURSIVE da_type_spec(_)
da_type_spec(da) ==
  LET ts == IF da.kids # <<>>
            THEN <<structure([i \in DOMAIN da.kids |->
                                Component(da.kids[i].name, da_type_spec(da.kids[i]))])>>
            ELSE btype_type_spec(da.btype)
  IN  IF ts = <<>> THEN value_type_spec(da.value)
      ELSE IF da.kind = "Array" THEN array(da.count, ts[1]) ELSE ts[1]

RECURSIVE do_type_spec(_, _)
do_type_spec(o, fc) ==
  LET attrs == SelectSeq(o.attrs, LAMBDA a : a.fc = fc)
      subs == SelectSeq(o.subs, LAMBDA s : has_fc(s, fc))
  IN  structure([i \in DOMAIN attrs |-> Component(attrs[i].name, da_type_spec(attrs[i]))]
                \o [i \in DOMAIN subs |-> Component(subs[i].name, do_type_spec(subs[i], fc))])

fc_type_spec(ln, fc) ==
  LET objects == SelectSeq(ln.objects, LAMBDA o : has_fc(o, fc))
  IN  structure([i \in DOMAIN objects |-> Component(objects[i].name, do_type_spec(objects[i], fc))])

ln_type_spec(ln) ==
  LET order == constraints(ln)
  IN  structure([i \in DOMAIN order |->
                   Component(fc_name_for(ln, order[i]), fc_type_spec(ln, order[i]))])

type_spec_for(ln, item) ==
  LET fc == parse_fc_lenient(item[2])
      top == named(ln.objects, item[3])
      at == descend_objects(top[1], SubSeq(item, 4, Len(item)))
      da == descend_attributes(at.object, fc, at.rest)
  IN  CASE Len(item) = 1 -> <<ln_type_spec(ln)>>
        [] Len(item) = 2 -> <<fc_type_spec(ln, fc)>>
        [] Len(item) > 2 /\ top = <<>> -> <<>>
        [] Len(item) > 2 /\ top # <<>> ->
             IF at.rest = <<>> THEN <<do_type_spec(at.object, fc)>>
             ELSE IF da = <<>> THEN <<>> ELSE <<da_type_spec(da[1])>>

(***************************************************************************)
(* References and item IDs: LD/LN.DO.DA under a constraint and back.       *)
(***************************************************************************)
to_mms(path, fc) ==
  IF path = <<>> THEN <<>>
  ELSE <<path[1]>> \o (IF fc \in {"None", "All"} THEN <<>> ELSE <<fc_text(fc, "")>>) \o Tail(path)

from_mms(item) ==
  IF Len(item) > 1 /\ parse_fc(item[2]) # <<>>
  THEN [path |-> <<item[1]>> \o SubSeq(item, 3, Len(item)), fc |-> parse_fc(item[2])[1]]
  ELSE [path |-> item, fc |-> "None"]

\* What a reference designates: the model's own lookup, for a data attribute.
attribute(ld, path, fc) ==
  LET ln == named(ld.nodes, path[1])
      top == named(ln[1].objects, path[2])
      at == descend_objects(top[1], SubSeq(path, 3, Len(path)))
      da == named(SelectSeq(at.object.attrs, LAMBDA a : matches(fc, a.fc)), at.rest[1])
  IN  IF Len(path) < 3 \/ ln = <<>> \/ top = <<>> \/ at.rest = <<>> \/ da = <<>> THEN <<>>
      ELSE descend_kids(da[1], Tail(at.rest))

(***************************************************************************)
(* Control blocks as objects of their logical node.                        *)
(***************************************************************************)
cb_attr(fc, name, type) ==
  DataAttribute(name, fc, "", <<IF type = "BitString" THEN Bits(10) ELSE Scalar(type, 0)>>)

attrs_of(fc, layout) == [i \in DOMAIN layout |-> cb_attr(fc, layout[i][1], layout[i][2])]

dst_address(fc) ==
  Constructed("DstAddress", fc, attrs_of(fc,
    << <<"Addr", "OctetString">>, <<"PRIORITY", "Unsigned">>, <<"VID", "Unsigned">>,
       <<"APPID", "Unsigned">> >>))

build_gocb_object(gc) ==
  IF gc.gsse
  THEN DataObject(gc.name, attrs_of("GS", << <<"GsEna", "Boolean">>, <<"GsID", "VisibleString">> >>), <<>>)
  ELSE DataObject(gc.name,
         attrs_of("GO", << <<"GoEna", "Boolean">>, <<"GoID", "VisibleString">>, <<"DatSet", "VisibleString">>,
                           <<"ConfRev", "Unsigned">>, <<"NdsCom", "Boolean">> >>)
         \o <<dst_address("GO")>>
         \o attrs_of("GO", << <<"MinTime", "Unsigned">>, <<"MaxTime", "Unsigned">>,
                              <<"FixedOffs", "Boolean">> >>), <<>>)

is_unicast(sc) == ~sc.multicast \/ sc.protocol = "R-SV"

build_svcb_object(sc) ==
  LET fc == IF is_unicast(sc) THEN "US" ELSE "MS"
  IN  DataObject(sc.name,
        attrs_of(fc, << <<"SvEna", "Boolean">> >>
                     \o (IF is_unicast(sc) THEN << <<"Resv", "Boolean">>, <<"UsvID", "VisibleString">> >>
                                           ELSE << <<"MsvID", "VisibleString">> >>)
                     \o << <<"DatSet", "VisibleString">>, <<"ConfRev", "Unsigned">>, <<"SmpRate", "Unsigned">>,
                           <<"OptFlds", "BitString">>, <<"SmpMod", "Integer">> >>)
        \o <<dst_address(fc)>> \o attrs_of(fc, << <<"noASDU", "Unsigned">> >>), <<>>)

build_lcb_object(lc) ==
  DataObject(lc.name,
    attrs_of("LG", << <<"LogEna", "Boolean">>, <<"LogRef", "VisibleString">>, <<"DatSet", "VisibleString">>,
                      <<"OldEntrTm", "BinaryTime">>, <<"NewEntrTm", "BinaryTime">>, <<"OldEnt", "OctetString">>,
                      <<"NewEnt", "OctetString">>, <<"TrgOps", "BitString">>, <<"IntgPd", "Unsigned">> >>), <<>>)

\* An indexed block has one instance per RptEnabled, numbered from 1.
rcb_instance_names(rc) ==
  IF rc.not_indexed THEN <<rc.name>>
  ELSE SubSeq(rc.instances, 1, IF rc.rpt_enabled < 1 THEN 1 ELSE rc.rpt_enabled)

build_rcb_object(rc, name) ==
  LET head == << <<"RptID", "VisibleString">>, <<"RptEna", "Boolean">> >>
      body == << <<"DatSet", "VisibleString">>, <<"ConfRev", "Unsigned">>, <<"OptFlds", "BitString">>,
                 <<"BufTm", "Unsigned">>, <<"SqNum", "Unsigned">>, <<"TrgOps", "BitString">>,
                 <<"IntgPd", "Unsigned">>, <<"GI", "Boolean">> >>
      buffered == << <<"PurgeBuf", "Boolean">>, <<"Owner", "OctetString">>, <<"EntryID", "OctetString">>,
                     <<"TimeofEntry", "BinaryTime">>, <<"ResvTms", "Integer">> >>
  IN  DataObject(name,
        IF rc.buffered THEN attrs_of("BR", head \o body \o buffered)
        ELSE attrs_of("RP", head \o << <<"Resv", "Boolean">> >> \o body), <<>>)

build_sgcb(resv_tms) ==
  DataObject("SGCB",
    attrs_of("SP", << <<"NumOfSG", "Unsigned">>, <<"ActSG", "Unsigned">>, <<"EditSG", "Unsigned">>,
                      <<"CnfEdit", "Boolean">>, <<"LActTm", "UtcTime">> >>
                   \o (IF resv_tms > 0 THEN << <<"ResvTms", "Unsigned">> >> ELSE <<>>)), <<>>)

\* GOOSE, sampled-value and log blocks of a node.
materialise_control_blocks(ln) ==
  [i \in DOMAIN ln.gse_controls |-> build_gocb_object(ln.gse_controls[i])]
  \o [i \in DOMAIN ln.sv_controls |-> build_svcb_object(ln.sv_controls[i])]
  \o [i \in DOMAIN ln.log_controls |-> build_lcb_object(ln.log_controls[i])]

\* Report control blocks of a node, every instance of each.
materialise_rcbs(ln) ==
  FlattenSeq([i \in DOMAIN ln.report_controls |->
    LET rc == ln.report_controls[i]
        names == rcb_instance_names(rc)
    IN  [j \in DOMAIN names |-> build_rcb_object(rc, names[j])]])

\* A logical node as the server serves it: setting groups, control blocks, reports.
served(ln) ==
  [name |-> ln.name, data_sets |-> ln.data_sets, logs |-> ln.logs,
   objects |-> ln.objects \o [i \in DOMAIN ln.setting_groups |-> build_sgcb(ln.setting_groups[i])]
               \o materialise_control_blocks(ln) \o materialise_rcbs(ln)]
=============================================================================
