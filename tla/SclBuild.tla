------------------------------ MODULE SclBuild ------------------------------
(***************************************************************************)
(* From an SCL document to the model a server serves (scl/build.rs): type  *)
(* templates expanded, initial values applied per setting group and per    *)
(* array element, data sets and control blocks resolved.                   *)
(*                                                                         *)
(* A step of the loader yields a result: whether it succeeded, what it     *)
(* built, the diagnostics it raised and the setting-group values it        *)
(* recorded, in order.                                                     *)
(***************************************************************************)
EXTENDS Scl

CONSTANTS MAX_ARRAY_COUNT,    \* elements an array may ask for (65536)
          MAX_RCB_INSTANCES   \* instances of an indexed report block (99)

NESTING == 16                 \* sub-objects, or members, inside one another

built(v) == [ok |-> TRUE, v |-> v, diag |-> {}, rec |-> <<>>]
failed == [built(<<>>) EXCEPT !.ok = FALSE]
told(r, cond, path, what) == IF cond THEN [r EXCEPT !.diag = @ \cup {[path |-> path, what |-> what]}] ELSE r

\* A value worked out once and used in what follows.
With(v, next(_)) == next(v)

\* The next step on what the last one built.
then(r, s) == [s EXCEPT !.ok = r.ok /\ @, !.diag = r.diag \cup @, !.rec = r.rec \o @]

\* Every step of a sequence, and what they built.
collect(rs) ==
  [ok |-> \A i \in DOMAIN rs : rs[i].ok, v |-> each(rs, LAMBDA r : r.v),
   diag |-> UNION {rs[i].diag : i \in DOMAIN rs}, rec |-> FlattenSeq(each(rs, LAMBDA r : r.rec))]

\* Steps x applied in order to what is being built.
apply_each(Step(_, _), v, xs) ==
  FoldLeft(LAMBDA r, x : IF r.ok THEN then(r, Step(r.v, x)) ELSE r, built(v), xs)

put_first(seq, name, x) == [seq EXCEPT ![SelectInSeq(seq, LAMBDA e : e.name = name)] = x]

\* A template of an id: the last one declared, as a map built by insertion holds it.
template(seq, id) ==
  With(SelectLastInSeq(seq, LAMBDA t : t.id = id), LAMBDA i : IF i = 0 THEN <<>> ELSE <<seq[i]>>)

\* An exact (id, lnClass) match, else the first of the id.
ln_type(types, id, ln_class) ==
  LET i == SelectLastInSeq(types.ln_types, LAMBDA t : t.id = id /\ t.ln_class = ln_class)
      j == SelectInSeq(types.ln_types, LAMBDA t : t.id = id)
  IN  IF i # 0 THEN <<types.ln_types[i]>> ELSE IF j # 0 THEN <<types.ln_types[j]>> ELSE <<>>

----------------------------------------------------------------------------
(* Basic types, counts and indexes.                                        *)

\* 0 when not an array, or too big for one.
array_count(t) == IF is_number(t) /\ t.n \in 1 .. MAX_ARRAY_COUNT THEN t.n ELSE 0
too_big(t) == is_number(t) /\ t.n > MAX_ARRAY_COUNT

\* Both 0 and 1 name the first element; 0 is no index.
array_index(t) == IF ~is_number(t) \/ t.n < 0 THEN 0 ELSE IF t.n = 0 THEN 1 ELSE t.n

element_name(name, n) == name \o "(" \o ToString(n) \o ")"

kind_of(btype) ==
  CASE btype = "BOOLEAN" -> "Boolean"
    [] btype \in {"INT8", "INT16", "INT24", "INT32", "INT64", "INT128", "Enum", "DACount"} -> "Integer"
    [] btype \in {"INT8U", "INT16U", "INT24U", "INT32U", "INT64U"} -> "Unsigned"
    [] btype = "FLOAT32" -> "Float32"
    [] btype = "FLOAT64" -> "Float64"
    [] btype \in {"VisString32", "VisString64", "VisString65", "VisString129", "VisString255",
                  "ObjRef", "Currency"} -> "VisibleString"
    [] btype = "Unicode255" -> "MmsString"
    [] btype \in {"Octet6", "Octet16", "Octet64", "EntryID"} -> "OctetString"
    [] btype \in {"Quality", "Dbpos", "Tcmd", "Check", "TrgOps", "OptFlds", "SvOptFlds",
                  "LogOptFlds"} -> "BitString"
    [] btype = "Timestamp" -> "UtcTime"
    [] btype = "EntryTime" -> "BinaryTime"
    [] OTHER -> "None"

bit_len_of(btype) ==
  CASE btype = "Quality" -> 13
    [] btype \in {"Dbpos", "Tcmd", "Check"} -> 2
    [] btype = "TrgOps" -> 6
    [] btype \in {"OptFlds", "SvOptFlds", "LogOptFlds"} -> 10
    [] OTHER -> 8

default_value(kind, btype) == IF kind = "BitString" THEN Bits(bit_len_of(btype)) ELSE Scalar(kind, 0)

\* The attribute as the model holds it, before it has a value.
model_attribute(name, fc_raw, btype, enum_type, trg) ==
  DataAttribute(name, fc_raw, btype, <<>>) @@ [enum_type |-> enum_type, trg |-> trg]

phy_com_addr(fc_raw, trg) ==
  LET leaf(name, kind) == [model_attribute(name, fc_raw, "", "", trg)
                             EXCEPT !.kind = kind, !.value = <<Scalar(kind, 0)>>]
  IN  <<leaf("Addr", "OctetString"), leaf("PRIORITY", "Unsigned"), leaf("VID", "Unsigned"),
        leaf("APPID", "Unsigned")>>

\* The literal of an enumeration with a name.
literals(enum, name) == IF enum = <<>> THEN <<>> ELSE named(enum[1].vals, name)

\* The value a text gives an attribute; <<>> when it is not one.
set_value(enums, da, t) ==
  CASE da.btype = "Enum" /\ is_number(t) -> <<Scalar("Integer", t.n)>>
    [] da.btype = "Enum" /\ ~is_number(t) ->
         each(literals(template(enums, da.enum_type), t.word), LAMBDA l : Scalar("Integer", l.ord))
    [] da.btype # "Enum" /\ da.kind \in {"VisibleString", "MmsString"} -> <<Scalar(da.kind, t.n)>>
    [] da.btype # "Enum" /\ da.kind = "BitString" ->
         IF "BitString" \in t.as /\ t.len <= bit_len_of(da.btype)
         THEN <<[Bits(bit_len_of(da.btype)) EXCEPT !.n = t.n]>> ELSE <<>>
    [] OTHER -> IF da.kind \in t.as \ {"BinaryTime"} THEN <<Scalar(da.kind, t.n)>> ELSE <<>>

----------------------------------------------------------------------------
(* Templates expanded.                                                     *)

\* A DA or BDA of a basic type: its default, then the template's own value.
build_leaf(types, d, da, n, path) ==
  With(kind_of(d.btype), LAMBDA kind :
    With(default_value(kind, d.btype), LAMBDA zero :
      IF kind = "None" THEN told(built(da), TRUE, path, "unknown basic type")
      ELSE IF n > 0 THEN built([da EXCEPT !.kind = "Array", !.count = n,
                                          !.value = <<Array([i \in 1 .. n |-> zero])>>])
      ELSE With([da EXCEPT !.kind = kind, !.value = <<zero>>], LAMBDA leaf :
             With(IF d.vals = <<>> THEN <<zero>> ELSE set_value(types.enums, leaf, d.vals[1].value),
               LAMBDA given : IF given = <<>> THEN failed ELSE built([leaf EXCEPT !.value = given])))))

\* A structure, or an array of them, with the members that were built.
constructed(da, n, kids) ==
  [kids EXCEPT !.v = [da EXCEPT !.kind = IF n > 0 THEN "Array" ELSE "Structure", !.count = n, !.kids = kids.v]]

RECURSIVE build_da(_, _, _, _, _, _)
build_da(types, path, d, fc_raw, inherited, depth) ==
  LET n == array_count(d.count)
  IN  IF depth > NESTING THEN failed
      ELSE With(Append(path, d.name), LAMBDA here :
        With(model_attribute(d.name, fc_raw, d.btype, IF d.btype = "Enum" THEN d.kind ELSE "",
                             inherited \cup d.trg), LAMBDA da :
          With(template(types.da_types, d.kind), LAMBDA dat :
            told(told(
              CASE d.btype = "Struct" /\ dat = <<>> ->
                     told(built([da EXCEPT !.kind = "Structure"]), TRUE, here, "no such DAType")
                [] d.btype = "Struct" /\ dat # <<>> ->
                     constructed(da, n, collect(each(dat[1].bdas, LAMBDA bda :
                                          build_da(types, path, bda, fc_raw, da.trg, depth + 1))))
                [] d.btype = "PhyComAddr" -> constructed(da, n, built(phy_com_addr(fc_raw, da.trg)))
                [] OTHER -> build_leaf(types, d, da, n, here),
              da.fc = "Unknown", here, "unknown constraint"),
            too_big(d.count), here, "count beyond the limit"))))

\* A sub-object with a count is repeated, under the names Name(1), Name(2), ...
build_sdo(sub, sdo, path) ==
  LET n == array_count(sdo.count)
  IN  [told(sub, too_big(sdo.count), Append(path, sdo.name), "count beyond the limit")
         EXCEPT !.v = IF too_big(sdo.count) THEN <<>> ELSE IF n = 0 THEN <<sub.v>>
                      ELSE [i \in 1 .. n |-> [sub.v EXCEPT !.name = element_name(sdo.name, i)]]]

KnownCdc ==
  {"SPS", "DPS", "INS", "ENS", "VSS", "ACT", "ACD", "BCR", "MV", "CMV", "SAV", "WYE", "DEL", "SPC",
   "DPC", "INC", "ENC", "BSC", "APC", "SPG", "ING", "ENG", "ASG", "LPL", "DPL", "SEC", "HST", "ORS",
   "TCS", "SEQ", "HMV", "HWYE", "HDEL", "ISC", "BAC", "ORG", "TSG", "CUG", "VSG", "CURVE", "CSG",
   "CSD", "VSD", "CST", "BTS", "UTS", "LTS", "GTS", "MTS", "NTS", "STS", "CTS"}

object_of(name, das, subs) == then(das, [subs EXCEPT !.v = DataObject(name, das.v, FlattenSeq(@))])

RECURSIVE build_do(_, _, _, _, _)
build_do(types, path, name, type_id, depth) ==
  With(template(types.do_types, type_id), LAMBDA dot :
    IF depth > NESTING \/ dot = <<>> THEN failed
    ELSE With(Append(path, name), LAMBDA here :
           told(object_of(name,
                  collect(each(dot[1].das, LAMBDA da : build_da(types, here, da, da.fc, {}, 0))),
                  collect(each(dot[1].sdos, LAMBDA sdo :
                    build_sdo(build_do(types, here, sdo.name, sdo.kind, depth + 1), sdo, here)))),
                dot[1].cdc \notin KnownCdc \cup {""}, Append(here, name), "unknown data class")))

----------------------------------------------------------------------------
(* Initial values.  `b' is what the loader knows while it builds a node:   *)
(* the templates and the logical device.                                   *)

\* The group a value is for; one without a group, or a bad one, is for the active group.
group_of(t) == IF is_number(t) /\ t.n \in 0 .. 255 THEN t.n ELSE 0
bad_group(t) == t # NoText /\ ~(is_number(t) /\ t.n \in 0 .. 255)

\* A bug: values of any attribute are kept by group.
record_group_value_Any(b, group, da, value, path) ==
  IF group > 0
  THEN <<[ld |-> b.ld, group |-> group, path |-> Append(path, da.name), value |-> value]>> ELSE <<>>

\* Only settings are kept by group; any other value is just a value.
record_group_value(b, group, da, value, path) ==
  IF group > 0 /\ da.fc \in {"SG", "SE"}
  THEN <<[ld |-> b.ld, group |-> group, path |-> Append(path, da.name), value |-> value]>> ELSE <<>>

\* The element a DAI's sAddr selects; 0 for the whole attribute.
selected(da, dai) ==
  LET n == array_index(dai.s_addr)
  IN  IF da.kind = "Array" /\ n \in 1 .. da.count THEN n ELSE 0

\* One Val: applied, and for a setting group recorded and taken back.
apply_val(b, da, path, elem, val) ==
  LET elems == IF da.value = <<>> THEN <<>> ELSE da.value[1].elems
      here == Append(path, da.name)
  IN  told(IF elem # 0 /\ elem \notin DOMAIN elems THEN told(built(da), TRUE, here, "selects no element")
           ELSE With(set_value(b.types.enums,
                       [da EXCEPT !.kind = IF elem = 0 THEN @ ELSE elems[elem].type], val.value), LAMBDA new :
             IF new = <<>> THEN told(built(da), TRUE, here, "not a value of the type")
             ELSE With(IF elem = 0 THEN new[1] ELSE [da.value[1] EXCEPT !.elems[elem] = new[1]], LAMBDA whole :
               With(record_group_value(b, group_of(val.s_group), da, whole, path), LAMBDA rec :
                 [built(IF rec = <<>> THEN [da EXCEPT !.value = <<whole>>] ELSE da) EXCEPT !.rec = rec]))),
           bad_group(val.s_group), <<>>, "not a setting group")

apply_vals(b, da, dai, path) ==
  With(selected(da, dai), LAMBDA elem :
    then(told(built(da), dai.s_addr # NoText /\ elem = 0, Append(path, da.name), "selects no element"),
         apply_each(LAMBDA a, val : apply_val(b, a, path, elem, val), da, dai.vals)))

\* The next step, unless the last one failed.
and_then(r, next(_)) == IF r.ok THEN then(r, next(r.v)) ELSE r

\* The first of a sequence with a name changed in place; an unknown name is an error.
change_named(seq, name, change(_)) ==
  IF named(seq, name) = <<>> THEN failed
  ELSE and_then(change(named(seq, name)[1]), LAMBDA new : built(put_first(seq, name, new)))

\* An attribute with its members, an object with its attributes or its sub-objects, changed.
in_kids(da, r) == and_then(r, LAMBDA kids : built([da EXCEPT !.kids = kids]))
in_attrs(object, r) == and_then(r, LAMBDA attrs : built([object EXCEPT !.attrs = attrs]))
in_subs(object, r) == and_then(r, LAMBDA subs : built([object EXCEPT !.subs = subs]))

\* An object changed, or the sub-object in it that an index selects.
change_at(object, selects, name, change(_)) ==
  With(IF selects THEN named(object.subs, name)[1] ELSE object, LAMBDA o :
    and_then(change(o), LAMBDA new :
      built(IF selects THEN [object EXCEPT !.subs = put_first(@, name, new)] ELSE new)))

\* The name as given, or that of the array it names an element of.
own_or_base(seq, name) == IF named(seq, name.word) # <<>> THEN name.word ELSE name.base

RECURSIVE apply_sdi_on_da(_, _, _, _)
apply_sdi_on_da(b, da, sdi, path) ==
  and_then(apply_each(LAMBDA a, x :
             in_kids(a, change_named(a.kids, x.name.word, LAMBDA kid : apply_vals(b, kid, x, path))),
             da, sdi.dais), LAMBDA v :
    apply_each(LAMBDA a, x :
      in_kids(a, change_named(a.kids, x.name.word, LAMBDA kid :
                   apply_sdi_on_da(b, kid, x, Append(path, x.name.word)))), v, sdi.sdis))

\* The sub-object an SDI addresses: by its name, or an element of an array of them.
sdi_target(object, sdi, path) ==
  LET name == sdi.name.word
      given == sdi.ix # NoText
      n == IF array_index(sdi.ix) = 0 THEN 1 ELSE array_index(sdi.ix)
      el == element_name(name, n)
      here == Append(path, name)
      r == told(built(""), given /\ array_index(sdi.ix) = 0, here, "not an array index")
  IN  IF named(object.subs, name) # <<>> THEN built(name)
      ELSE IF sdi.name.base # "" THEN built("")
      ELSE IF named(object.subs, el) # <<>> THEN [r EXCEPT !.v = el]
      ELSE told(r, given, here, "selects no element")

\* A DAI of an object: its attribute, or the array it names an element of.
apply_dai(b, object, dai, path) ==
  in_attrs(object, change_named(object.attrs, own_or_base(object.attrs, dai.name), LAMBDA da :
                                apply_vals(b, da, dai, path)))

RECURSIVE apply_doi(_, _, _, _, _)
apply_doi(b, object, dais, sdis, path) ==
  and_then(apply_each(LAMBDA o, x : apply_dai(b, o, x, path), object, dais), LAMBDA v :
    apply_each(LAMBDA o, sdi :
      and_then(sdi_target(o, sdi, path), LAMBDA name :
        IF name # ""
        THEN in_subs(o, change_named(o.subs, name, LAMBDA sub :
                          apply_doi(b, sub, sdi.dais, sdi.sdis, Append(path, name))))
        ELSE in_attrs(o, change_named(o.attrs, sdi.name.word, LAMBDA da :
                           apply_sdi_on_da(b, da, sdi, Append(path, sdi.name.word))))), v, sdis))

\* A DOI of a node; with an index, of one element of an array of sub-objects.
apply_doi_on_ln(b, objects, ln_name, doi) ==
  LET path == <<ln_name, doi.name.word>>
      el == element_name(doi.name.word, array_index(doi.ix))
      is_element(object) == array_index(doi.ix) # 0 /\ named(object.subs, el) # <<>>
  IN  change_named(objects, own_or_base(objects, doi.name), LAMBDA object :
        told(change_at(object, is_element(object), el, LAMBDA o : apply_doi(b, o, doi.dais, doi.sdis, path)),
             doi.ix # NoText /\ ~is_element(object), path, "selects no element"))

\* The attribute a recorded path names, given its group's value.
RECURSIVE resolve_path(_, _, _)
resolve_path(object, segs, value) ==
  LET first == Head(segs)
      i == SelectInSeq(object.subs, LAMBDA s : s.name = first)
      j == SelectInSeq(object.attrs, LAMBDA a : a.name = first)
      \* write_kid stops at a structure, but only leaves are recorded
      kid == write_kid(object.attrs[j], Tail(segs), value)
  IN  IF segs = <<>> THEN object
      ELSE IF i # 0 THEN [object EXCEPT !.subs[i] = resolve_path(@, Tail(segs), value)]
      ELSE IF j # 0 /\ kid # <<>> THEN [object EXCEPT !.attrs[j] = kid[1]] ELSE object

apply_active_group(nodes, ld, group, rec) ==
  LET mine == SelectSeq(rec, LAMBDA e : e.ld = ld /\ e.group = group /\ group # 0)
      set(ns, e) ==
        LET i == SelectInSeq(ns, LAMBDA ln : ln.name = e.path[1])
            j == SelectInSeq(ns[i].objects, LAMBDA o : o.name = e.path[2])
        IN  IF i = 0 \/ j = 0 THEN ns
            ELSE [ns EXCEPT ![i].objects[j] = resolve_path(@, SubSeq(e.path, 3, Len(e.path)), e.value)]
  IN  FoldLeft(set, nodes, mine)

----------------------------------------------------------------------------
(* Data sets and control blocks.                                           *)

\* A member: FCDA@ix selects an element of the innermost name that has no index yet.
member_of(ied_name, ld_inst, f) ==
  LET ln == IF f.ln_class = "LLN0" THEN "LLN0" ELSE f.prefix \o f.ln_class \o f.ln_inst
      n == array_index(f.ix)
      index(t) == IF n = 0 \/ t = NoText \/ t.base # "" THEN t.parts
                  ELSE [t.parts EXCEPT ![Len(t.parts)] = element_name(@, n)]
      names == IF f.da_name = NoText THEN index(f.do_name) ELSE f.do_name.parts \o index(f.da_name)
  IN  [ld |-> ied_name \o (IF f.ld_inst = "" THEN ld_inst ELSE f.ld_inst),
       path |-> <<ln>> \o names, fc |-> parse_fc_lenient(f.fc)]

build_data_set(ied_name, ld_inst, dse) ==
  LET entries == [i \in DOMAIN dse.fcdas |-> member_of(ied_name, ld_inst, dse.fcdas[i])]
  IN  IF \E i \in DOMAIN entries : "" \in ToSet(entries[i].path) THEN failed
      ELSE built([name |-> dse.name, deletable |-> FALSE,
                  members |-> [i \in DOMAIN entries |-> to_mms(entries[i].path, entries[i].fc)]])

trg_ops_of(opt) == IF opt = <<>> THEN {"gi"} ELSE opt[1]

\* The first entry of the exact access point, else the first of the IED.
preferred(entries, ap_name) ==
  LET i == SelectInSeq(entries, LAMBDA e : e.ap = ap_name)
  IN  IF i # 0 THEN <<entries[i].v>> ELSE IF entries # <<>> THEN <<entries[1].v>> ELSE <<>>

ip_of(address) ==
  LET ip == SelectSeq(<<address["IP"], address["IPv6"]>>, LAMBDA t : "Ip" \in t.as)
  IN  IF ip = <<>> THEN "" ELSE ip[1].parts[1]

client_ip(comm, ied_name, ap_name) ==
  LET aps == SelectSeq(comm, LAMBDA c : c.ied_name = ied_name /\ ied_name # "" /\ "Ip" \in c.address["IP"].as)
      ips == preferred([i \in DOMAIN aps |-> [ap |-> IF ap_name = "" THEN "" ELSE aps[i].ap_name,
                                              v |-> aps[i].address["IP"].parts[1]]], ap_name)
  IN  IF ips = <<>> THEN "" ELSE ips[1]

\* ClientLN i reserves instance i; one without an address leaves it free.
reserve_instances(scl, rc, clients) ==
  LET n == IF Len(clients) > rc.rpt_enabled THEN rc.rpt_enabled ELSE Len(clients)
      ap(c) == IF c.ap_ref = "" THEN c.ap_name ELSE c.ap_ref
      ips == [i \in 1 .. n |-> client_ip(scl.comm, clients[i].ied_name, ap(clients[i]))]
  IN  told(told(built([rc EXCEPT !.reservations = ips]), Len(clients) > n, <<rc.name>>, "extra reservations"),
           "" \in ToSet(ips), <<rc.name>>, "client without an address")

two_digits(i) == (IF i < 10 THEN "0" ELSE "") \o ToString(i)

report_control_of(r) ==
  LET asked == IF r.indexed /\ r.rpt_enabled # <<>> /\ r.rpt_enabled[1].max > 0 THEN r.rpt_enabled[1].max ELSE 1
      n == IF asked > MAX_RCB_INSTANCES THEN MAX_RCB_INSTANCES ELSE asked
  IN  told(built([name |-> r.name, rpt_id |-> r.rpt_id, data_set |-> r.dat_set, buffered |-> r.buffered,
                  intg_pd |-> r.intg_pd, trg_ops |-> trg_ops_of(r.trg_ops), rpt_enabled |-> n,
                  not_indexed |-> ~r.indexed, reservations |-> <<>>,
                  instances |-> [i \in 1 .. n |-> r.name \o two_digits(i)],
                  opt_flds |-> IF r.opt_fields = <<>> THEN {} ELSE r.opt_fields[1],
                  max_queue_size |-> IF r.buffered THEN r.buf_depth ELSE 0]),
           asked > n, <<r.name>>, "instances beyond the limit")

build_report_control(scl, r) ==
  LET rc == report_control_of(r)
      clients == IF r.rpt_enabled = <<>> THEN <<>> ELSE r.rpt_enabled[1].client_lns
  IN  IF clients = <<>> THEN rc ELSE then(rc, reserve_instances(scl, rc.v, clients))

\* Its MAC address, APPID, VLAN identifier and priority; what does not parse is zero.
address_of(a) ==
  LET hex(t) == IF t.hex = <<>> THEN 0 ELSE t.hex[1]
      prio == a["VLAN-PRIORITY"]
  IN  [mac |-> IF "Mac" \in a["MAC-Address"].as THEN a["MAC-Address"].word ELSE "",
       app_id |-> hex(a["APPID"]), vlan_id |-> hex(a["VLAN-ID"]) % 4096,
       vlan_pri |-> IF is_number(prio) /\ prio.n \in 0 .. 255 THEN prio.n % 8 ELSE 0, ip |-> ip_of(a)]

find_gse(comm, ied_name, ap_name, ld_inst, cb_name) ==
  LET of(c) == SelectSeq(c.gses, LAMBDA g : g.cb_name = cb_name /\ g.ld_inst \in {"", ld_inst})
  IN  preferred(FlattenSeq([i \in DOMAIN comm |->
        IF comm[i].ied_name # ied_name THEN <<>>
        ELSE each(of(comm[i]), LAMBDA g : [ap |-> comm[i].ap_name, v |-> g])]), ap_name)

find_smv(comm, ied_name, ap_name, ld_inst, cb_name) ==
  LET of(c) == SelectSeq(c.smvs, LAMBDA g : g.cb_name = cb_name /\ g.ld_inst \in {"", ld_inst})
  IN  preferred(FlattenSeq([i \in DOMAIN comm |->
        IF comm[i].ied_name # ied_name THEN <<>>
        ELSE each(of(comm[i]), LAMBDA g : [ap |-> comm[i].ap_name, v |-> g])]), ap_name)

Unaddressed == [address |-> NoAddress, min_time |-> 0, max_time |-> 0]

build_gse_control(scl, at, g) ==
  LET found == find_gse(scl.comm, at.ied, at.ap, at.ld_inst, g.name)
      gse == IF found = <<>> THEN Unaddressed ELSE found[1]
      gsse == g.kind \in {"GSSE", "gsse"}
      address == address_of(gse.address)
      gc == [name |-> g.name, go_id |-> IF g.app_id = "" THEN g.name ELSE g.app_id,
             data_set |-> g.dat_set, gsse |-> gsse, protocol |-> g.protocol, fixed_offs |-> g.fixed_offs,
             address |-> address, min_time |-> gse.min_time, max_time |-> gse.max_time]
  IN  told(told(told(built(gc), gsse, <<g.name>>, "legacy variant"),
                g.fixed_offs, <<g.name>>, "fixed-offset encoding"),
           g.protocol = "R-GOOSE" /\ address.ip = "", <<g.name>>, "no routable destination")

build_sv_control(scl, at, s) ==
  LET found == find_smv(scl.comm, at.ied, at.ap, at.ld_inst, s.name)
      address == address_of(IF found = <<>> THEN NoAddress ELSE found[1].address)
      smp_mod == IF s.smp_mod \in {"SmpPerSec", "SecPerSmp"} THEN s.smp_mod ELSE "SmpPerPeriod"
  IN  told(built([name |-> s.name, sv_id |-> s.smv_id, data_set |-> s.dat_set, smp_rate |-> s.smp_rate,
                  no_asdu |-> s.nof_asdu, multicast |-> s.multicast, smp_mod |-> smp_mod,
                  protocol |-> s.protocol, opts |-> s.smv_opts, address |-> address]),
           s.protocol = "R-SV" /\ address.ip = "", <<s.name>>, "no routable destination")

build_log_control(l) ==
  [name |-> l.name, data_set |-> l.dat_set, log_name |-> l.log_name, trg_ops |-> trg_ops_of(l.trg_ops),
   intg_pd |-> l.intg_pd, log_ena |-> l.log_ena, reason_code |-> l.reason_code, log_ld_inst |-> l.ld_inst,
   log_ln |-> IF l.ln_class = "" THEN "" ELSE l.prefix \o l.ln_class \o l.ln_inst]

----------------------------------------------------------------------------
(* Nodes, devices, the model.                                              *)

\* The objects of a node's type, with the initial values of its instances.
build_objects(b, name, lne, lnt) ==
  and_then(collect(each(lnt.dos, LAMBDA d : build_do(b.types, <<name>>, d.name, d.kind, 0))), LAMBDA os :
    apply_each(LAMBDA v, doi : apply_doi_on_ln(b, v, name, doi), os, lne.dois))

node_of(lne, objects, sets, rcbs, gcbs, svcbs) ==
  IF ~objects.ok THEN failed
  ELSE then(objects, then(sets, then(rcbs, then(gcbs, [svcbs EXCEPT !.v =
         [name |-> instance_name(lne), objects |-> objects.v, data_sets |-> sets.v,
          report_controls |-> rcbs.v, gse_controls |-> gcbs.v, sv_controls |-> svcbs.v,
          logs |-> lne.logs, log_controls |-> each(lne.log_controls, build_log_control),
          setting_groups |-> each(lne.setting_control, LAMBDA s : s.resv_tms),
          act_sg |-> each(lne.setting_control, LAMBDA s : s.act_sg)]]))))

build_ln(scl, at, lne) ==
  With(ln_type(scl.types, lne.ln_type, lne.ln_class), LAMBDA lnt :
    IF lnt = <<>> THEN failed
    ELSE node_of(lne,
           build_objects([types |-> scl.types, ld |-> at.ied \o at.ld_inst], instance_name(lne), lne, lnt[1]),
           collect(each(lne.data_sets, LAMBDA d : build_data_set(at.ied, at.ld_inst, d))),
           collect(each(lne.report_controls, LAMBDA r : build_report_control(scl, r))),
           collect(each(lne.gse_controls, LAMBDA g : build_gse_control(scl, at, g))),
           collect(each(lne.sampled_value_controls, LAMBDA s : build_sv_control(scl, at, s)))))

\* The values of the group declared active, first of the device's, put into its nodes.
device_of(name, nodes, acts) ==
  IF ~nodes.ok THEN failed
  ELSE [nodes EXCEPT !.v = [name |-> name,
          nodes |-> IF acts = <<>> THEN @ ELSE apply_active_group(@, name, acts[1], nodes.rec)]]

build_ld(scl, ied, ap, ld) ==
  With([ied |-> ied.name, ap |-> ap.name, ld_inst |-> ld.inst], LAMBDA at :
    With(collect(each(all_lns(ld), LAMBDA lne : build_ln(scl, at, lne))), LAMBDA nodes :
      device_of(ied.name \o ld.inst, nodes, FlattenSeq(each(nodes.v, LAMBDA ln : ln.act_sg)))))

find_ied(scl, name) ==
  LET ieds == SelectSeq(scl.ieds, LAMBDA i : name \in {"", i.name})
  IN  IF ieds = <<>> THEN <<>> ELSE <<ieds[1]>>

\* A named access point must have a server; without a name, the first that has one.
find_ap(ied, name) ==
  LET aps == SelectSeq(ied.access_points, LAMBDA a : IF name = "" THEN a.server # <<>> ELSE a.name = name)
  IN  IF aps = <<>> \/ aps[1].server = <<>> THEN <<>> ELSE <<aps[1]>>

\* The access point's report buffer depth, else the IED's.
report_max_buf(ied, ap) ==
  LET depths == SelectSeq(FlattenSeq(each(ap.services \o ied.services, LAMBDA s : s.max_buf)), LAMBDA n : n > 0)
  IN  IF depths = <<>> THEN 0 ELSE depths[1]

with_max_buf(ld, depth) ==
  [ld EXCEPT !.nodes = each(@, LAMBDA ln : [ln EXCEPT !.report_controls = each(@,
     LAMBDA rc : IF rc.buffered /\ rc.max_queue_size = 0 THEN [rc EXCEPT !.max_queue_size = depth] ELSE rc)])]

\* The diagnostics raised before anything is built.
document_diag(scl, drops, ap) ==
  LET supervises == \E i \in DOMAIN ap.services : ap.services[i].supervises
      limits == \E i \in DOMAIN ap.services : ap.services[i].name_length # ""
  IN  {[path |-> d.path, what |-> "not decoded"] : d \in drops}
      \cup {[path |-> <<"SCL">>, what |-> w] : w \in
              (IF edition_validates(scl) THEN {} ELSE {"unknown edition"})
              \cup (IF limits THEN {"name length"} ELSE {})
              \cup (IF supervises THEN {"supervision"} ELSE {})}

\* The buffers sized and the diagnostics of the document added; strictly, any diagnostic is an error.
complete(lds, ied, ap, diag, strict) ==
  With(report_max_buf(ied, ap), LAMBDA depth :
    IF ~lds.ok \/ (strict /\ lds.diag \cup diag # {}) THEN failed
    ELSE [lds EXCEPT !.v = each(@, LAMBDA ld : with_max_buf(ld, depth)), !.diag = @ \cup diag])

build_model(scl, drops, opts) ==
  With(find_ied(scl, opts.ied), LAMBDA ied :
    IF ied = <<>> THEN failed
    ELSE With(find_ap(ied[1], opts.access_point), LAMBDA ap :
           IF ap = <<>> THEN failed
           ELSE complete(collect(each(ap[1].server[1].l_devices, LAMBDA ld :
                                   build_ld(scl, ied[1], ap[1], ld))),
                         ied[1], ap[1], document_diag(scl, drops, ap[1]), opts.strict)))

(***************************************************************************)
(* Loading one document: the events of its XML one at a time, then the     *)
(* audit, the typed document and the model.                                *)
(***************************************************************************)
CONSTANTS DocId, Document(_)    \* documents: [source, events, opts], `events' is <<>> for one that was read before

VARIABLE load         \* the document, the next event, the reader, the audit and, once loaded, the outcome

load_model(r, drops, opts) ==
  IF r.ok /\ r.root # <<>> /\ r.root[1].name = "SCL" THEN build_model(scl_from(r.root[1]), drops, opts) ELSE failed

SclInit(docs) ==
  \E i \in docs :
    LET d == Document(i)
    IN  load = [doc |-> i, at |-> 1, auditor |-> Auditor, out |-> <<>>,
                reader |-> [Reader EXCEPT !.root = IF d.events = <<>> THEN <<d.source>> ELSE <<>>]]

\* The audit reads the same text again; here the two readings advance together.
ReadEvent ==
  /\ load.out = <<>> /\ load.reader.ok
  /\ LET events == Document(load.doc).events
     IN  /\ load.at \in DOMAIN events
         /\ load' = [load EXCEPT !.at = @ + 1, !.reader = dom_event(@, events[load.at]),
                                 !.auditor = audit_event(@, events[load.at])]

LoadModel ==
  /\ load.out = <<>>
  /\ load.at \notin DOMAIN Document(load.doc).events \/ ~load.reader.ok
  /\ load' = [load EXCEPT !.out = <<load_model(load.reader, load.auditor.drops, Document(load.doc).opts)>>]

SclNext == ReadEvent \/ LoadModel

----------------------------------------------------------------------------
(* What the document declares, read off its elements.                      *)

loaded == load.out # <<>> /\ load.out[1].ok

\* The values an instance element declares, in order, each with the path of the
\* attribute it is for.
RECURSIVE declared_in(_, _, _)
declared_in(o, x, path) ==
  LET value(dai, v) == [path |-> Append(path, IF named(o.attrs, dai.name.word) # <<>> THEN dai.name.word ELSE dai.name.base),
                        elem |-> array_index(dai.s_addr), group |-> group_of(v.s_group), text |-> v.value]
      of_dai(dai) == each(dai.vals, LAMBDA v : value(dai, v))
      of_sdi(sdi) ==
        LET n == array_index(sdi.ix)
            names == <<sdi.name.word, element_name(sdi.name.word, IF n = 0 THEN 1 ELSE n)>>
            sub == FlattenSeq(each(names, LAMBDA w : named(o.subs, w)))
            da == named(o.attrs, sdi.name.word)
        IN  IF sub # <<>> THEN declared_in(sub[1], sdi, Append(path, sub[1].name))
            ELSE declared_in([attrs |-> da[1].kids, subs |-> <<>>], sdi, Append(path, sdi.name.word))
  IN  FlattenSeq(each(x.dais, of_dai)) \o FlattenSeq(each(x.sdis, of_sdi))

declared_values(ln, lne) ==
  FlattenSeq(each(lne.dois, LAMBDA doi :
    LET o == named(ln.objects, IF named(ln.objects, doi.name.word) # <<>> THEN doi.name.word ELSE doi.name.base)[1]
        el == named(o.subs, element_name(doi.name.word, array_index(doi.ix)))
    IN  IF el = <<>> THEN declared_in(o, doi, <<ln.name, o.name>>)
        ELSE declared_in(el[1], doi, <<ln.name, o.name, el[1].name>>)))

RECURSIVE leaves_of_da(_, _)
leaves_of_da(da, path) ==
  LET here == Append(path, da.name)
  IN  IF da.kids = <<>> THEN {[path |-> here, da |-> da]}
      ELSE UNION {leaves_of_da(da.kids[i], here) : i \in DOMAIN da.kids}

RECURSIVE leaves_of_do(_, _)
leaves_of_do(o, path) ==
  LET here == Append(path, o.name)
  IN  UNION {leaves_of_da(o.attrs[i], here) : i \in DOMAIN o.attrs}
      \cup UNION {leaves_of_do(o.subs[i], here) : i \in DOMAIN o.subs}

\* The value declared for a leaf, or an element of it: the last one for the active
\* group, else the last one for none; <<>> when the document declares no value.
declared_value(types, decls, leaf, elem, act) ==
  LET kind == IF elem = 0 THEN leaf.da.kind ELSE leaf.da.value[1].elems[elem].type
      value(d) == set_value(types.enums, [leaf.da EXCEPT !.kind = kind], d.text)
      setting == leaf.da.fc \in {"SG", "SE"}
      mine == SelectSeq(decls, LAMBDA d : d.path = leaf.path /\ d.elem = elem /\ value(d) # <<>>)
      grouped == SelectSeq(mine, LAMBDA d : setting /\ d.group = act /\ act # 0)
      plain == SelectSeq(mine, LAMBDA d : ~setting \/ d.group = 0)
  IN  IF grouped # <<>> THEN value(Last(grouped)) ELSE IF plain # <<>> THEN value(Last(plain)) ELSE <<>>

\* An array of settings some element of which is set for a group.
group_element(decls, leaf) ==
  leaf.da.fc \in {"SG", "SE"} /\ \E i \in DOMAIN decls : decls[i].path = leaf.path /\ decls[i].elem # 0 /\ decls[i].group # 0

\* Each leaf and element that fails to carry what the document declares for it.
Misloaded(which(_, _)) ==
  LET opts == Document(load.doc).opts
      scl == scl_from(load.reader.root[1])
      lds == find_ap(find_ied(scl, opts.ied)[1], opts.access_point)[1].server[1].l_devices
      wrong(i, j) ==
        LET ln == load.out[1].v[i].nodes[j]
            decls == declared_values(ln, all_lns(lds[i])[j])
            act == Head(FlattenSeq(each(load.out[1].v[i].nodes, LAMBDA n : n.act_sg)) \o <<0>>)
            leaves == UNION {leaves_of_do(ln.objects[k], <<ln.name>>) : k \in DOMAIN ln.objects}
            elems(leaf) == IF leaf.da.kind = "Array" THEN 1 .. leaf.da.count ELSE {0}
            carried(leaf, e) == IF e = 0 THEN leaf.da.value ELSE <<leaf.da.value[1].elems[e]>>
        IN  {<<leaf.path, e>> : <<leaf, e>> \in {x \in UNION {{l} \X elems(l) : l \in leaves} :
               /\ which(decls, x[1])
               /\ declared_value(scl.types, decls, x[1], x[2], act) \notin {<<>>, carried(x[1], x[2])}}}
  IN  UNION {wrong(i, j) : <<i, j>> \in {x \in (DOMAIN load.out[1].v) \X (1 .. 4) : x[2] \in DOMAIN load.out[1].v[x[1]].nodes}}

RECURSIVE kept(_, _)
kept(n, depth) ==
  [n EXCEPT !.children = IF depth >= XML_MAX_DEPTH THEN <<>> ELSE each(@, LAMBDA c : kept(c, depth + 1))]

RECURSIVE undeclared(_, _)
undeclared(n, path) ==
  LET here == Append(path, n.name)
      depth == IF Len(path) > MAX_AUDIT_DEPTH THEN MAX_AUDIT_DEPTH ELSE Len(path)
  IN  (IF n.name \in DECLARED THEN {}
       ELSE {[path |-> Append(SubSeq(path, 1, depth), n.name), cut |-> Len(path) >= MAX_AUDIT_DEPTH]})
      \cup UNION {undeclared(n.children[i], here) : i \in DOMAIN n.children}

(***************************************************************************)
(* A document read to its end is the tree that was written, down to the    *)
(* depth that is kept, and the audit has named every element the loader    *)
(* does not decode, below that depth too: the counters of skipped and of   *)
(* open elements (dom::parse, audit) stay in step with the nesting.        *)
(***************************************************************************)
ReadAsWritten ==
  LET d == Document(load.doc)
  IN  load.out # <<>> /\ d.events # <<>> =>
        /\ load.reader.ok /\ load.reader.root = <<kept(d.source, 1)>>
        /\ load.auditor.drops = undeclared(d.source, <<>>)

(***************************************************************************)
(* Once a document is loaded, every attribute, and every element of an     *)
(* array, carries the last value the document declares for it: for the     *)
(* group SettingControl makes active if it has one, else the one without a *)
(* group.  It relates apply_vals, which applies, records and takes back,   *)
(* to apply_active_group, which comes after every node is built.  Arrays   *)
(* of settings whose elements are set for groups are left out (see         *)
(* GroupElementsKept).                                                     *)
(***************************************************************************)
ServedIsDeclared == loaded => Misloaded(LAMBDA decls, leaf : ~group_element(decls, leaf)) = {}

(***************************************************************************)
(* What is served is what the document says, from its text to the values.  *)
(***************************************************************************)
LoadedAsDeclared == ReadAsWritten /\ ServedIsDeclared

(***************************************************************************)
(* The same for arrays of settings whose elements are set for groups, of   *)
(* which only the whole array's value is kept:                             *)
(* "Initial values are applied per setting group (Val@sGroup) and per      *)
(* array element".                                                         *)
(***************************************************************************)
GroupElementsKept == loaded => Misloaded(group_element) = {}
=============================================================================
