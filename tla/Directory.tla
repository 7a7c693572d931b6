---------------------------- MODULE Directory ----------------------------
(***************************************************************************)
(* A client finding out what a server holds: the server's GetNameList,     *)
(* type and data-set services (server/handler.rs) and the client's         *)
(* browsing, model retrieval and data-set reads over them                  *)
(* (client/directory.rs, client/retrieve.rs, client/dataset.rs), while     *)
(* another client writes leaves and defines and deletes data sets.         *)
(*                                                                         *)
(* One logical device is served.  A data set and a log are named           *)
(* <<LN, name>>.                                                           *)
(***************************************************************************)
EXTENDS Access, FiniteSets

CONSTANTS
  Config,       \* the logical devices that may be configured, one of them served; `sorted'
                \* is the order of its node names,
                \* `page' is how many names fit in one GetNameList response, `ops'
                \* and `sets' what the client calls, `writable' the constraints the
                \* server lets clients write, `writes' and `defines' what the other
                \* client may try to write ([item, value]) and define ([ln, set])
  MaxChanges,   \* bound on the other client's writes, definitions and deletions
  MaxRefused    \* bound on type requests that fail

VARIABLES
  conf,         \* the device as configured
  dev,          \* the device as served
  wrote,        \* the other client's writes, in order
  changes,      \* changes made by the other client
  call          \* the client's call in progress, or its result

dirVars == <<conf, dev, wrote, changes, call>>

node(name) == named(dev.nodes, name)

data_set(list) ==
  LET ln == node(list[1]) IN IF ln = <<>> THEN <<>> ELSE named(ln[1].data_sets, list[2])

read_in(ld, item) ==
  LET ln == named(ld.nodes, item[1]) IN IF ln = <<>> THEN Err("ObjectNonExistent") ELSE resolve_read_err(ln[1], item)

read_one(item) == read_in(dev, item)

\* The type of one item, and the members and the values of one data set.
get_variable_access(item) ==
  LET ln == node(item[1]) IN IF ln = <<>> THEN <<>> ELSE type_spec_for(ln[1], item)

get_nvl_attrs(list) == IF data_set(list) = <<>> THEN <<>> ELSE <<data_set(list)[1].members>>

read_inner(list) ==
  LET members == get_nvl_attrs(list)
  IN  IF members = <<>> THEN <<>> ELSE [i \in DOMAIN members[1] |-> read_one(members[1][i])]

(***************************************************************************)
(* The server's name lists, a page at a time.                              *)
(***************************************************************************)
journal_names(ld) ==
  FlattenSeq([i \in DOMAIN ld.nodes |->
    [j \in DOMAIN ld.nodes[i].logs |-> <<ld.nodes[i].name, ld.nodes[i].logs[j]>>]])

enumerate(ld, class) ==
  IF class = "NamedVariable" THEN names_for_domain(ld)
  ELSE FlattenSeq([i \in DOMAIN ld.nodes |->
         [j \in DOMAIN ld.nodes[i].data_sets |->
            <<ld.nodes[i].name, ld.nodes[i].data_sets[j].name>>]])

\* A page carries as many names as fit, and at least one when there is one.
fill_page(names) ==
  [page |-> SubSeq(names, 1, IF Len(names) < conf.page THEN Len(names) ELSE conf.page),
   more |-> Len(names) > conf.page]

\* A bug: the entry after the named one is passed over.
continued_Skips(names, after) ==
  LET i == IF after = <<>> THEN 0 ELSE SelectInSeq(names, LAMBDA n : n = after)
  IN  SubSeq(names, IF i = 0 THEN 1 ELSE i + 2, Len(names))

\* Continuation starts after the named entry; an unknown one is ignored.
continued(names, after) ==
  LET i == IF after = <<>> THEN 0 ELSE SelectInSeq(names, LAMBDA n : n = after)
  IN  SubSeq(names, i + 1, Len(names))

get_name_list(class, after) ==
  fill_page(continued(IF class = "Journal" THEN journal_names(dev) ELSE enumerate(dev, class), after))

(***************************************************************************)
(* What the client makes of the lists.                                     *)
(***************************************************************************)
is_control_block_fc(fc) == fc \in {"BR", "RP", "LG", "GO", "GS", "MS", "US"}

VarClass == {"DATA", "BRCB", "URCB", "LCB", "SGCB", "GoCB", "GsCB", "MSVCB", "USVCB"}

constraint(class) ==
  CASE class = "BRCB" -> "BR" [] class = "URCB" -> "RP" [] class = "LCB" -> "LG"
    [] class = "SGCB" -> "SP" [] class = "GoCB" -> "GO" [] class = "GsCB" -> "GS"
    [] class = "MSVCB" -> "MS" [] class = "USVCB" -> "US" [] OTHER -> "None"

holds(class, fc, name) ==
  CASE class = "DATA" -> ~is_control_block_fc(fc) /\ ~(fc = "SP" /\ name = "SGCB")
    [] class = "SGCB" -> fc = "SP" /\ name = "SGCB"
    [] OTHER -> constraint(class) = fc

ensure(seq, x) == IF \E i \in DOMAIN seq : seq[i].name = x.name THEN seq ELSE Append(seq, x)

\* The objects of one class a node's names mention, each once.
objects_of_class(names, ln, class) ==
  LET mine == SelectSeq(names, LAMBDA n : /\ Len(n) >= 3 /\ n[1] = ln
                                          /\ holds(class, parse_fc_lenient(n[2]), n[3]))
  IN  {mine[i][3] : i \in DOMAIN mine}

names_under(names, ln) == {names[i][2] : i \in {j \in DOMAIN names : names[j][1] = ln}}

\* GetLogicalNodeDirectory: the names of one class under a node.
logical_node_directory(lists, ln, class) ==
  CASE class = "DATA-SET" -> names_under(lists["NamedVariableList"], ln)
    [] class = "LOG" -> names_under(lists["Journal"], ln)
    [] OTHER -> objects_of_class(lists["NamedVariable"], ln, class)

logical_nodes(names) == {names[i][1] : i \in DOMAIN names}

\* One pass over the three lists; a reference already found is not added again.
browse(lists) ==
  LET vars == lists["NamedVariable"]
      found == {[ref |-> IF class = "DATA" THEN <<vars[i][1], vars[i][3]>>
                         ELSE <<vars[i][1], fc_text(parse_fc_lenient(vars[i][2]), ""), vars[i][3]>>,
                 class |-> class] :
                  <<i, class>> \in {x \in (DOMAIN vars) \X VarClass :
                                      /\ Len(vars[x[1]]) >= 3
                                      /\ holds(x[2], parse_fc_lenient(vars[x[1]][2]), vars[x[1]][3])}}
      add(known, class, names) ==
        known \cup {[ref |-> n, class |-> class] : n \in {m \in ToSet(names) : \A e \in known : e.ref # m}}
  IN  add(add(found, "DATA-SET", lists["NamedVariableList"]), "LOG", lists["Journal"])

\* The children of an object or attribute, under one constraint or under all.
data_directory(names, path, fc) ==
  LET want == Tail(path)
      below == {i \in DOMAIN names :
                  /\ Len(names[i]) = Len(path) + 2
                  /\ names[i][1] = path[1]
                  /\ fc \in {"All", "None", parse_fc_lenient(names[i][2])}
                  /\ SubSeq(names[i], 3, Len(names[i]) - 1) = want}
  IN  {Last(names[i]) : i \in below}

(***************************************************************************)
(* Rebuilding the model from type specifications.                          *)
(***************************************************************************)
RECURSIVE attr_from_spec(_, _, _)
attr_from_spec(name, ts, raw) ==
  IF ts.kind = "Structure"
  THEN Constructed(name, raw, [i \in DOMAIN ts.comps |->
                                 attr_from_spec(ts.comps[i].name, ts.comps[i].spec, raw)])
  ELSE [DataAttribute(name, raw, "", <<Scalar(ts.kind, 0)>>) EXCEPT !.count = ts.count]

\* The attributes LN$FC$DO adds to its object.
expand_type_spec(o, ts, raw) ==
  IF ts.kind # "Structure" THEN Append(o.attrs, attr_from_spec(o.name, ts, raw))
  ELSE o.attrs \o [i \in DOMAIN ts.comps |-> attr_from_spec(ts.comps[i].name, ts.comps[i].spec, raw)]

ensure_ln(nodes, name) == ensure(nodes, [name |-> name, objects |-> <<>>])

\* The nodes with the type of <<LN, FC, DO>> grafted on.
grafted(nodes, key, ts) ==
  LET with == ensure_ln(nodes, key[1])
      ln == named(with, key[1])[1]
      objects == ensure(ln.objects, DataObject(key[3], <<>>, <<>>))
      o == named(objects, key[3])[1]
      new == [o EXCEPT !.attrs = expand_type_spec(o, ts, key[2])]
  IN  put(with, key[1], [ln EXCEPT !.objects = put(objects, key[3], new)])

\* The (LN, FC, DO) triples of a name list, in order, each once.
keys_of(names) ==
  LET key(i) == SubSeq(names[i], 1, 3)
      first == SelectSeq([i \in DOMAIN names |-> i],
                 LAMBDA i : /\ Len(names[i]) >= 3
                            /\ \A j \in 1 .. i - 1 : Len(names[j]) < 3 \/ key(j) # key(i))
  IN  [k \in DOMAIN first |-> key(first[k])]

(***************************************************************************)
(* The calls.                                                              *)
(***************************************************************************)
Lists == <<"NamedVariable", "NamedVariableList", "Journal">>

NoCall ==
  [op |-> "none", todo |-> <<>>, after |-> <<>>, keys |-> <<>>, nodes |-> <<>>, refused |-> {},
   lists |-> [c \in ToSet(Lists) |-> <<>>], list |-> <<>>, refs |-> <<>>, values |-> <<>>,
   truth |-> <<>>, here |-> {}, ever |-> {}, moved |-> FALSE]

set_names == ToSet(enumerate(dev, "NamedVariableList"))

Begin(op) ==
  /\ call.op = "none"
  /\ call' = [NoCall EXCEPT !.op = op, !.here = set_names, !.ever = set_names,
                            !.todo = IF op = "browse" THEN Lists ELSE <<"NamedVariable">>]
  /\ UNCHANGED <<conf, dev, wrote, changes>>

\* One request and response of Conn::get_name_list's loop.
ListPage ==
  /\ call.op \in {"browse", "retrieve"} /\ call.todo # <<>>
  /\ LET class == Head(call.todo)
         r == get_name_list(class, call.after)
         more == r.more /\ r.page # <<>>
         lists == [call.lists EXCEPT ![class] = @ \o r.page]
     IN  call' = [call EXCEPT !.lists = lists,
                              !.after = IF more THEN Last(r.page) ELSE <<>>,
                              !.todo = IF more THEN @ ELSE Tail(@),
                              !.keys = IF call.op = "retrieve" /\ ~more THEN keys_of(lists[class]) ELSE @]
  /\ UNCHANGED <<conf, dev, wrote, changes>>

\* One GetVariableAccessAttributes of retrieve_device; a refused one is skipped.
Introspect ==
  /\ call.op = "retrieve" /\ call.todo = <<>> /\ call.keys # <<>>
  /\ LET key == Head(call.keys)
         ts == get_variable_access(key)
     IN  \/ /\ ts # <<>>
            /\ call' = [call EXCEPT !.keys = Tail(@), !.nodes = grafted(@, key, ts[1])]
         \/ /\ Cardinality(call.refused) < MaxRefused
            /\ call' = [call EXCEPT !.keys = Tail(@), !.refused = @ \cup {key}]
  /\ UNCHANGED <<conf, dev, wrote, changes>>

\* The nodes sorted by name; `sorted' of the device is the order of its node names.
by_name(nodes) == FlattenSeq([i \in DOMAIN conf.sorted |-> named(nodes, conf.sorted[i])])

\* Nodes with no readable objects still appear, and the nodes are sorted.
Retrieved ==
  /\ call.op = "retrieve" /\ call.todo = <<>> /\ call.keys = <<>>
  /\ LET names == call.lists["NamedVariable"]
         bare == SelectSeq(names, LAMBDA n : Len(n) = 1)
     IN  call' = [call EXCEPT !.op = "retrieved",
                    !.nodes = by_name(FoldLeft(LAMBDA acc, n : ensure_ln(acc, n[1]), @, bare))]
  /\ UNCHANGED <<conf, dev, wrote, changes>>

Browsed ==
  /\ call.op = "browse" /\ call.todo = <<>>
  /\ call' = [call EXCEPT !.op = "browsed"]
  /\ UNCHANGED <<conf, dev, wrote, changes>>

\* read_data_set's first request: the members of the list.
GetMembers(list) ==
  /\ call.op = "none"
  /\ LET members == get_nvl_attrs(list)
     IN  call' = IF members = <<>> THEN [NoCall EXCEPT !.op = "failed"]
                 ELSE [NoCall EXCEPT !.op = "members", !.list = list, !.refs = members[1],
                                     !.ever = {list}]
  /\ UNCHANGED <<conf, dev, wrote, changes>>

\* Its second: the values, which it labels with those members; the server refuses a
\* list that is gone.
ReadList ==
  /\ call.op = "members"
  /\ call' = IF data_set(call.list) = <<>> THEN [NoCall EXCEPT !.op = "failed"]
             ELSE [call EXCEPT !.op = "read",
                               !.values = read_inner(call.list),
                               !.truth = [i \in DOMAIN call.refs |-> read_one(call.refs[i])]]
  /\ UNCHANGED <<conf, dev, wrote, changes>>

Return ==
  /\ call.op \in {"browsed", "retrieved", "read", "failed"}
  /\ call' = NoCall
  /\ UNCHANGED <<conf, dev, wrote, changes>>

(***************************************************************************)
(* The other client.                                                       *)
(***************************************************************************)
Changed ==
  /\ changes < MaxChanges
  /\ changes' = changes + 1
  /\ UNCHANGED conf

\* The constraints a server makes writable, and SE only while a setting group is being
\* edited, which none is here (SettingGroups has the editing).
write_permitted(fc) == fc \in conf.writable /\ fc # "SE"

\* store: a leaf under a writable constraint takes a value that fits it and that the
\* application's write hook admits; any other write changes nothing.
Write(w, admitted) ==
  /\ Changed
  /\ LET ln == node(w.item[1])
         new == IF ln = <<>> THEN <<>> ELSE resolve_write(ln[1], w.item, w.value)
     IN  IF /\ new # <<>> /\ write_permitted(parse_fc_lenient(w.item[2]))
            /\ value_fits(leaf_at(ln[1], w.item)[1], w.value) /\ admitted
         THEN /\ dev' = [dev EXCEPT !.nodes = put(@, w.item[1], new[1])]
              /\ wrote' = Append(wrote, w)
         ELSE UNCHANGED <<dev, wrote>>
  /\ UNCHANGED call

with_sets(ln, sets) == [dev EXCEPT !.nodes = put(@, ln.name, [ln EXCEPT !.data_sets = sets])]

DefineSet(new) ==
  /\ Changed /\ node(new.ln) # <<>> /\ data_set(<<new.ln, new.set.name>>) = <<>>
  /\ LET ln == node(new.ln)[1] IN dev' = with_sets(ln, Append(ln.data_sets, new.set))
  /\ call' = [call EXCEPT !.ever = @ \cup {<<new.ln, new.set.name>>},
                          !.moved = @ \/ <<new.ln, new.set.name>> \in call.ever]
  /\ UNCHANGED wrote

DeleteSet(list) ==
  /\ Changed /\ data_set(list) # <<>> /\ data_set(list)[1].deletable
  /\ LET ln == node(list[1])[1]
     IN  dev' = with_sets(ln, SelectSeq(ln.data_sets, LAMBDA d : d.name # list[2]))
  /\ call' = [call EXCEPT !.here = @ \ {list}]
  /\ UNCHANGED wrote

(***************************************************************************)
(* The specification.                                                      *)
(***************************************************************************)
DirInit(configs) ==
  /\ conf \in configs
  /\ dev = [name |-> conf.name, nodes |-> [i \in DOMAIN conf.nodes |-> served(conf.nodes[i])]]
  /\ wrote = <<>> /\ changes = 0 /\ call = NoCall

OtherClient ==
  \/ \E w \in conf.writes, admitted \in BOOLEAN : Write(w, admitted)
  \/ \E new \in conf.defines : DefineSet(new)
  \/ \E list \in set_names : DeleteSet(list)

DirNext ==
  \/ \E op \in conf.ops : Begin(op)
  \/ ListPage \/ Introspect \/ Retrieved \/ Browsed
  \/ \E list \in conf.sets : GetMembers(list)
  \/ ReadList \/ Return \/ OtherClient

(***************************************************************************)
(* Properties.                                                             *)
(***************************************************************************)
\* A value has the shape its type specification declares.
RECURSIVE Conforms(_, _)
Conforms(v, ts) ==
  /\ v.type = ts.kind
  /\ v.type = "Structure" => /\ Len(v.elems) = Len(ts.comps)
                             /\ \A i \in DOMAIN v.elems : Conforms(v.elems[i], ts.comps[i].spec)
  /\ v.type = "Array" => /\ Len(v.elems) = ts.count
                         /\ \A i \in DOMAIN v.elems : Conforms(v.elems[i], ts.comps[1].spec)

Readable(n) == read_one(n).ok
Typed(n) == type_spec_for(node(n[1])[1], n)

\* A leaf of the served tree: a listed name whose type has no components.
Leaves(names) == {n \in names : Len(n) > 3 /\ Typed(n)[1].kind \notin {"Structure", "Array"}}

\* A leaf of a basic type the loader does not know, that nobody gave a value.
Unknown(n) ==
  LET ln == node(n[1])[1]
      da == leaf_at(ln, n)[1]
  IN  resolve_write(ln, n, Scalar("Integer", 0)) # <<>> /\ da.kind = "None" /\ da.value = <<>>

\* Every name the server advertises reads with the shape its own type specification
\* declares, unless there is a leaf of unknown basic type below it: that leaf is
\* refused as type-inconsistent, and so is every structure it is itself a member of.
\* The same object under a constraint it is not listed under does not read
\* (access.rs: names_for_domain, resolve_read_err, type_spec_for are three separate
\* walks of the tree).
ServedAsNamed ==
  call = NoCall =>
  LET names == ToSet(names_for_domain(dev))
      used == {n[2] : n \in {m \in names : Len(m) = 2}}
      unknown == {n \in names : Unknown(n)}
  IN  \A n \in names : Len(n) > 1 =>
        /\ Typed(n) # <<>>
        /\ (\A u \in unknown : ~IsPrefix(n, u))
             => Readable(n) /\ Conforms(read_one(n).value[1], Typed(n)[1])
        /\ n \in unknown => read_one(n) = Err("TypeInconsistent")
        /\ Len(n) > 2 /\ (\E u \in unknown : Front(u) = n) => ~Readable(n)
        /\ Len(n) > 2 => \A fc \in used : LET other == [n EXCEPT ![2] = fc]
                                          IN  other \in names \/ ~Readable(other)
        /\ to_mms(from_mms(n).path, from_mms(n).fc) = n

\* The same of whatever reads: no structure has fewer components than its type
\* declares, "which a client reads against the wrong member names" (do_value).  It does
\* not hold above an object with a leaf of unknown type: do_value leaves out a
\* sub-object, and resolve_read_err an object, that has no value.
NoMemberLeftOut ==
  call = NoCall =>
    \A n \in ToSet(names_for_domain(dev)) :
      Len(n) > 1 /\ Readable(n) => Conforms(read_one(n).value[1], Typed(n)[1])

\* Every leaf reads what was last written to it, or what it was configured with, and
\* the writes changed no name of the device (access.rs resolve_write: the write walk
\* stops one component earlier than the read walk).
ReadsLastWritten ==
  call = NoCall =>
    LET start == [name |-> conf.name, nodes |-> [i \in DOMAIN conf.nodes |-> served(conf.nodes[i])]]
        names == ToSet(names_for_domain(dev))
    IN  /\ names = ToSet(names_for_domain(start))
        /\ \A n \in Leaves(names) :
             LET w == SelectLastInSeq(wrote, LAMBDA x : x.item = n)
             IN  read_one(n) = IF w = 0 THEN read_in(start, n) ELSE Ok(wrote[w].value)

RcbNames(ln, buffered) ==
  UNION {ToSet(rcb_instance_names(ln.report_controls[i])) :
           i \in {j \in DOMAIN ln.report_controls : ln.report_controls[j].buffered = buffered}}

NamesOf(seq) == {seq[i].name : i \in DOMAIN seq}
Where(seq, P(_)) == {seq[i].name : i \in {j \in DOMAIN seq : P(seq[j])}}

\* The objects of a class a logical node is configured with.
Configured(ln, class) ==
  CASE class = "DATA" -> NamesOf(ln.objects)
    [] class = "BRCB" -> RcbNames(ln, TRUE) [] class = "URCB" -> RcbNames(ln, FALSE)
    [] class = "LCB" -> NamesOf(ln.log_controls)
    [] class = "SGCB" -> IF ln.setting_groups = <<>> THEN {} ELSE {"SGCB"}
    [] class = "GoCB" -> Where(ln.gse_controls, LAMBDA g : ~g.gsse)
    [] class = "GsCB" -> Where(ln.gse_controls, LAMBDA g : g.gsse)
    [] class = "MSVCB" -> Where(ln.sv_controls, LAMBDA c : ~is_unicast(c))
    [] class = "USVCB" -> Where(ln.sv_controls, is_unicast)

\* A browse finds every object the device is configured with, under its own class and
\* no other, every data set that existed while it ran and none that never did, however
\* the data sets change between its pages, as long as none is deleted and defined again
\* (directory.rs browse and objects_of_class, services.rs get_name_list).
BrowseIsWhole ==
  call.op = "browsed" =>
    LET entries == browse(call.lists)
        sets == {e.ref : e \in {x \in entries : x.class = "DATA-SET"}}
        vars == call.lists["NamedVariable"]
    IN  /\ (call.moved \/ call.here \subseteq sets) /\ sets \subseteq call.ever
        /\ {e.ref : e \in {x \in entries : x.class = "LOG"}} = ToSet(journal_names(dev))
        /\ \A ln \in NamesOf(conf.nodes) :
             logical_node_directory(call.lists, ln, "DATA-SET") = {s[2] : s \in {x \in sets : x[1] = ln}}
        /\ logical_nodes(vars) = NamesOf(conf.nodes)
        /\ \A i \in DOMAIN conf.nodes : LET ln == conf.nodes[i] IN
             /\ \A class \in VarClass :
                  /\ logical_node_directory(call.lists, ln.name, class) = Configured(ln, class)
                  /\ \A e \in entries : e.ref[1] = ln.name /\ e.class = class
                                           => Last(e.ref) \in Configured(ln, class)
             /\ \A j \in DOMAIN ln.objects : LET o == ln.objects[j] IN
                  data_directory(vars, <<ln.name, o.name>>, "All") = NamesOf(o.attrs) \cup NamesOf(o.subs)

\* The names of a tree outside the elements of its arrays.
Outside(ld, names) ==
  {n \in names : \A k \in 3 .. Len(n) - 1 :
     LET ln == named(ld.nodes, n[1])[1]
         ts == type_spec_for(ln, SubSeq(n, 1, k))
     IN  ts = <<>> \/ ts[1].kind # "Array"}

\* The model a client rebuilds from the server's types has the names and the types the
\* server serves, except the objects whose type it could not get (retrieve.rs).
RetrievedIsServed ==
  call.op = "retrieved" =>
    LET mine == [name |-> conf.name, nodes |-> call.nodes]
        theirs == {n \in Outside(dev, ToSet(names_for_domain(dev))) :
                     Len(n) < 3 \/ SubSeq(n, 1, 3) \notin call.refused}
        names == ToSet(names_for_domain(mine))
        lost == {n \in theirs \ names : Len(n) = 2}
    IN  /\ names \subseteq theirs
        /\ \A n \in theirs \ names : n \in lost /\ \E key \in call.refused : SubSeq(key, 1, 2) = n
        /\ \A n \in names : Len(n) > 3 =>
             type_spec_for(named(call.nodes, n[1])[1], n)[1].kind = Typed(n)[1].kind

\* A data set is read with its members' values under their own names, although the
\* members and the values come in two requests between which data are written and data
\* sets deleted, unless the set itself was deleted and defined anew between the two
\* (dataset.rs read_data_set).
LabelledIsRead ==
  call.op = "read" /\ ~call.moved => call.values = call.truth

\* What a client finds out about a server and its objects is what the server holds.
DirectoryIsTrue ==
  ServedAsNamed /\ ReadsLastWritten /\ BrowseIsWhole /\ RetrievedIsServed /\ LabelledIsRead

\* The same of a data set redefined between the two requests, where it does not
\* hold: "the values are labelled with what they actually are".
LabelsAreTrue ==
  call.op = "read" => \A i \in DOMAIN call.values : i \in DOMAIN call.refs => call.values[i] = call.truth[i]
=============================================================================
