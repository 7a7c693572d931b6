------------------------------ MODULE Widgets ------------------------------
(***************************************************************************)
(* The scrolling list, the text field, the modal dialogs and the model     *)
(* tree of the interactive client (src/bin/iedx/widgets.rs, dialogs.rs,    *)
(* browse.rs), as functions from a widget and a key to the widget.         *)
(*                                                                         *)
(* Rows are counted from zero, as in the code; an optional value is the    *)
(* empty sequence or a sequence of one.  A key is the name of its key      *)
(* code.  Colours, borders, wording and layout are left out: what drawing  *)
(* keeps is the first row each list shows, since a click is resolved       *)
(* against it.                                                             *)
(***************************************************************************)
EXTENDS Integers, Sequences, SequencesExt, FiniteSets

CONSTANT Letter      \* the characters the user types

None == <<>>
Some(x) == <<x>>

(***************************************************************************)
(* ListBox.                                                                *)
(***************************************************************************)
ListBox == [cursor |-> 0, top |-> 0]

move_by(b, delta, count) ==
    LET next == b.cursor + delta IN
    [b EXCEPT !.cursor = IF count = 0 \/ next < 0 THEN 0
                         ELSE IF next > count - 1 THEN count - 1 ELSE next]

last_row(b, count) == [b EXCEPT !.cursor = IF count = 0 THEN 0 ELSE count - 1]

row_hit(b, row, count) == b.top + row < count

\* A view that starts at the cursor whenever the cursor is off the screen.
scroll_top_down(b, count, height) ==
    IF count = 0 THEN [b EXCEPT !.top = 0]
    ELSE [b EXCEPT !.top = IF b.cursor < @ \/ b.cursor > @ + height THEN b.cursor ELSE @]

scroll_into_view(b, count, height) ==
    IF count = 0 \/ height = 0 THEN [b EXCEPT !.top = 0]
    ELSE LET cur == Min({b.cursor, count - 1})
             top == IF cur < b.top THEN cur
                    ELSE IF cur >= b.top + height THEN cur + 1 - height ELSE b.top
         IN  [cursor |-> cur, top |-> Min({top, count - Min({height, count})})]

\* The item under the cursor.
at_cursor(list, b) == IF b.cursor < Len(list) THEN Some(list[b.cursor + 1]) ELSE None

\* The movement keys a list answers to.
list_key(b, k, count) ==
    CASE k \in {"Up", "k"}   -> move_by(b, -1, count)
      [] k \in {"Down", "j"} -> move_by(b, 1, count)
      [] k \in {"Home", "g"} -> [b EXCEPT !.cursor = 0]
      [] k \in {"End", "G"}  -> last_row(b, count)
      [] OTHER -> b

(***************************************************************************)
(* TextField: the caret stands between characters.                         *)
(***************************************************************************)
TextField(v) == [value |-> v, cursor |-> Len(v)]

field_key(f, k) ==
    LET n == Len(f.value) IN
    CASE k \in Letter -> [value  |-> InsertAt(f.value, f.cursor + 1, k),
                          cursor |-> f.cursor + 1]
      [] k = "Backspace" /\ f.cursor > 0 ->
            [value |-> RemoveAt(f.value, f.cursor), cursor |-> f.cursor - 1]
      [] k = "Delete" /\ f.cursor < n -> [f EXCEPT !.value = RemoveAt(@, f.cursor + 1)]
      [] k = "Left" /\ f.cursor > 0   -> [f EXCEPT !.cursor = @ - 1]
      [] k = "Right" /\ f.cursor < n  -> [f EXCEPT !.cursor = @ + 1]
      [] k = "Home" -> [f EXCEPT !.cursor = 0]
      [] k = "End"  -> [f EXCEPT !.cursor = n]
      [] OTHER -> f

(***************************************************************************)
(* Dialogs.                                                                *)
(***************************************************************************)
HelpDialog == [is |-> "help"]

\* The types whose text parses back to the value it was made from.
RoundTrips == {"Boolean", "Integer"}

WriteDialog(ref, kind, current) ==
    [is |-> "write", ref |-> ref, kind |-> kind,
     field |-> TextField(IF kind \in RoundTrips /\ current # None THEN current[1] ELSE <<>>)]

F_VALUE == 0
F_TEST == 1
F_INTERLOCK == 2
F_SYNCHRO == 3
F_ORIGINATOR == 4
F_OPERATE == 5
FIELD_COUNT == 6

ControlDialog(ref) ==
    [is |-> "control", ref |-> ref, on |-> TRUE, test |-> FALSE, interlock |-> FALSE,
     synchro |-> FALSE, originator |-> TextField(<<"iedx">>), focus |-> F_VALUE, confirm |-> FALSE]

\* Moves the focus through the n rows of a dialog or form.
refocus(focus, k, n) ==
    IF k \in {"Tab", "Down"} THEN (focus + 1) % n
    ELSE IF k \in {"BackTab", "Up"} THEN (focus + n - 1) % n ELSE focus

toggled(d) ==
    CASE d.focus = F_VALUE     -> [d EXCEPT !.on = ~@]
      [] d.focus = F_TEST      -> [d EXCEPT !.test = ~@]
      [] d.focus = F_INTERLOCK -> [d EXCEPT !.interlock = ~@]
      [] d.focus = F_SYNCHRO   -> [d EXCEPT !.synchro = ~@]
      [] OTHER -> d

\* The control dialog after a key that neither closes it nor operates.
control_key(d, k) ==
    IF d.confirm THEN [d EXCEPT !.confirm = FALSE]
    ELSE CASE k \in {"Tab", "Down", "BackTab", "Up"} ->
                  [d EXCEPT !.focus = refocus(@, k, FIELD_COUNT)]
           [] k = "Space" /\ d.focus # F_ORIGINATOR -> toggled(d)
           [] k = "Enter" -> [d EXCEPT !.confirm = (d.focus = F_OPERATE)]
           [] OTHER -> IF d.focus = F_ORIGINATOR
                       THEN [d EXCEPT !.originator = field_key(@, k)] ELSE d

\* A dialog that operates as soon as Enter is pressed on its button.
confirms_at_once(d, k) == d.focus = F_OPERATE /\ k \in {"y", "Enter"}

\* The keys that operate, and the keys that close the dialog without.
confirms(d, k) == d.confirm /\ k \in {"y", "Enter"}
abandons(d, k) == ~d.confirm /\ k = "Esc"

\* What parse_value makes of the text for an attribute of that type.
parse_value(kind, s) ==
    CASE kind = "Boolean" /\ s \in {<<"true">>, <<"1">>}  -> Some([kind |-> kind, is |-> TRUE])
      [] kind = "Boolean" /\ s \in {<<"false">>, <<"0">>} -> Some([kind |-> kind, is |-> FALSE])
      [] kind = "Integer" /\ s # <<>> /\ Range(s) \subseteq {"0", "1"} ->
            Some([kind |-> kind, is |-> s])
      [] kind = "VisibleString" -> Some([kind |-> kind, is |-> s])
      [] OTHER -> None

(***************************************************************************)
(* The connection form.                                                    *)
(***************************************************************************)
CF_ADDRESS == 0
CF_PASSWORD == 1
CF_TLS == 2
CF_FIELDS == 4

ConnectForm(addr, password, tls) ==
    [address |-> TextField(addr), password |-> TextField(password), tls |-> tls,
     focus |-> CF_ADDRESS]

form_submits(f, k) == k = "Enter" /\ f.focus # CF_TLS
form_key(f, k) ==
    CASE k \in {"Tab", "Down", "BackTab", "Up"} -> [f EXCEPT !.focus = refocus(@, k, CF_FIELDS)]
      [] k \in {"Enter", "Space"} /\ f.focus = CF_TLS -> [f EXCEPT !.tls = ~@]
      [] f.focus = CF_ADDRESS  -> [f EXCEPT !.address = field_key(@, k)]
      [] f.focus = CF_PASSWORD -> [f EXCEPT !.password = field_key(@, k)]
      [] OTHER -> f

\* The port the standard gives MMS is added to an address without one; an
\* address with several colons is a bare IPv6 address.
Port == <<":", "102">>
normalise_addr(s) ==
    IF s = <<>> THEN s
    ELSE IF s[1] = "[" THEN IF s[Len(s)] = "]" THEN s \o Port ELSE s
    ELSE LET colons == Cardinality({i \in DOMAIN s : s[i] = ":"}) IN
         CASE colons = 0 -> s \o Port
           [] colons = 1 -> s
           [] OTHER -> <<"[">> \o s \o <<"]">> \o Port

(***************************************************************************)
(* The model tree of the interactive client (src/bin/iedx/browse.rs): the  *)
(* arena the retrieved model is flattened into, and the rows the expansion *)
(* state and the filter leave visible.                                     *)
(*                                                                         *)
(* A node's number is its place in the arena; a background read names its  *)
(* node by that number alone.  A reference is the sequence of its path     *)
(* components.  A filter matches a node whose reference or label holds its *)
(* text: a node carries the set of characters it is written with, and a    *)
(* filter matches when all of its characters are among them.               *)
(***************************************************************************)

WritableFc == {"CF", "SP", "SE", "SV", "DC"}

Node == [ref |-> <<>>, depth |-> 0, chars |-> {}, kind |-> "-", readable |-> FALSE,
         writable |-> FALSE, controllable |-> FALSE, expanded |-> FALSE,
         children |-> <<>>, value |-> None]

RECURSIVE build_da(_, _, _, _)
build_da(nodes, ref, da, depth) ==
    LET leaf == da.children = <<>>
        n == [Node EXCEPT !.ref = ref, !.depth = depth, !.chars = da.chars, !.kind = da.kind,
                          !.readable = leaf, !.writable = leaf /\ da.fc \in WritableFc]
        Add(acc, c) == [nodes |-> build_da(acc.nodes, Append(ref, c.name), c, depth + 1),
                        ids   |-> Append(acc.ids, Len(acc.nodes) + 1)]
        out == FoldLeft(Add, [nodes |-> Append(nodes, n), ids |-> <<>>], da.children)
    IN  [out.nodes EXCEPT ![Len(nodes) + 1].children = out.ids]

RECURSIVE build_do(_, _, _, _)
build_do(nodes, ref, object, depth) ==
    LET n == [Node EXCEPT !.ref = ref, !.depth = depth, !.chars = object.chars,
                          !.controllable = \E a \in Range(object.attributes) : a.fc = "CO"]
        Attr(acc, a) == [nodes |-> build_da(acc.nodes, Append(ref, a.name), a, depth + 1),
                         ids   |-> Append(acc.ids, Len(acc.nodes) + 1)]
        Sub(acc, o)  == [nodes |-> build_do(acc.nodes, Append(ref, o.name), o, depth + 1),
                         ids   |-> Append(acc.ids, Len(acc.nodes) + 1)]
        out == FoldLeft(Sub, FoldLeft(Attr, [nodes |-> Append(nodes, n), ids |-> <<>>],
                                      object.attributes), object.objects)
    IN  [out.nodes EXCEPT ![Len(nodes) + 1].children = out.ids]

\* Logical devices start open; their nodes and below start closed.
build_tree(devices) ==
    LET Ln(ld, acc, ln) ==
            LET base == <<ld.name, ln.name>>
                Add(a, o) == [nodes |-> build_do(a.nodes, Append(base, o.name), o, 2),
                              ids   |-> Append(a.ids, Len(a.nodes) + 1)]
                id  == Len(acc.nodes) + 1
                out == FoldLeft(Add, [nodes |-> Append(acc.nodes, [Node EXCEPT !.depth = 1]),
                                      ids |-> <<>>], ln.objects)
            IN  [nodes |-> [out.nodes EXCEPT ![id].children = out.ids],
                 ids   |-> Append(acc.ids, id)]
        Ld(nodes, ld) ==
            LET top == [Node EXCEPT !.expanded = TRUE]
                out == FoldLeft(LAMBDA acc, ln : Ln(ld, acc, ln),
                                [nodes |-> Append(nodes, top), ids |-> <<>>], ld.nodes)
            IN  [out.nodes EXCEPT ![Len(nodes) + 1].children = out.ids]
    IN  FoldLeft(Ld, <<>>, devices)

RECURSIVE matches(_, _, _)
matches(nodes, filter, id) ==
    \/ Range(filter) \subseteq nodes[id].chars
    \/ \E c \in Range(nodes[id].children) : matches(nodes, filter, c)

\* A filter opens the tree: a match deep down is reached without expanding.
RECURSIVE walk(_, _, _)
walk(nodes, filter, ids) ==
    LET Visit(out, id) ==
            LET n    == nodes[id]
                here == IF filter = <<>> \/ matches(nodes, filter, id) THEN Append(out, id) ELSE out
            IN  IF n.expanded \/ (filter # <<>> /\ n.children # <<>>)
                THEN here \o walk(nodes, filter, n.children) ELSE here
    IN  FoldLeft(Visit, <<>>, ids)

roots(nodes) == SelectSeq([i \in DOMAIN nodes |-> i], LAMBDA i : nodes[i].depth = 0)

rebuild(b) ==
    LET visible == walk(b.nodes, b.filter, roots(b.nodes))
        last    == IF visible = <<>> THEN 0 ELSE Len(visible) - 1
    IN  [b EXCEPT !.visible = visible, !.cursor = Min({@, last})]

\* The panel with a freshly retrieved model.
set_model(b, nodes) == rebuild([b EXCEPT !.nodes = nodes, !.cursor = 0, !.top = 0])

\* A value lands on the node it names, if the arena has it.
set_value(b, node, v) ==
    IF node \in DOMAIN b.nodes THEN [b EXCEPT !.nodes[node].value = Some(v)] ELSE b

BrowsePanel == [nodes |-> <<>>, visible |-> <<>>, cursor |-> 0, top |-> 0,
                filtering |-> FALSE, filter |-> <<>>, auto |-> FALSE, auto_gen |-> 0]

current(b) == IF b.cursor < Len(b.visible) THEN Some(b.visible[b.cursor + 1]) ELSE None

draw_tree(b, height) ==
    LET n   == Len(b.visible)
        top == IF b.cursor < b.top THEN b.cursor
               ELSE IF b.cursor >= b.top + height THEN b.cursor + 1 - height ELSE b.top
    IN  [b EXCEPT !.top = Min({top, n - Min({height, n})})]
=============================================================================
