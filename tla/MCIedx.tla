------------------------------- MODULE MCIedx -------------------------------
(***************************************************************************)
(* Instances of Iedx: two devices, and one scenario for each tab, for the  *)
(* connection form and for the dialogs, with the keys that tab answers to. *)
(***************************************************************************)
EXTENDS Iedx

A == <<"a", ":", "102">>
B == <<"b", ":", "102">>

Leaf(n, fc, kind, chars) ==
    [name |-> n, fc |-> fc, kind |-> kind, chars |-> chars, children |-> <<>>]

\* SPCSO1: an object with control and configuration attributes, and one with
\* a structured attribute.
Obj1 == [name |-> "SPCSO1", chars |-> {"s"}, objects |-> <<>>,
         attributes |-> <<Leaf("stVal", "ST", "Boolean", {"s"}), Leaf("Oper", "CO", "-", {"o"}),
                          Leaf("ctlModel", "CF", "Integer", {"c", "s"})>>]
Obj2 == [name |-> "A", chars |-> {"o"}, attributes |-> <<>>,
         objects |-> <<[name |-> "phsA", chars |-> {}, objects |-> <<>>,
                        attributes |-> <<[name |-> "cVal", fc |-> "MX", kind |-> "-",
                                          chars |-> {}, children |->
                                          <<Leaf("mag", "MX", "Float32", {"s"})>>]>>]>>]

Device(objects, rcbs) ==
    [model |-> <<[name |-> "LD0", nodes |-> <<[name |-> "GGIO1", objects |-> objects]>>]>>,
     refs  |-> [Reports |-> rcbs, Datasets |-> <<"ds1", "ds2", "ds3">>,
                Controls |-> <<"SPCSO1", "SPCSO2">>, SettingGroups |-> <<"sg1", "sg2">>,
                Logs |-> <<"log1", "log2">>],
     files |-> (<<>> :> <<[name |-> <<"d">>, dir |-> TRUE], [name |-> <<"f">>, dir |-> FALSE]>>)
            @@ (<<"d">> :> <<[name |-> <<"d", "f">>, dir |-> FALSE]>>),
     log   |-> [r \in {"log1", "log2"} |-> <<[id |-> 1, age |-> 90000], [id |-> 2, age |-> 5000],
                                             [id |-> 3, age |-> 10]>>],
     groups |-> 2]

MCDev == {A, B}
MCContent == (A :> Device(<<Obj1, Obj2>>, <<"r1", "r2">>)) @@ (B :> Device(<<Obj2>>, <<"r1">>))

Play(tab, address, keys, mouse, presses) ==
    [tab |-> tab, start |-> address, keys |-> keys, mouse |-> mouse, presses |-> presses]
Clicks == {[is |-> "click", row |-> r, left |-> l] : r \in 0..2, l \in BOOLEAN}
Wheels == {[is |-> "wheel", k |-> k] : k \in {"Up", "Down"}}

MCScenario == {
    Play(0, <<>>, {"a", "b", "Enter", "Backspace", "Tab", "Space", "Esc"}, {}, 5),
    Play(0, A, {"Enter", "Left", "Delete", "Home", "b", "R"}, {[is |-> "tab", i |-> 1]}, 4),
    Play(1, A, {"j", "k", "Enter", "Left", "r", "a", "/", "s", "q", "Backspace"}, {}, 5),
    Play(1, A, {"/", "c", "Enter", "G", "w", "1", "a"}, {[is |-> "click", row |-> 1, left |-> TRUE]}, 7),
    Play(2, A, {"Down", "e", "x", "g", "c"}, {[is |-> "click", row |-> 1, left |-> TRUE]}, 4),
    Play(3, A, {"End", "Home", "r", "?", "]", "["}, Clicks \union Wheels, 3),
    Play(4, A, {"Enter", "y", "Up", "Space", "Esc", "Ctrl-C"}, {[is |-> "click", row |-> 1, left |-> FALSE]}, 7),
    Play(5, A, {"j", "G", "1", "2", "3", "R"}, Wheels, 4),
    Play(6, A, {"j", "Enter", "d", "Backspace"}, {[is |-> "tab", i |-> 6]}, 4),
    Play(7, A, {"j", "r", "a", "+", "-", "PageDown", "PageUp", "End"}, Clicks \union Wheels, 3) }
=============================================================================
