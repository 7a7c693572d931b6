------------------------------- MODULE Iedx -------------------------------
(***************************************************************************)
(* The interactive client (src/bin/iedx): an event loop that draws, then   *)
(* handles either the queued messages of its background tasks or one key   *)
(* or mouse event, and the tasks, which talk to a device and post their    *)
(* results to the loop without saying which request they answer.           *)
(*                                                                         *)
(* Handlers are functions from the state of the user interface to the next *)
(* one, as methods of App and of the panels are in the code; `out' holds   *)
(* the tasks a handler spawned.  Devices are what the tasks change and     *)
(* read.  Status texts are wording and are left out, with the messages     *)
(* that only carry one.                                                    *)
(***************************************************************************)
EXTENDS Widgets

CONSTANTS
    Dev,          \* the addresses at which a device answers
    Content,      \* what each device holds: its model, blocks, files and logs
    Height,       \* rows a list can show
    FeedLimit,    \* FEED_LIMIT of reports.rs
    Scenario,     \* how a session starts, and the events its user produces
    MaxPending    \* messages a ticker or a report may leave in the queue

VARIABLES
    ui,           \* App with its panels
    plan,         \* the scenario, with the events the user may still produce
    tasks,        \* the background tasks, in the order they were spawned
    msgs,         \* the channel the tasks post to
    field,        \* what the devices were told, and what was saved
    confirmed     \* the operate prompts on screen when a confirming key came

iedxVars == <<ui, plan, tasks, msgs, field, confirmed>>

Tabs == <<"Browse", "Reports", "Datasets", "Controls", "SettingGroups", "Files", "Logs">>

MIN_WINDOW == 3600
MAX_WINDOW == 2592000
DEFAULT_WINDOW == 86400

\* A log query reaches back over the panel's window.
clamp_window(w) == IF w < MIN_WINDOW THEN MIN_WINDOW ELSE IF w > MAX_WINDOW THEN MAX_WINDOW ELSE w

ReportsPanel == [list |-> ListBox, refs |-> <<>>, feed |-> <<>>, enabled |-> None, sub |-> None]
DatasetsPanel == [list |-> ListBox, refs |-> <<>>, current |-> None]
ControlsPanel == [list |-> ListBox, refs |-> <<>>]
SettingsPanel == [list |-> ListBox, refs |-> <<>>, current |-> None]
FilesPanel == [list |-> ListBox, refs |-> <<>>, path |-> <<>>]
LogsPanel == [list |-> ListBox, refs |-> <<>>, view |-> ListBox, entries |-> <<>>,
              window |-> DEFAULT_WINDOW]

App(addr, tls) ==
    [addr |-> addr, password |-> <<>>, tls |-> tls, client |-> None, connected |-> FALSE,
     loaded |-> {}, active |-> 1, dialog |-> None, form |-> None, quit |-> FALSE,
     browse |-> BrowsePanel,
     reports |-> ReportsPanel, datasets |-> DatasetsPanel, controls |-> ControlsPanel,
     settings |-> SettingsPanel, files |-> FilesPanel, logs |-> LogsPanel,
     handlers |-> <<>>, out |-> <<>>]

Tab(s) == Tabs[s.active]

\* The arena each device's model is flattened into.
Tree == [d \in Dev |-> build_tree(Content[d].model)]

\* A task needs the client; without one the request ends in a status text.
spawn(s, t) ==
    IF s.client = None THEN s
    ELSE [s EXCEPT !.out = Append(@, [dev |-> s.client[1], step |-> 1] @@ t)]

connect(s) ==
    [s EXCEPT !.out = Append(@, [is |-> "connect", addr |-> s.addr, tls |-> s.tls])]

start(s) ==
    IF s.addr = <<>> THEN [s EXCEPT !.form = Some(ConnectForm(s.addr, s.password, s.tls))]
    ELSE connect(s)

(***************************************************************************)
(* Loading a tab.  The Files tab starts again at the root.                 *)
(***************************************************************************)
fetch(s, path) ==
    spawn([s EXCEPT !.files.path = path, !.files.list = ListBox], [is |-> "files", path |-> path])

browse_load(s) == spawn(s, [is |-> "model"])
reports_load(s) == spawn(s, [is |-> "list", tab |-> "Reports"])
datasets_load(s) == spawn(s, [is |-> "list", tab |-> "Datasets"])
controls_load(s) == spawn(s, [is |-> "list", tab |-> "Controls"])
settings_load(s) == spawn(s, [is |-> "list", tab |-> "SettingGroups"])
files_load(s) == fetch(s, <<>>)
logs_load(s) == spawn(s, [is |-> "list", tab |-> "Logs"])

reload_active(s) ==
    CASE Tab(s) = "Browse"        -> browse_load(s)
      [] Tab(s) = "Reports"       -> reports_load(s)
      [] Tab(s) = "Datasets"      -> datasets_load(s)
      [] Tab(s) = "Controls"      -> controls_load(s)
      [] Tab(s) = "SettingGroups" -> settings_load(s)
      [] Tab(s) = "Files"         -> files_load(s)
      [] Tab(s) = "Logs"          -> logs_load(s)

load_active(s) ==
    IF s.active \in s.loaded THEN s ELSE reload_active([s EXCEPT !.loaded = @ \union {s.active}])

goto_tab(s, i) == load_active([s EXCEPT !.active = i])

(***************************************************************************)
(* What the panels ask for.                                                *)
(***************************************************************************)
read(s, id) == spawn(s, [is |-> "read", node |-> id, ref |-> s.browse.nodes[id].ref])

activate(s) ==
    LET b == s.browse
        at == current(b)
    IN  IF at = None THEN s
        ELSE IF b.nodes[at[1]].children # <<>>
             THEN [s EXCEPT !.browse = rebuild([b EXCEPT !.nodes[at[1]].expanded = ~@])]
             ELSE IF b.nodes[at[1]].readable THEN read(s, at[1]) ELSE s

\* A ticker keeps the node and the reference it was started on.
spawn_ticker(s) ==
    LET at == current(s.browse) IN
    IF at = None \/ ~s.browse.nodes[at[1]].readable THEN s
    ELSE spawn(s, [is |-> "ticker", node |-> at[1], ref |-> s.browse.nodes[at[1]].ref,
                   gen |-> s.browse.auto_gen])

browse_key(s, k) ==
    LET b == s.browse
        at == current(b)
        node == b.nodes[at[1]]
    IN  IF b.filtering
        THEN CASE k \in {"Enter", "Esc"} -> [s EXCEPT !.browse.filtering = FALSE]
               [] k = "Backspace" -> [s EXCEPT !.browse = rebuild([b EXCEPT !.filter =
                                          IF @ = <<>> THEN @ ELSE Front(@)])]
               [] k \in Letter -> [s EXCEPT !.browse = rebuild([b EXCEPT !.filter = Append(@, k)])]
               [] OTHER -> s
        ELSE CASE k \in {"Up", "k", "Down", "j", "Home", "g", "End", "G"} ->
                      [s EXCEPT !.browse.cursor =
                          list_key([cursor |-> @, top |-> b.top], k, Len(b.visible)).cursor]
               [] k \in {"Enter", "Space", "Right", "l"} -> activate(s)
               [] k \in {"Left", "h"} /\ at # None /\ node.expanded ->
                      [s EXCEPT !.browse = rebuild([b EXCEPT !.nodes[at[1]].expanded = FALSE])]
               [] k = "r" /\ at # None /\ node.readable -> read(s, at[1])
               [] k = "w" /\ at # None /\ node.writable ->
                      [s EXCEPT !.dialog = Some(WriteDialog(node.ref, node.kind,
                          IF node.value # None /\ ~node.value[1].err
                          THEN Some(node.value[1].text) ELSE None))]
               [] k = "o" /\ at # None /\ node.controllable ->
                      [s EXCEPT !.dialog = Some(ControlDialog(node.ref))]
               [] k = "a" ->
                      LET t == [s EXCEPT !.browse.auto = ~@, !.browse.auto_gen = @ + 1]
                      IN  IF t.browse.auto THEN spawn_ticker(t) ELSE t
               [] k = "/" -> [s EXCEPT !.browse.filtering = TRUE]
               [] OTHER -> s

enable(s) ==
    LET at == at_cursor(s.reports.refs, s.reports.list) IN
    IF at = None THEN s ELSE spawn(s, [is |-> "enable", ref |-> at[1]])

\* Both are taken; the task that writes RptEna owns the subscription then.
disable(s) ==
    IF s.reports.enabled = None THEN s
    ELSE LET t == [s EXCEPT !.reports.enabled = None, !.reports.sub = None]
         IN  IF s.reports.sub = None THEN t
             ELSE [t EXCEPT !.out = Append(@, [is |-> "disable", step |-> 1,
                                               sub |-> s.reports.sub[1],
                                               dev |-> s.handlers[s.reports.sub[1]].dev,
                                               ref |-> s.handlers[s.reports.sub[1]].ref])]

reports_key(s, k) ==
    CASE k \in {"Up", "k", "Down", "j"} ->
             [s EXCEPT !.reports.list = list_key(@, k, Len(s.reports.refs))]
      [] k \in {"e", "Enter"} -> enable(s)
      [] k = "g" /\ s.reports.enabled # None ->
             spawn(s, [is |-> "gi", ref |-> s.reports.enabled[1]])
      [] k = "x" -> disable(s)
      [] k = "c" -> [s EXCEPT !.reports.feed = <<>>]
      [] OTHER -> s

\* The last Arc of a subscription unregisters its handler when it goes.
dropped(s, sub) ==
    IF sub = None THEN s
    ELSE [s EXCEPT !.handlers = [h \in DOMAIN @ \ {sub[1]} |-> @[h]]]

on_enabled(s, ref, sub) ==
    [dropped(s, s.reports.sub) EXCEPT !.reports.enabled = Some(ref), !.reports.sub = Some(sub),
                                      !.reports.feed = Append(@, ref)]

push_line(s, ref) ==
    [s EXCEPT !.reports.feed =
        LET f == Append(@, ref) IN SubSeq(f, 1 + (IF Len(f) > FeedLimit THEN Len(f) - FeedLimit ELSE 0), Len(f))]

datasets_read(s) ==
    LET at == at_cursor(s.datasets.refs, s.datasets.list) IN
    IF at = None THEN s ELSE spawn(s, [is |-> "dataset", ref |-> at[1]])

datasets_key(s, k) ==
    IF k \in {"Enter", "r"} THEN datasets_read(s)
    ELSE [s EXCEPT !.datasets.list = list_key(@, k, Len(s.datasets.refs))]

controls_open(s) ==
    LET at == at_cursor(s.controls.refs, s.controls.list) IN
    IF at = None THEN s ELSE [s EXCEPT !.dialog = Some(ControlDialog(at[1]))]

controls_key(s, k) ==
    IF k \in {"Enter", "o"} THEN controls_open(s)
    ELSE [s EXCEPT !.controls.list = list_key(@, k, Len(s.controls.refs))]

read_selected(s) ==
    LET at == at_cursor(s.settings.refs, s.settings.list) IN
    IF at = None THEN s ELSE spawn(s, [is |-> "sg", ref |-> at[1]])

takes_digits(s) == s.settings.current # None

Digit == [d \in {"1", "2", "3"} |-> CASE d = "1" -> 1 [] d = "2" -> 2 [] d = "3" -> 3]

\* The group goes to the block the detail pane shows.
settings_key(s, k) ==
    IF k \in DOMAIN Digit
    THEN IF s.settings.current = None \/ Digit[k] > s.settings.current[1].num THEN s
         ELSE spawn(s, [is |-> "activate", ref |-> s.settings.current[1].ref, group |-> Digit[k]])
    ELSE IF k \in {"Up", "k", "Down", "j", "Home", "g", "End", "G"}
         THEN read_selected([s EXCEPT !.settings.list = list_key(@, k, Len(s.settings.refs))])
         ELSE s

download(s) ==
    LET at == at_cursor(s.files.refs, s.files.list) IN
    IF at = None \/ at[1].dir THEN s ELSE spawn(s, [is |-> "download", name |-> at[1].name])

files_key(s, k) ==
    LET at == at_cursor(s.files.refs, s.files.list) IN
    CASE k = "Enter" /\ at # None /\ at[1].dir -> fetch(s, at[1].name)
      [] k \in {"Enter", "d"} -> download(s)
      [] k \in {"Backspace", "Left"} ->
             IF s.files.path = <<>> THEN s ELSE fetch(s, Front(s.files.path))
      [] OTHER -> [s EXCEPT !.files.list = list_key(@, k, Len(s.files.refs))]

query(s) ==
    LET at == at_cursor(s.logs.refs, s.logs.list) IN
    IF at = None THEN s
    ELSE spawn([s EXCEPT !.logs.view = ListBox],
               [is |-> "query", ref |-> at[1], window |-> s.logs.window])

query_after(s) ==
    LET at == at_cursor(s.logs.refs, s.logs.list) IN
    IF at = None THEN s
    ELSE IF s.logs.entries = <<>> THEN query(s)
         ELSE spawn(s, [is |-> "after", ref |-> at[1], entry |-> Last(s.logs.entries)])

logs_key(s, k) ==
    LET n == Len(s.logs.entries) IN
    CASE k \in {"Up", "k", "Down", "j"} ->
             [s EXCEPT !.logs.list = list_key(@, k, Len(s.logs.refs))]
      [] k \in {"Home", "g", "End", "G"} -> [s EXCEPT !.logs.view = list_key(@, k, n)]
      [] k = "PageUp"   -> [s EXCEPT !.logs.view = move_by(@, -10, n)]
      [] k = "PageDown" -> [s EXCEPT !.logs.view = move_by(@, 10, n)]
      [] k \in {"Enter", "r"} -> query(s)
      [] k = "a" -> query_after(s)
      [] k \in {"+", "="} -> [s EXCEPT !.logs.window = clamp_window(@ * 2)]
      [] k = "-" -> [s EXCEPT !.logs.window = clamp_window(@ \div 2)]
      [] OTHER -> s

panel_key(s, k) ==
    CASE Tab(s) = "Browse"        -> browse_key(s, k)
      [] Tab(s) = "Reports"       -> reports_key(s, k)
      [] Tab(s) = "Datasets"      -> datasets_key(s, k)
      [] Tab(s) = "Controls"      -> controls_key(s, k)
      [] Tab(s) = "SettingGroups" -> settings_key(s, k)
      [] Tab(s) = "Files"         -> files_key(s, k)
      [] Tab(s) = "Logs"          -> logs_key(s, k)

(***************************************************************************)
(* Keys and clicks.                                                        *)
(***************************************************************************)
\* A dialog takes every key until it is done.
dialog_key(s, k) ==
    LET d == s.dialog[1]
        done == [s EXCEPT !.dialog = None]
    IN  CASE d.is = "help" -> done
          [] d.is = "write" ->
                 IF k = "Esc" THEN done
                 ELSE IF k # "Enter" THEN [s EXCEPT !.dialog[1].field = field_key(@, k)]
                 ELSE LET v == parse_value(d.kind, d.field.value) IN
                      IF v = None THEN s
                      ELSE spawn(done, [is |-> "write", ref |-> d.ref, value |-> v[1]])
          [] d.is = "control" ->
                 IF confirms(d, k)
                 THEN spawn(done, [is |-> "operate", ref |-> d.ref, on |-> d.on, test |-> d.test,
                                   interlock |-> d.interlock, synchro |-> d.synchro,
                                   originator |-> d.originator.value])
                 ELSE IF abandons(d, k) THEN done
                 ELSE [s EXCEPT !.dialog = Some(control_key(d, k))]

\* The form stays up while a connection is being tried.
form_event(s, k) ==
    LET f == s.form[1] IN
    IF k = "Esc" THEN [s EXCEPT !.quit = TRUE, !.form = None]
    ELSE IF form_submits(f, k)
         THEN LET t == [s EXCEPT !.addr = normalise_addr(f.address.value),
                                 !.password = f.password.value, !.tls = f.tls]
              IN  IF t.addr = <<>> THEN t ELSE connect(t)
         ELSE [s EXCEPT !.form = Some(form_key(f, k))]

TabKey == [k \in {"1", "2", "3", "4", "5", "6", "7"} |->
              CHOOSE i \in 1..7 : <<"1", "2", "3", "4", "5", "6", "7">>[i] = k]

on_key(s, k) ==
    CASE k = "Ctrl-C" -> [s EXCEPT !.quit = TRUE]
      [] k # "Ctrl-C" /\ s.dialog # None -> dialog_key(s, k)
      [] k # "Ctrl-C" /\ s.dialog = None /\ ~s.connected ->
             IF s.form = None THEN s ELSE form_event(s, k)
      [] OTHER ->
         IF Tab(s) = "Browse" /\ s.browse.filtering THEN panel_key(s, k)
         ELSE CASE k = "q" -> [s EXCEPT !.quit = TRUE]
                [] k \in {"Tab", "]"}     -> goto_tab(s, 1 + (s.active % 7))
                [] k \in {"BackTab", "["} -> goto_tab(s, 1 + ((s.active + 5) % 7))
                [] k \in DOMAIN TabKey /\ ~(Tab(s) = "SettingGroups" /\ takes_digits(s)) ->
                       goto_tab(s, TabKey[k])
                [] k = "R" -> reload_active(s)
                [] k = "?" -> [s EXCEPT !.dialog = Some(HelpDialog)]
                [] OTHER -> panel_key(s, k)

\* A click on a row of a list acts on the item the row shows.
browse_click(s, row, left) ==
    LET b == s.browse IN
    IF left /\ row_hit(b, row, Len(b.visible))
    THEN activate([s EXCEPT !.browse.cursor = b.top + row]) ELSE s

reports_click(s, row, left) ==
    LET b == s.reports.list IN
    IF left /\ row_hit(b, row, Len(s.reports.refs))
    THEN enable([s EXCEPT !.reports.list.cursor = b.top + row]) ELSE s

datasets_click(s, row, left) ==
    LET b == s.datasets.list IN
    IF left /\ row_hit(b, row, Len(s.datasets.refs))
    THEN datasets_read([s EXCEPT !.datasets.list.cursor = b.top + row]) ELSE s

controls_click(s, row) ==
    LET b == s.controls.list IN
    IF row_hit(b, row, Len(s.controls.refs))
    THEN controls_open([s EXCEPT !.controls.list.cursor = b.top + row]) ELSE s

settings_click(s, row, left) ==
    LET b == s.settings.list IN
    IF left /\ row_hit(b, row, Len(s.settings.refs))
    THEN read_selected([s EXCEPT !.settings.list.cursor = b.top + row]) ELSE s

files_click(s, row) ==
    LET b == s.files.list IN
    IF row_hit(b, row, Len(s.files.refs)) THEN [s EXCEPT !.files.list.cursor = b.top + row] ELSE s

logs_click(s, row, left) ==
    LET b == s.logs.list
        v == s.logs.view
    IN  CASE left /\ row_hit(b, row, Len(s.logs.refs)) ->
                 query([s EXCEPT !.logs.list.cursor = b.top + row])
          [] ~left /\ row_hit(v, row, Len(s.logs.entries)) ->
                 [s EXCEPT !.logs.view.cursor = v.top + row]
          [] OTHER -> s

on_click(s, row, left) ==
    CASE Tab(s) = "Browse"        -> browse_click(s, row, left)
      [] Tab(s) = "Reports"       -> reports_click(s, row, left)
      [] Tab(s) = "Datasets"      -> datasets_click(s, row, left)
      [] Tab(s) = "Controls"      -> controls_click(s, row)
      [] Tab(s) = "SettingGroups" -> settings_click(s, row, left)
      [] Tab(s) = "Files"         -> files_click(s, row)
      [] Tab(s) = "Logs"          -> logs_click(s, row, left)

\* The wheel moves as the arrow keys do, the Logs tab's over its entries.
browse_scroll(s, k) ==
    [s EXCEPT !.browse.cursor = list_key([cursor |-> @, top |-> 0], k, Len(s.browse.visible)).cursor]
logs_scroll(s, k) == [s EXCEPT !.logs.view = list_key(@, k, Len(s.logs.entries))]
wheel(s, k) ==
    CASE Tab(s) = "Logs"   -> logs_scroll(s, k)
      [] Tab(s) = "Browse" -> browse_scroll(s, k)
      [] OTHER -> panel_key(s, k)

\* Under a dialog a click can only close the help.
on_mouse(s, e) ==
    IF s.dialog # None
    THEN IF e.is # "wheel" /\ s.dialog[1].is = "help" THEN [s EXCEPT !.dialog = None] ELSE s
    ELSE IF ~s.connected THEN s
    ELSE CASE e.is = "wheel" -> wheel(s, e.k)
           [] e.is = "tab"   -> goto_tab(s, e.i)
           [] e.is = "click" -> on_click(s, e.row, e.left)

(***************************************************************************)
(* Messages.                                                               *)
(***************************************************************************)
on_msg(s, m) ==
    CASE m.is = "Connected" ->
             load_active([s EXCEPT !.client = Some(m.dev), !.connected = TRUE, !.form = None])
      [] m.is = "ConnectFailed" ->
             IF s.form = None
             THEN [s EXCEPT !.form = Some(ConnectForm(s.addr, s.password, s.tls))] ELSE s
      [] m.is = "ModelLoaded"   -> [s EXCEPT !.browse = set_model(@, m.nodes)]
      [] m.is = "Value"         -> [s EXCEPT !.browse = set_value(@, m.node, m.value)]
      [] m.is = "ReportEnabled" -> on_enabled(s, m.ref, m.sub)
      [] m.is = "ReportLine"    -> push_line(s, m.ref)
      [] m.is = "DatasetRead"   -> [s EXCEPT !.datasets.current = Some(m.ref)]
      [] m.is = "SgLoaded"      -> [s EXCEPT !.settings.current = Some(m.info)]
      [] m.is = "FilesLoaded"   -> [s EXCEPT !.files.refs = m.files]
      [] m.is = "LogQueried"    -> [s EXCEPT !.logs.entries = m.entries]
      [] m.is = "Loaded" ->
             CASE m.tab = "Reports"  -> [s EXCEPT !.reports.refs = m.refs]
               [] m.tab = "Datasets" -> [s EXCEPT !.datasets.refs = m.refs]
               [] m.tab = "Controls" -> [s EXCEPT !.controls.refs = m.refs]
               [] m.tab = "Logs"     -> [s EXCEPT !.logs.refs = m.refs]
               [] m.tab = "SettingGroups" -> read_selected([s EXCEPT !.settings.refs = m.refs])

\* Drawing the active tab brings its cursor into view.
shown(b, list) == scroll_into_view(b, Len(list), Height)
browse_draw(s) == [s EXCEPT !.browse = draw_tree(@, Height)]
reports_draw(s) == [s EXCEPT !.reports.list = shown(@, s.reports.refs)]
datasets_draw(s) == [s EXCEPT !.datasets.list = shown(@, s.datasets.refs)]
controls_draw(s) == [s EXCEPT !.controls.list = shown(@, s.controls.refs)]
settings_draw(s) == [s EXCEPT !.settings.list = shown(@, s.settings.refs)]
files_draw(s) == [s EXCEPT !.files.list = shown(@, s.files.refs)]
logs_draw(s) == [s EXCEPT !.logs.list = shown(@, s.logs.refs), !.logs.view = shown(@, s.logs.entries)]

draw(s) ==
    CASE ~s.connected -> s
      [] s.connected /\ Tab(s) = "Browse"        -> browse_draw(s)
      [] s.connected /\ Tab(s) = "Reports"       -> reports_draw(s)
      [] s.connected /\ Tab(s) = "Datasets"      -> datasets_draw(s)
      [] s.connected /\ Tab(s) = "Controls"      -> controls_draw(s)
      [] s.connected /\ Tab(s) = "SettingGroups" -> settings_draw(s)
      [] s.connected /\ Tab(s) = "Files"         -> files_draw(s)
      [] s.connected /\ Tab(s) = "Logs"          -> logs_draw(s)

(***************************************************************************)
(* The loop: draw, then the queued messages or one event.                  *)
(***************************************************************************)
loop(s) ==
    /\ ui' = draw([s EXCEPT !.out = <<>>])
    /\ tasks' = tasks \o s.out

Messages ==
    /\ ~ui.quit /\ msgs # <<>>
    /\ loop(FoldLeft(on_msg, ui, msgs))
    /\ msgs' = <<>>
    /\ UNCHANGED <<plan, field, confirmed>>

\* The operate prompt on screen, if there is one.
prompt ==
    IF ui.dialog # None /\ ui.dialog[1].is = "control" /\ ui.dialog[1].confirm
    THEN Some([ref |-> ui.dialog[1].ref, on |-> ui.dialog[1].on, test |-> ui.dialog[1].test,
               interlock |-> ui.dialog[1].interlock, synchro |-> ui.dialog[1].synchro])
    ELSE None

Key(k) ==
    /\ ~ui.quit /\ plan.presses > 0
    /\ plan' = [plan EXCEPT !.presses = @ - 1]
    /\ loop(on_key(ui, k))
    /\ confirmed' = IF k \in {"y", "Enter"} THEN confirmed \o prompt ELSE confirmed
    /\ UNCHANGED <<msgs, field>>

Mouse(e) ==
    /\ ~ui.quit /\ plan.presses > 0
    /\ plan' = [plan EXCEPT !.presses = @ - 1]
    /\ loop(on_mouse(ui, e))
    /\ UNCHANGED <<msgs, field, confirmed>>

(***************************************************************************)
(* The background tasks, each until its next await.                        *)
(***************************************************************************)
ended(t) == RemoveAt(tasks, t)
stepped(t) == [tasks EXCEPT ![t].step = @ + 1]
post(m) == msgs' = Append(msgs, m)

running(t, is) == ~ui.quit /\ t \in DOMAIN tasks /\ tasks[t].is = is

\* A request failed: the task ends in a status text.
Fails(t) ==
    /\ ~ui.quit /\ t \in DOMAIN tasks /\ tasks[t].is \notin {"connect", "read", "ticker"}
    /\ tasks[t].is = "disable" => tasks[t].step = 2
    /\ tasks' = ended(t)
    /\ UNCHANGED <<ui, plan, msgs, field, confirmed>>

Connect(t) ==
    /\ running(t, "connect")
    /\ \/ tasks[t].addr \in Dev /\ ~tasks[t].tls /\ post([is |-> "Connected", dev |-> tasks[t].addr])
       \/ post([is |-> "ConnectFailed"])
    /\ tasks' = ended(t)
    /\ UNCHANGED <<ui, plan, field, confirmed>>

\* A read is answered with a value or with an error text, on the node it
\* was asked for.  `of' is the reference that was read.
value(t, err) == [is |-> "Value", node |-> tasks[t].node,
                  value |-> [err |-> err, text |-> <<"1">>, of |-> <<tasks[t].dev, tasks[t].ref>>]]

Read(t) ==
    /\ running(t, "read")
    /\ \E err \in BOOLEAN : post(value(t, err))
    /\ tasks' = ended(t)
    /\ UNCHANGED <<ui, plan, field, confirmed>>

Ticker(t) ==
    /\ running(t, "ticker")
    /\ Len(msgs) < MaxPending
    /\ \E err \in BOOLEAN : post(value(t, err))
    /\ UNCHANGED <<ui, plan, tasks, field, confirmed>>

\* Requests whose answer is one message.
answer(t) ==
    LET k == tasks[t]
        c == Content[k.dev]
    IN  CASE k.is = "model"   -> [is |-> "ModelLoaded", nodes |-> Tree[k.dev]]
          [] k.is = "list"    -> [is |-> "Loaded", tab |-> k.tab, refs |-> c.refs[k.tab]]
          [] k.is = "files"   -> [is |-> "FilesLoaded", files |-> c.files[k.path]]
          [] k.is = "dataset" -> [is |-> "DatasetRead", ref |-> k.ref]
          [] k.is = "sg"      -> [is |-> "SgLoaded", info |-> [ref |-> k.ref, num |-> c.groups,
                                                               act |-> field.act[k.dev][k.ref]]]
          [] k.is = "query"   -> [is |-> "LogQueried", entries |->
                 SelectSeq(c.log[k.ref], LAMBDA e : e.age <= k.window)]
          [] k.is = "after"   -> [is |-> "LogQueried", entries |->
                 SelectSeq(c.log[k.ref], LAMBDA e : \/ e.age < k.entry.age
                                                    \/ e.age = k.entry.age /\ e.id > k.entry.id)]

Fetch(t) ==
    /\ ~ui.quit /\ t \in DOMAIN tasks
    /\ tasks[t].is \in {"model", "list", "files", "dataset", "sg", "query", "after"}
    /\ post(answer(t))
    /\ tasks' = ended(t)
    /\ UNCHANGED <<ui, plan, field, confirmed>>

\* get_rcb, then enable_reporting, whose writes a block already enabled
\* refuses; then a general interrogation.
Enable(t) ==
    LET k == tasks[t]
        block == <<k.dev, k.ref>>
        h == CHOOSE n \in 1..(Cardinality(DOMAIN ui.handlers) + 1) : n \notin DOMAIN ui.handlers
    IN  /\ running(t, "enable")
        /\ \/ /\ k.step = 1
              /\ tasks' = stepped(t)
              /\ UNCHANGED <<ui, msgs, field>>
           \/ /\ k.step = 2 /\ block \notin field.rpt
              /\ field' = [field EXCEPT !.rpt = @ \union {block}]
              /\ ui' = [ui EXCEPT !.handlers = (h :> [dev |-> k.dev, ref |-> k.ref]) @@ @]
              /\ post([is |-> "ReportEnabled", ref |-> k.ref, sub |-> h])
              /\ tasks' = stepped(t)
           \/ /\ k.step = 2 /\ block \in field.rpt
              /\ tasks' = ended(t)
              /\ UNCHANGED <<ui, msgs, field>>
           \/ /\ k.step = 3
              /\ tasks' = [tasks EXCEPT ![t] = [is |-> "gi", dev |-> k.dev, ref |-> k.ref, step |-> 1]]
              /\ UNCHANGED <<ui, msgs, field>>
        /\ UNCHANGED <<plan, confirmed>>

\* What a report of the block posts: one line for each handler it matches.
lines(block) ==
    LET hs == SetToSeq({h \in DOMAIN ui.handlers :
                           <<ui.handlers[h].dev, ui.handlers[h].ref>> = block})
    IN  [i \in DOMAIN hs |-> [is |-> "ReportLine", ref |-> block[2]]]

Interrogate(t) ==
    /\ running(t, "gi")
    /\ msgs' = IF <<tasks[t].dev, tasks[t].ref>> \in field.rpt
               THEN msgs \o lines(<<tasks[t].dev, tasks[t].ref>>) ELSE msgs
    /\ tasks' = ended(t)
    /\ UNCHANGED <<ui, plan, field, confirmed>>

Report(block) ==
    /\ ~ui.quit /\ block \in field.rpt /\ Len(msgs) < MaxPending
    /\ msgs' = msgs \o lines(block)
    /\ UNCHANGED <<ui, plan, tasks, field, confirmed>>

\* The handler goes before the write that turns the block off.
Disable(t) ==
    LET k == tasks[t] IN
    /\ running(t, "disable")
    /\ \/ /\ k.step = 1
          /\ ui' = dropped(ui, Some(k.sub))
          /\ tasks' = stepped(t)
          /\ UNCHANGED field
       \/ /\ k.step = 2
          /\ field' = [field EXCEPT !.rpt = @ \ {<<k.dev, k.ref>>}]
          /\ tasks' = ended(t)
          /\ UNCHANGED ui
    /\ UNCHANGED <<plan, msgs, confirmed>>

Activate(t) ==
    LET k == tasks[t] IN
    /\ running(t, "activate")
    /\ \/ /\ k.step = 1
          /\ tasks' = stepped(t)
          /\ UNCHANGED <<msgs, field>>
       \/ /\ k.step = 2
          /\ field' = [field EXCEPT !.act[k.dev][k.ref] = k.group]
          /\ post([is |-> "SgLoaded", info |-> [ref |-> k.ref, num |-> Content[k.dev].groups,
                                               act |-> k.group]])
          /\ tasks' = ended(t)
    /\ UNCHANGED <<ui, plan, confirmed>>

\* control_for reads the control model, then the object is operated.
Operate(t) ==
    LET k == tasks[t] IN
    /\ running(t, "operate")
    /\ \/ /\ k.step = 1
          /\ tasks' = stepped(t)
          /\ UNCHANGED field
       \/ /\ k.step = 2
          /\ field' = [field EXCEPT !.operated = Append(@,
                 [ref |-> k.ref, on |-> k.on, test |-> k.test,
                  interlock |-> k.interlock, synchro |-> k.synchro])]
          /\ tasks' = ended(t)
    /\ UNCHANGED <<ui, plan, msgs, confirmed>>

Write(t) ==
    /\ running(t, "write")
    /\ field' = [field EXCEPT !.written = Append(@, [ref |-> tasks[t].ref, value |-> tasks[t].value])]
    /\ tasks' = ended(t)
    /\ UNCHANGED <<ui, plan, msgs, confirmed>>

\* The file is saved under the last component of its name.
Download(t) ==
    /\ running(t, "download")
    /\ field' = [field EXCEPT !.saved = (Last(tasks[t].name) :> tasks[t].name) @@ @]
    /\ tasks' = ended(t)
    /\ UNCHANGED <<ui, plan, msgs, confirmed>>

(***************************************************************************)
(* A session starts at its address, or with the tab of the scenario opened *)
(* on a device whose model has been loaded.                                *)
(***************************************************************************)
Opened(p) ==
    LET fresh(s) == [s EXCEPT !.out = <<>>]
        dialled  == on_msg(fresh(start(App(p.start, FALSE))), [is |-> "Connected", dev |-> p.start])
        loaded   == on_msg(fresh(dialled), [is |-> "ModelLoaded",
                                            nodes |-> Tree[p.start]])
    IN  IF p.tab = 0 THEN start(App(p.start, FALSE)) ELSE goto_tab(loaded, p.tab)

Init ==
    /\ plan \in Scenario
    /\ ui = draw([Opened(plan) EXCEPT !.out = <<>>])
    /\ tasks = Opened(plan).out
    /\ msgs = <<>>
    /\ field = [rpt |-> {}, operated |-> <<>>, written |-> <<>>, saved |-> <<>>,
                act |-> [d \in Dev |-> [r \in Range(Content[d].refs["SettingGroups"]) |-> 1]]]
    /\ confirmed = <<>>

User == \/ \E k \in plan.keys : Key(k)
        \/ \E e \in plan.mouse : Mouse(e)

Background ==
    \/ \E t \in DOMAIN tasks : \/ Fails(t) \/ Connect(t) \/ Read(t) \/ Ticker(t) \/ Fetch(t)
                              \/ Enable(t) \/ Interrogate(t) \/ Disable(t) \/ Activate(t)
                              \/ Operate(t) \/ Write(t) \/ Download(t)
    \/ \E b \in field.rpt : Report(b)

Next == User \/ Messages \/ Background

Spec == Init /\ [][Next]_iedxVars

(***************************************************************************)
(* Properties.                                                             *)
(***************************************************************************)
\* The panels hold what their types say, and the dialog and the connection
\* form are one of their kinds.
TypeOK ==
    /\ ui.active \in 1..7 /\ ui.loaded \subseteq 1..7
    /\ ui.client = None \/ ui.client[1] \in Dev
    /\ ui.connected <=> ui.client # None
    /\ ui.out = <<>>
    /\ ui.dialog # None => ui.dialog[1].is \in {"help", "write", "control"}
    /\ Range(ui.browse.visible) \subseteq DOMAIN ui.browse.nodes
    /\ field.rpt \subseteq Dev \X UNION {Range(Content[d].refs["Reports"]) : d \in Dev}

\* A device is never operated more often, or otherwise, than a user
\* confirmed with the prompt that named the object and the value in front
\* of them: nothing but an explicit yes to that prompt operates, whatever
\* keys, clicks and messages come in between (ControlDialog::on_key).
OnlyConfirmedOperates ==
    \A x \in Range(field.operated) :
        Len(SelectSeq(field.operated, LAMBDA y : y = x))
            <= Len(SelectSeq(confirmed, LAMBDA y : y = x))

\* The row the cursor is on is always on the screen: a list that shrank or
\* was replaced under the cursor, or a tree that was folded or filtered, is
\* drawn with a row of its own highlighted (scroll_into_view, rebuild).
HighlightShown ==
    LET visible(b, n) == n > 0 => b.cursor < n /\ b.top <= b.cursor /\ b.cursor < b.top + Height
    IN  ui.connected =>
            CASE Tab(ui) = "Browse"   -> visible(ui.browse, Len(ui.browse.visible))
              [] Tab(ui) = "Reports"  -> visible(ui.reports.list, Len(ui.reports.refs))
              [] Tab(ui) = "Datasets" -> visible(ui.datasets.list, Len(ui.datasets.refs))
              [] Tab(ui) = "Controls" -> visible(ui.controls.list, Len(ui.controls.refs))
              [] Tab(ui) = "SettingGroups" -> visible(ui.settings.list, Len(ui.settings.refs))
              [] Tab(ui) = "Files"    -> visible(ui.files.list, Len(ui.files.refs))
              [] Tab(ui) = "Logs"     -> /\ visible(ui.logs.list, Len(ui.logs.refs))
                                         /\ visible(ui.logs.view, Len(ui.logs.entries))

\* While a block is shown as enabled, the panel holds the subscription of
\* that very block and its callback is registered, in whatever order
\* enabling and disabling overlapped (on_enabled, disable).
EnabledIsDelivered ==
    ui.reports.enabled # None =>
        /\ ui.reports.sub # None
        /\ ui.reports.sub[1] \in DOMAIN ui.handlers
        /\ ui.handlers[ui.reports.sub[1]].ref = ui.reports.enabled[1]

\* A session that is not connected always has a way to become so: the form
\* is open, or a connection is being tried, or its outcome is waiting to be
\* shown; no order of failures, answers and keys leaves a screen that
\* neither connects nor asks (start, Msg::ConnectFailed).
WayToConnect ==
    \/ ui.connected \/ ui.quit \/ ui.form # None
    \/ \E t \in DOMAIN tasks : tasks[t].is = "connect"
    \/ \E i \in DOMAIN msgs : msgs[i].is \in {"Connected", "ConnectFailed"}

\* What the screen shows is there to be used: the row it highlights, the block
\* it says is enabled, and a way to connect.
ScreenIsTrue == HighlightShown /\ EnabledIsDelivered /\ WayToConnect

\* At most one ticker reads, which a ticker that was being answered when the
\* panel was switched off and on again refutes: "a ticker from a previous activation stops
\* instead of doubling the read rate" (browse.rs, auto_gen).
OneTicker == Cardinality({t \in DOMAIN tasks : tasks[t].is = "ticker"}) <= 1

\* The address in the header is that of the device the client talks to.
HeaderNamesDevice == ui.connected => ui.client[1] = ui.addr
=============================================================================
