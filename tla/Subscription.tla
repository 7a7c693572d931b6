---------------------------- MODULE Subscription ----------------------------
(***************************************************************************)
(* A client subscribing to a report control block while another client may *)
(* configure it (client/report.rs), and what its callback is given: the    *)
(* fields a report is made of on the server (server/reporting.rs), their   *)
(* interpretation on the client, and the reader task that hands reports to *)
(* the handlers registered on the association (mms/conn.rs).               *)
(***************************************************************************)
EXTENDS Access

CONSTANTS
  DsDef,        \* data set -> its members, as item IDs
  Changes,      \* the sets of changes an update may make: [item, reason] each
  OptSets,      \* the optional fields a client may ask for
  MaxReports    \* bound on updates

VARIABLES
  blk,          \* the block: who holds it, who enabled it, its configuration
  me,           \* the subscriber: where it is, the Rcb it read, the settings to write
  handlers,     \* whether its handler is registered on the association
  queue,        \* report PDUs on the wire, each with what it is a report of
  reader,       \* the report being dispatched, when the handler was found registered
  given,        \* what the callback was given
  nrep          \* updates so far

subVars == <<blk, me, handlers, queue, reader, given, nrep>>

(***************************************************************************)
(* The fields of a report.                                                 *)
(***************************************************************************)
Field(text) == [text |-> text, name |-> <<>>, bits |-> {}, len |-> 0]
NameField(name) == [Field("") EXCEPT !.name = name]
BitField(bits, len) == [Field("") EXCEPT !.bits = bits, !.len = len]

SUPPORTED_OPT_FLDS ==
  {"SEQ_NUM", "TIME_OF_ENTRY", "REASON_CODE", "DATA_SET_NAME", "DATA_REF", "BUF_OVFL", "ENTRY_ID", "CONF_REV"}

effective_opt_flds(opt, buffered) ==
  (opt \cap SUPPORTED_OPT_FLDS) \ IF buffered THEN {} ELSE {"BUF_OVFL", "ENTRY_ID"}

\* The server's order of the optional fields before the inclusion bit string.
header_order ==
  <<"SEQ_NUM", "TIME_OF_ENTRY", "DATA_SET_NAME", "BUF_OVFL", "ENTRY_ID", "CONF_REV">>

header(opt) == SelectSeq(header_order, LAMBDA f : f \in opt)

\* The report of the entry's members [from, to), as a segment when there is one.
report_element(e, from, to, segment) ==
  LET opt == e.opt \cup IF segment = <<>> THEN {} ELSE {"SEGMENTATION"}
      h == header(opt)
      part == SubSeq(e.members, from + 1, to)
      of(i) == DsDef[e.data_set][part[i]]
  IN  <<Field(e.rpt_id), BitField(opt, 10)>>
      \o [k \in DOMAIN h |-> Field(e.fixed[h[k]])]
      \o (IF segment = <<>> THEN <<>> ELSE <<Field(segment[1]), Field(segment[2])>>)
      \o <<BitField({part[i] : i \in DOMAIN part}, Len(DsDef[e.data_set]))>>
      \o (IF "DATA_REF" \in opt THEN [i \in DOMAIN part |-> NameField(of(i))] ELSE <<>>)
      \o [i \in DOMAIN part |-> NameField(<<"value">> \o of(i))]
      \o (IF "REASON_CODE" \in opt THEN [i \in DOMAIN part |-> Field(e.reasons[from + i])] ELSE <<>>)

Ordinal == <<"0", "1", "2", "3">>
Flag(b) == IF b THEN "true" ELSE "false"

\* One report when everything fits, otherwise runs of at most `room' members.
RECURSIVE segments(_, _, _, _)
segments(e, from, sub_seq, room) ==
  LET n == Len(e.members)
      to == IF from + room < n THEN from + room ELSE n
  IN  IF from >= n THEN <<>>
      ELSE <<report_element(e, from, to, <<Ordinal[sub_seq + 1], Flag(to < n)>>)>>
           \o segments(e, to, sub_seq + 1, room)

report_pdus(e, room) ==
  IF room = 0 \/ Len(e.members) <= room THEN <<report_element(e, 0, Len(e.members), <<>>)>>
  ELSE segments(e, 0, 0, room)

(***************************************************************************)
(* The client's reading of them.                                           *)
(***************************************************************************)
\* A bug: the buffer overflow and the entry ID are taken for each other.
client_order_Swapped ==
  <<"SEQ_NUM", "TIME_OF_ENTRY", "DATA_SET_NAME", "ENTRY_ID", "BUF_OVFL", "CONF_REV">>

client_order ==
  <<"SEQ_NUM", "TIME_OF_ENTRY", "DATA_SET_NAME", "BUF_OVFL", "ENTRY_ID", "CONF_REV">>

NoField == Field("missing")

\* The set bits of the inclusion field, in order.
included(f) == SelectSeq([i \in 1 .. f.len |-> i], LAMBDA i : i \in f.bits)

decode_report(v, members) ==
  LET opt == v[2].bits
      h == SelectSeq(client_order, LAMBDA f : f \in opt)
      seg == IF "SEGMENTATION" \in opt THEN 2 ELSE 0
      at(i) == IF i \in DOMAIN v THEN v[i] ELSE NoField
      incl == 3 + Len(h) + seg
      inc == included(v[incl])
      refs == incl
      vals == refs + IF "DATA_REF" \in opt THEN Len(inc) ELSE 0
      reasons == vals + Len(inc)
      label(k) == IF inc[k] \in DOMAIN members THEN members[inc[k]]
                  ELSE IF "DATA_REF" \in opt THEN at(refs + k).name ELSE <<>>
  IN  IF Len(v) < 3 \/ incl \notin DOMAIN v THEN <<>>
      ELSE << [rpt_id |-> v[1].text, opt |-> opt,
               fixed |-> [f \in {h[k] : k \in DOMAIN h} |->
                            at(2 + CHOOSE k \in DOMAIN h : h[k] = f).text],
               more |-> seg = 2 /\ at(2 + Len(h) + 2).text = "true",
               entries |-> [k \in DOMAIN inc |->
                              [index |-> inc[k], reference |-> from_mms(label(k)),
                               value |-> at(vals + k).name,
                               reason |-> IF "REASON_CODE" \in opt THEN at(reasons + k).text ELSE ""]]] >>

(***************************************************************************)
(* The block.                                                              *)
(***************************************************************************)
allowed(who) == blk.owner \in {"", who}

\* A write that the server takes: refused when another client holds the block, or, for
\* a setting, when the block is enabled; the writer of a free block becomes its owner.
Stored(who, attr, v) == blk' = [blk EXCEPT ![attr] = v, !.owner = who]

\* Another client reconfigures the block, and lets it go.
RivalWrite(attr, v) ==
  /\ allowed("rival") /\ ~blk.enabled
  /\ blk[attr] # v
  /\ Stored("rival", attr, v)
  /\ UNCHANGED <<me, handlers, queue, reader, given, nrep>>

RivalLeaves ==
  /\ blk.owner = "rival"
  /\ blk' = [blk EXCEPT !.owner = ""]
  /\ UNCHANGED <<me, handlers, queue, reader, given, nrep>>

(***************************************************************************)
(* The subscriber.                                                         *)
(***************************************************************************)
SubInit ==
  /\ \E buffered \in BOOLEAN :
       blk = [owner |-> "", enabled |-> FALSE, buffered |-> buffered, rpt_id |-> "id1",
              data_set |-> "ds1", opt |-> {}]
  /\ me = [at |-> "idle", rpt_id |-> "", data_set |-> "", opt |-> {}, members |-> <<>>, todo |-> <<>>,
           closed |-> FALSE]
  /\ handlers = FALSE /\ queue = <<>> /\ reader = <<>> /\ given = <<>> /\ nrep = 0

Goes(to) == me' = [me EXCEPT !.at = to]

\* get_rcb reads one attribute per request.
ReadAttr ==
  /\ me.at \in {"idle", "got_id"}
  /\ me' = IF me.at = "idle" THEN [me EXCEPT !.rpt_id = blk.rpt_id, !.at = "got_id"]
           ELSE [me EXCEPT !.data_set = blk.data_set, !.at = "got"]
  /\ UNCHANGED <<blk, handlers, queue, reader, given, nrep>>

\* The settings that are written: OptFlds and TrgOps when the caller asks for some, the
\* integrity period always, the entry to go on from when it names one of a buffered block.
settings(opt, asked) ==
  SelectSeq(<<"OptFlds", "TrgOps", "IntgPd", "EntryID">>,
            LAMBDA attr : CASE attr = "OptFlds" -> opt # {}
                            [] attr = "IntgPd" -> TRUE
                            [] attr = "EntryID" -> attr \in asked /\ blk.buffered
                            [] OTHER -> attr \in asked)

\* enable_reporting: the members, or none when the server will not say.
dataset_members_for_rcb(opt) ==
  /\ me.at = "got"
  /\ \E known \in BOOLEAN, asked \in SUBSET {"TrgOps", "EntryID"} :
       me' = [me EXCEPT !.at = "resv", !.opt = opt, !.todo = settings(opt, asked),
                        !.members = IF known THEN DsDef[me.data_set] ELSE <<>>]
  /\ UNCHANGED <<blk, handlers, queue, reader, given, nrep>>

Refused == me' = [me EXCEPT !.at = "failed", !.todo = <<>>] /\ UNCHANGED blk

\* An unbuffered block is reserved before it is configured.
Reserve ==
  /\ me.at = "resv"
  /\ IF blk.buffered THEN Goes("conf") /\ UNCHANGED blk
     ELSE IF allowed("me") THEN Goes("conf") /\ blk' = [blk EXCEPT !.owner = "me"]
     ELSE Refused
  /\ UNCHANGED <<handlers, queue, reader, given, nrep>>

\* One setting, a request of its own; a refusal ends the subscribing.
write_rcb ==
  /\ me.at = "conf" /\ me.todo # <<>>
  /\ IF allowed("me") /\ ~blk.enabled
     THEN /\ me' = [me EXCEPT !.todo = Tail(@)]
          /\ Stored("me", "opt", IF Head(me.todo) = "OptFlds" THEN me.opt ELSE blk.opt)
     ELSE Refused
  /\ UNCHANGED <<handlers, queue, reader, given, nrep>>

\* The handler is registered before the block is enabled.
on_information_report ==
  /\ me.at = "conf" /\ me.todo = <<>>
  /\ Goes("enable") /\ handlers' = TRUE
  /\ UNCHANGED <<blk, queue, reader, given, nrep>>

\* A refused enable drops the subscription, and with it the handler.
Enable ==
  /\ me.at = "enable"
  /\ IF allowed("me") /\ ~blk.enabled
     THEN /\ Goes("on") /\ blk' = [blk EXCEPT !.owner = "me", !.enabled = TRUE]
          /\ UNCHANGED handlers
     ELSE Refused /\ handlers' = FALSE
  /\ UNCHANGED <<queue, reader, given, nrep>>

\* disable unregisters first, then writes; dropping the subscription only unregisters.
Disable ==
  /\ me.at = "on"
  /\ handlers' = FALSE
  /\ me' = [me EXCEPT !.at = "disabling", !.closed = TRUE]
  /\ UNCHANGED <<blk, queue, reader, given, nrep>>

DisableWritten ==
  /\ me.at = "disabling"
  /\ Goes("off") /\ blk' = [blk EXCEPT !.enabled = FALSE]
  /\ UNCHANGED <<handlers, queue, reader, given, nrep>>

DropSubscription ==
  /\ me.at = "on"
  /\ handlers' = FALSE
  /\ me' = [me EXCEPT !.at = "dropped", !.closed = TRUE]
  /\ UNCHANGED <<blk, queue, reader, given, nrep>>

(***************************************************************************)
(* Reports.                                                                *)
(***************************************************************************)
\* The reasons a change set raises for a member: of itself, of anything below it and of
\* anything above it, under the same constraint.
member_reason(changes, m) ==
  LET r == from_mms(m)
  IN  {c.reason : c \in {x \in changes :
         LET y == from_mms(x.item)
         IN  y.fc = r.fc /\ (IsPrefix(y.path, r.path) \/ IsPrefix(r.path, y.path))}}

\* The text a reason code is written as.
reason_text(reasons) ==
  CASE reasons = {"dchg"} -> "dchg" [] reasons = {"qchg"} -> "qchg" [] OTHER -> "dchg+qchg"

\* An update: the entry holds the members its changes touch, and its PDUs go out.
Update(changes, room) ==
  /\ blk.enabled /\ nrep < MaxReports
  /\ LET members == DsDef[blk.data_set]
         hit == SelectSeq([i \in DOMAIN members |-> i], LAMBDA i : member_reason(changes, members[i]) # {})
         e == [rpt_id |-> blk.rpt_id, data_set |-> blk.data_set,
               opt |-> effective_opt_flds(blk.opt, blk.buffered), members |-> hit,
               reasons |-> [k \in DOMAIN hit |-> reason_text(member_reason(changes, members[hit[k]]))],
               fixed |-> [f \in {header_order[k] : k \in DOMAIN header_order} |-> f]]
         pdus == report_pdus(e, room)
     IN  /\ hit # <<>>
         /\ queue' = queue \o [k \in DOMAIN pdus |-> [pdu |-> pdus[k], of |-> e]]
  /\ nrep' = nrep + 1
  /\ UNCHANGED <<blk, me, handlers, reader, given>>

\* The reader takes a report and copies the handlers registered at that moment.
handle_unconfirmed ==
  /\ reader = <<>> /\ queue # <<>>
  /\ reader' = IF handlers THEN <<Head(queue)>> ELSE <<>>
  /\ queue' = Tail(queue)
  /\ UNCHANGED <<blk, me, handlers, given, nrep>>

\* The handler decodes it and passes on the reports of its own block.
Dispatch ==
  /\ reader # <<>>
  /\ LET rep == decode_report(reader[1].pdu, me.members)
     IN  given' = IF rep # <<>> /\ rep[1].rpt_id = me.rpt_id
                  THEN Append(given, [report |-> rep[1], of |-> reader[1].of, late |-> me.closed]) ELSE given
  /\ reader' = <<>>
  /\ UNCHANGED <<blk, me, handlers, queue, nrep>>

SubNext ==
  \/ ReadAttr \/ Reserve \/ write_rcb \/ on_information_report \/ Enable
  \/ \E opt \in OptSets : dataset_members_for_rcb(opt)
  \/ Disable \/ DisableWritten \/ DropSubscription
  \/ \E ds \in DOMAIN DsDef : RivalWrite("data_set", ds)
  \/ \E id \in {"id1", "id2"} : RivalWrite("rpt_id", id)
  \/ RivalLeaves
  \/ \E changes \in Changes : \E room \in 0 .. 2 : Update(changes, room)
  \/ handle_unconfirmed \/ Dispatch

(***************************************************************************)
(* Properties.                                                             *)
(***************************************************************************)
Same == me.rpt_id = blk.rpt_id /\ me.data_set = blk.data_set

\* The entry a report says is at an index of the data set.
Entry(e, index) == CHOOSE k \in DOMAIN e.members : e.members[k] = index

\* Whatever optional fields were asked for and however the report was segmented, every
\* entry the callback is given carries the value and the reason of the member at its
\* index, labelled with that member when the subscriber knows the data set, and every
\* optional field its own contents (report.rs: "the order here is the whole correctness
\* of report decoding").
EntriesAreOwn ==
  \A g \in ToSet(given) : Same =>
    LET r == g.report
    IN  /\ \A f \in DOMAIN r.fixed : r.fixed[f] = g.of.fixed[f]
        /\ r.opt \ {"SEGMENTATION"} = g.of.opt
        /\ \A i \in DOMAIN r.entries :
             LET x == r.entries[i]
                 m == DsDef[g.of.data_set][x.index]
             IN  /\ x.index \in ToSet(g.of.members)
                 /\ x.value = <<"value">> \o m
                 /\ x.reference = from_mms(IF me.members # <<>> \/ "DATA_REF" \in r.opt THEN m ELSE <<>>)
                 /\ "REASON_CODE" \in r.opt => x.reason = g.of.reasons[Entry(g.of, x.index)]

\* A subscriber that has seen the end of a report has been given every member of it,
\* once and in order, over its segments; with the block as it read it, no report sent
\* while it was subscribed is missing (report.rs: the handler is registered before the
\* block is enabled and filters on the RptID read earlier).
ReportsAreWhole ==
  me.at = "on" /\ queue = <<>> /\ reader = <<>> /\ Same =>
    LET entries == FlattenSeq([i \in DOMAIN given |-> given[i].report.entries])
        final == IF given = <<>> THEN <<>> ELSE given[Len(given)].of.members
    IN  /\ nrep > 0 => given # <<>>
        /\ given # <<>> => ~given[Len(given)].report.more
        /\ nrep = 1 => [k \in DOMAIN entries |-> entries[k].index] = final

\* What a subscriber's callback is given, entry by entry and report by report.
ReportsAreOwn == EntriesAreOwn /\ ReportsAreWhole

\* The labels are those of the data set reported, whoever configured the block:
\* refuted when another client changes DatSet before the block is reserved.
LabelsFollowBlock ==
  \A g \in ToSet(given) : \A i \in DOMAIN g.report.entries :
    LET x == g.report.entries[i]
    IN  x.reference \in {from_mms(<<>>), from_mms(DsDef[g.of.data_set][x.index])}

\* No report reaches a caller that has unsubscribed: refuted when the reader copied the
\* handlers before.
QuietAfterDisable == \A g \in ToSet(given) : ~g.late
=============================================================================
