-------------------------------- MODULE Osi --------------------------------
(***************************************************************************)
(* The OSI layers under MMS, src/src/osi: TPKT framing, the class 0        *)
(* transport (connection, size negotiation, segmentation), the session     *)
(* CONNECT/ACCEPT/REFUSE/ABORT and data prefix, presentation contexts and  *)
(* the ACSE association PDUs.  Everything here is a function from octets   *)
(* to octets or to what was read; module Wire runs the two ends.           *)
(***************************************************************************)
EXTENDS MmsCodec

CONSTANTS LengthOctets,  \* octets of the TPKT length field (2)
          MAX_PACKET     \* largest packet written (2^20)

----------------------------------------------------------------------------
(* TPKT.  A packet longer than its length field is written with the low    *)
(* octets of its length.                                                   *)

HEADER_LEN == 2 + LengthOctets
VERSION == 3

write_packet(payload) ==
  LET total == HEADER_LEN + Len(payload)
  IN  IF total > MAX_PACKET THEN Err
      ELSE Ok(<<VERSION, 0>> \o Octets(total, LengthOctets) \o payload)

\* The first packet of the stream: "wait" while it has not all arrived.
read_packet(stream) ==
  IF Len(stream) < HEADER_LEN THEN [ok |-> FALSE, wait |-> TRUE]
  ELSE With(be(SubSeq(stream, 3, HEADER_LEN)), LAMBDA total :
    IF stream[1] # VERSION \/ total \notin HEADER_LEN..MAX_PACKET THEN [ok |-> FALSE, wait |-> FALSE]
    ELSE IF Len(stream) < total THEN [ok |-> FALSE, wait |-> TRUE]
    ELSE [ok |-> TRUE, payload |-> SubSeq(stream, HEADER_LEN + 1, total),
          rest |-> SubSeq(stream, total + 1, Len(stream))])

----------------------------------------------------------------------------
(* Transport class 0.                                                      *)

TPDU_CR == 224
TPDU_CC == 208
TPDU_DT == 240
EOT == 128

PARAM_TPDU_SIZE == 192
PARAM_SRC_TSAP == 193
PARAM_DST_TSAP == 194
DEFAULT_TSAP == <<0, 1>>

write_param(code, val) == <<code, Len(val) % 256>> \o val

parse_header(tpdu) ==
  IF Len(tpdu) < 2 THEN Err
  ELSE LET li == tpdu[1]
       IN  IF li = 0 \/ 1 + li > Len(tpdu) THEN Err
           ELSE [ok |-> TRUE, typ |-> (tpdu[2] \div 16) * 16, body |-> SubSeq(tpdu, 3, 1 + li),
                 data |-> SubSeq(tpdu, 2 + li, Len(tpdu))]

\* The (code, value) pairs of a parameter part, up to the first broken one.
RECURSIVE parse_params(_)
parse_params(p) ==
  IF Len(p) < 2 THEN <<>>
  ELSE IF 2 + p[2] > Len(p) THEN <<>>
  ELSE <<[code |-> p[1], val |-> SubSeq(p, 3, 2 + p[2])]>>
         \o parse_params(SubSeq(p, 3 + p[2], Len(p)))

\* The values given for a code, in order.
given(params, code) ==
  LET of == SelectSeq(params, LAMBDA p : p.code = code)
  IN  [i \in DOMAIN of |-> of[i].val]

\* A header of the given type, its length indicator covering all of it.
Header(typ, dst_ref, src_ref, params) ==
  LET b == <<typ>> \o Octets(dst_ref, 2) \o Octets(src_ref, 2) \o <<0>> \o FlattenSeq(params)
  IN  <<Len(b) % 256>> \o b

send_cr(size_code, src_tsap, dst_tsap) ==
  Header(TPDU_CR, 0, 1, <<write_param(PARAM_TPDU_SIZE, <<size_code>>),
                          write_param(PARAM_SRC_TSAP, src_tsap),
                          write_param(PARAM_DST_TSAP, dst_tsap)>>)

MinOf(a, b) == IF a < b THEN a ELSE b

\* What the responder takes from a CR; the peer's source is our destination.
accept_cr(tpdu) ==
  LET last(of) == IF of = <<>> THEN <<>> ELSE Last(of)
      taken(body, params, sizes) ==
        [ok |-> TRUE, size_code |-> IF sizes = <<>> THEN 10 ELSE Last(sizes)[1],
         max_tpdu |-> IF sizes = <<>> THEN 1024 ELSE 2^MinOf(Last(sizes)[1], 24),
         dst_ref |-> IF Len(body) >= 4 THEN be(SubSeq(body, 3, 4)) ELSE 0,
         src_tsap |-> last(given(params, PARAM_DST_TSAP)),
         dst_tsap |-> last(given(params, PARAM_SRC_TSAP))]
  IN  Then(parse_header(tpdu), LAMBDA h :
        IF h.typ # TPDU_CR THEN Err
        ELSE With(parse_params(SubSeq(h.body, 6, Len(h.body))), LAMBDA params :
               taken(h.body, params,
                     SelectSeq(given(params, PARAM_TPDU_SIZE), LAMBDA s : Len(s) = 1))))

send_cc(acc) ==
  Header(TPDU_CC, acc.dst_ref, 1,
         <<write_param(PARAM_TPDU_SIZE, <<acc.size_code>>),
           IF acc.src_tsap = <<>> THEN <<>> ELSE write_param(PARAM_SRC_TSAP, acc.src_tsap),
           IF acc.dst_tsap = <<>> THEN <<>> ELSE write_param(PARAM_DST_TSAP, acc.dst_tsap)>>)

\* The initiator's size after the CC: it only ever goes down.
recv_cc(tpdu, max_tpdu) ==
  LET sizes(body) == SelectSeq(given(parse_params(SubSeq(body, 6, Len(body))), PARAM_TPDU_SIZE),
                               LAMBDA s : Len(s) = 1)
  IN  Then(parse_header(tpdu), LAMBDA h :
        IF h.typ # TPDU_CC \/ Len(h.body) < 5 THEN Err
        ELSE [ok |-> TRUE, dst_ref |-> be(SubSeq(h.body, 3, 4)),
              max_tpdu |-> FoldLeft(LAMBDA m, s : MinOf(m, 2^MinOf(s[1], 24)), max_tpdu, sizes(h.body))])

\* The TPDUs of a TSDU: the negotiated size less the three header octets each.
RECURSIVE send(_, _)
send(tsdu, max_tpdu) ==
  LET max_data == IF max_tpdu > 4 THEN max_tpdu - 3 ELSE 1
  IN  IF max_data >= Len(tsdu) THEN <<<<2, TPDU_DT, EOT>> \o tsdu>>
      ELSE <<<<2, TPDU_DT, 0>> \o SubSeq(tsdu, 1, max_data)>>
             \o send(SubSeq(tsdu, max_data + 1, Len(tsdu)), max_tpdu)

\* One TPDU added to the buffer: "last" when it ends the TSDU.
receive(buf, tpdu) ==
  Then(parse_header(tpdu), LAMBDA h :
    IF h.typ # TPDU_DT \/ h.body = <<>> THEN Err
    ELSE [ok |-> TRUE, buf |-> buf \o h.data, last |-> h.body[1] >= EOT])

----------------------------------------------------------------------------
(* Session.                                                                *)

SI_DATA_TRANSFER == 1
SI_CONNECT == 13
SI_ACCEPT == 14
SI_REFUSE == 12
SI_ABORT == 25

PGI_CONNECT_ACCEPT == 5
PI_PROTOCOL_OPTS == 19
PI_VERSION_NUMBER == 22
PI_SESSION_USER_REQ == 20
PI_CALLING_SSEL == 51
PI_CALLED_SSEL == 52
PGI_USER_DATA == 193
PI_TRANSPORT_DISC == 17
PI_REASON_CODE == 50
REASON_USER_DATA == 2

append_len(n) == IF n < 255 THEN <<n>> ELSE <<255>> \o Octets(n, 2)

\* The length at the head of b and the octets it took.
read_len(b) ==
  CASE b = <<>> -> Err
    [] b # <<>> /\ b[1] # 255 -> [ok |-> TRUE, n |-> b[1], took |-> 1]
    [] Len(b) >= 3 /\ b[1] = 255 -> [ok |-> TRUE, n |-> be(SubSeq(b, 2, 3)), took |-> 3]
    [] OTHER -> Err

write_pi(code, val) == <<code>> \o append_len(Len(val)) \o val

spdu(si, params) == <<si>> \o append_len(Len(params)) \o params

build_connect(si, calling_ssel, called_ssel, user_data) ==
  spdu(si, write_pi(PGI_CONNECT_ACCEPT,
                    write_pi(PI_PROTOCOL_OPTS, <<0>>) \o write_pi(PI_VERSION_NUMBER, <<2>>))
           \o write_pi(PI_SESSION_USER_REQ, <<0, 2>>)
           \o (IF calling_ssel = <<>> THEN <<>> ELSE write_pi(PI_CALLING_SSEL, calling_ssel))
           \o (IF called_ssel = <<>> THEN <<>> ELSE write_pi(PI_CALLED_SSEL, called_ssel))
           \o write_pi(PGI_USER_DATA, user_data))

refuse(user_data) ==
  spdu(SI_REFUSE, write_pi(PI_TRANSPORT_DISC, <<1>>)
                  \o write_pi(PI_REASON_CODE, <<REASON_USER_DATA>> \o user_data))

session_abort(user_data) ==
  spdu(SI_ABORT, write_pi(PI_TRANSPORT_DISC, <<11>>) \o write_pi(PGI_USER_DATA, user_data))

\* The parameters of an SPDU.
spdu_params(b) ==
  IF Len(b) < 2 THEN Err
  ELSE Then(read_len(Tail(b)), LAMBDA l :
         IF 1 + l.took + l.n > Len(b) THEN Err
         ELSE Ok(SubSeq(b, 2 + l.took, 1 + l.took + l.n)))

\* The value of the first parameter with a code: <<>> when there is none.
\* "ok" is FALSE when a parameter on the way does not fit.
RECURSIVE find_param(_, _)
find_param(p, code) ==
  IF Len(p) < 2 THEN Ok(<<>>)
  ELSE Then(read_len(Tail(p)), LAMBDA l :
         IF 1 + l.took + l.n > Len(p) THEN Err
         ELSE IF p[1] = code THEN Ok(<<SubSeq(p, 2 + l.took, 1 + l.took + l.n)>>)
         ELSE find_param(SubSeq(p, 2 + l.took + l.n, Len(p)), code))

find_user_data(params) == find_param(params, PGI_USER_DATA)

\* A parameter that was found, or nothing.
found(ud) == IF ~ud.ok THEN <<>> ELSE IF ud.v = <<>> THEN <<>> ELSE ud.v[1]

parse_connect_like(b) ==
  Then(spdu_params(b), LAMBDA params :
    Then(find_user_data(params.v), LAMBDA ud :
      [ok |-> TRUE, si |-> b[1], params |-> params.v, user_data |-> found(ud)]))

\* What the answer to a CONNECT says: accepted, refused with user data, or bad.
connect_answer(b) ==
  LET reason(rc) == IF rc = <<>> THEN <<>> ELSE Tail(rc)
  IN  IF b # <<>> /\ b[1] = SI_REFUSE
      THEN With(spdu_params(b), LAMBDA params :
             IF ~params.ok THEN [is |-> "bad"]
             ELSE [is |-> "refused", user_data |-> reason(found(find_param(params.v, PI_REASON_CODE)))])
      ELSE With(parse_connect_like(b), LAMBDA like :
             IF ~like.ok THEN [is |-> "bad"]
             ELSE IF like.si # SI_ACCEPT THEN [is |-> "bad"]
             ELSE [is |-> "accepted", user_data |-> like.user_data])

accept_server(b) ==
  Then(parse_connect_like(b), LAMBDA like :
    IF like.si # SI_CONNECT THEN Err
    ELSE [ok |-> TRUE, user_data |-> like.user_data,
          called_ssel |-> found(find_param(like.params, PI_CALLED_SSEL))])

send_data(user_data) == <<SI_DATA_TRANSFER, 0, SI_DATA_TRANSFER, 0>> \o user_data

\* Up to two SPDU headers are taken off the front.
RECURSIVE strip_data_prefix(_, _)
strip_data_prefix(b, n) ==
  IF n = 0 \/ Len(b) < 2 THEN Ok(b)
  ELSE IF b[1] # SI_DATA_TRANSFER THEN Ok(b)
  ELSE IF 2 + b[2] > Len(b) THEN Err
  ELSE strip_data_prefix(SubSeq(b, 3 + b[2], Len(b)), n - 1)

receive_data(b) ==
  IF b # <<>> /\ b[1] = SI_ABORT
  THEN [is |-> "aborted",
        user_data |-> found(Then(spdu_params(b), LAMBDA params : find_user_data(params.v)))]
  ELSE With(strip_data_prefix(b, 2), LAMBDA data :
         IF data.ok THEN [is |-> "data", user_data |-> data.v] ELSE [is |-> "bad"])

----------------------------------------------------------------------------
(* Presentation.                                                           *)

CONTEXT_ACSE == 1
CONTEXT_MMS == 3

oid_acse == <<2, 2, 1, 0, 1>>
oid_mms == <<1, 0, 9506, 2, 1>>
oid_ber == <<2, 1, 1>>

DEFAULT_PSEL == <<0, 0, 0, 1>>

\* A proposed context; the syntaxes are <<>> when not given.
Context(id, abstract, transfer) ==
  [id |-> id, abstract_syntax |-> abstract, transfer_syntax |-> transfer]

acceptable(c) == c.abstract_syntax \in {oid_acse, oid_mms} /\ c.transfer_syntax = oid_ber

\* The identifiers the proposer gave the two contexts: 0 for not accepted.
negotiate(proposed) ==
  LET of(oid) == {i \in DOMAIN proposed :
                    acceptable(proposed[i]) /\ proposed[i].abstract_syntax = oid}
      id(oid) == IF of(oid) = {} THEN 0 ELSE proposed[Max(of(oid))].id
  IN  [acse |-> id(oid_acse), mms |-> id(oid_mms)]

user_data(id, payload) ==
  cons(application_constructed(1),
       <<cons(TAG_SEQUENCE, <<int_elem(TAG_INTEGER, id),
                              raw_content(context_constructed(0), payload)>>)>>)

mode_selector == cons(context_constructed(0), <<int_elem(context_primitive(0), 1)>>)

context_entry(c) ==
  cons(TAG_SEQUENCE, <<int_elem(TAG_INTEGER, c.id), oid_elem(TAG_OID, c.abstract_syntax),
                       cons(TAG_SEQUENCE, <<oid_elem(TAG_OID, c.transfer_syntax)>>)>>)

\* The crate's own client proposes these two.
OwnContexts == <<Context(CONTEXT_ACSE, oid_acse, oid_ber), Context(CONTEXT_MMS, oid_mms, oid_ber)>>

Selector(n, psel) == IF psel = <<>> THEN <<>> ELSE <<prim(context_primitive(n), psel)>>

build_cp(calling_psel, called_psel, contexts, acse_data) ==
  encode(cons(TAG_SET, <<mode_selector,
    cons(context_constructed(2),
         Selector(1, calling_psel) \o Selector(2, called_psel)
         \o <<cons(context_constructed(4),
                   [i \in DOMAIN contexts |-> context_entry(contexts[i])]),
              user_data(contexts[1].id, acse_data)>>)>>))

\* One result per proposed context, in the order proposed.
result_list(proposed) ==
  cons(context_constructed(5),
       [i \in DOMAIN proposed |->
          cons(TAG_SEQUENCE,
               IF acceptable(proposed[i])
               THEN <<int_elem(context_primitive(0), 0), oid_elem(context_primitive(1), oid_ber)>>
               ELSE <<int_elem(context_primitive(0), 1)>>)])

acse_context_or_default(neg) == IF neg.acse = 0 THEN CONTEXT_ACSE ELSE neg.acse

build_cpa(psel, proposed, acse_data) ==
  encode(cons(TAG_SET, <<mode_selector,
    cons(context_constructed(2),
         Selector(3, psel) \o <<result_list(proposed),
           user_data(acse_context_or_default(negotiate(proposed)), acse_data)>>)>>))

build_cpr(psel, proposed, acse_data) ==
  encode(cons(TAG_SEQUENCE,
         Selector(3, psel) \o <<result_list(proposed),
           user_data(acse_context_or_default(negotiate(proposed)), acse_data)>>))

\* The context identifier and the payload of a PDV list.
parse_pdv_list(content) ==
  LET pdv(all, data) ==
        LET ids == {i \in DOMAIN all : all[i].tag = TAG_INTEGER /\ i < Min(data)}
        IN  IF data = {} THEN Err
            ELSE [ok |-> TRUE, content |-> all[Min(data)].content,
                  id |-> IF ids = {} THEN 0 ELSE decode_int(all[Max(ids)].content).v]
  IN  Then(expect(content, TAG_SEQUENCE), LAMBDA seq :
        With(tlvs(seq.content).items, LAMBDA all :
          pdv(all, {i \in DOMAIN all : all[i].tag \in {context_constructed(0), context_primitive(1)}})))

\* The first element with a tag.
first_of(all, tag) ==
  LET at == {i \in DOMAIN all : all[i].tag = tag} IN IF at = {} THEN Err ELSE Ok(all[Min(at)])

\* The first fully-encoded data among the elements of a PDU.
find_fully_encoded(content) ==
  Then(first_of(tlvs(content).items, application_constructed(1)), LAMBDA e : parse_pdv_list(e.v.content))

parse_cpr_user_data(pdu) ==
  Then(expect(pdu, TAG_SEQUENCE), LAMBDA seq : find_fully_encoded(seq.content))

parse_cp_user_data(pdu) ==
  Then(expect(pdu, TAG_SET), LAMBDA set :
    Then(first_of(tlvs(set.content).items, context_constructed(2)), LAMBDA normal :
      find_fully_encoded(normal.v.content)))

\* One entry: the first OID is the abstract syntax, a later one or one inside a
\* SEQUENCE the transfer syntax, the last of them counting.  An identifier and an inner
\* OID that do not decode are passed over; any other failure spoils the entry.
parse_context(body) ==
  LET decoded(decode(_), all, t) ==
        SelectSeq([i \in DOMAIN all |-> IF all[i].tag = t THEN decode(all[i].content) ELSE Err],
                  LAMBDA d : d.ok)
      last(seen, none) == IF seen = <<>> THEN none ELSE Last(seen).v
      transfer(all, first) ==
        FlattenSeq([i \in DOMAIN all |->
          CASE all[i].tag = TAG_OID /\ i > first -> decoded(decode_oid, <<all[i]>>, TAG_OID)
            [] all[i].tag = TAG_SEQUENCE -> decoded(decode_oid, tlvs(all[i].content).items, TAG_OID)
            [] OTHER -> <<>>])
  IN  Then(tlvs(body), LAMBDA got :
        With({i \in DOMAIN got.items : got.items[i].tag = TAG_OID}, LAMBDA oids :
          IF \E i \in oids : ~decode_oid(got.items[i].content).ok THEN Err
          ELSE Ok(Context(last(decoded(decode_int, got.items, TAG_INTEGER), 0),
                          IF oids = {} THEN <<>> ELSE decode_oid(got.items[Min(oids)].content).v,
                          last(transfer(got.items, Min(oids \cup {Len(got.items) + 1})), <<>>)))))

\* An entry that is not a SEQUENCE, or does not decode, ends the list.
parse_context_list(content) ==
  With(tlvs(content).items, LAMBDA all :
    With([i \in DOMAIN all |-> IF all[i].tag = TAG_SEQUENCE THEN parse_context(all[i].content) ELSE Err],
         LAMBDA read :
      With({i \in DOMAIN read : ~read[i].ok}, LAMBDA bad :
        [i \in 1..(IF bad = {} THEN Len(read) ELSE Min(bad) - 1) |-> read[i].v])))

\* Every element of the normal-mode parameters is read, the last of a kind counting.
parse_cp(pdu) ==
  LET of(all, t) == SelectSeq(all, LAMBDA e : e.tag = t)
      each(all, read(_)) == [i \in DOMAIN all |-> read(all[i].content)]
      Sound(all) == \A i \in DOMAIN all : all[i].ok
      content(of_tag) == IF of_tag = <<>> THEN <<>> ELSE Last(of_tag).content
      cp(fs) ==
        With(each(of(fs, application_constructed(1)), parse_pdv_list), LAMBDA pdvs :
          IF pdvs = <<>> \/ ~Sound(pdvs) THEN Err
          ELSE [ok |-> TRUE, called_psel |-> content(of(fs, context_primitive(2))),
                user_data |-> Last(pdvs).content,
                contexts |-> parse_context_list(content(of(fs, context_constructed(4))))])
  IN  Then(expect(pdu, TAG_SET), LAMBDA set :
        Then(tlvs(set.content), LAMBDA outer :
          With(each(of(outer.items, context_constructed(2)), tlvs), LAMBDA normal :
            IF ~Sound(normal) THEN Err
            ELSE cp(FlattenSeq([i \in DOMAIN normal |-> normal[i].items])))))

wrap_data(id, pdu) == encode(user_data(IF id = 0 THEN CONTEXT_MMS ELSE id, pdu))

unwrap_data(pdu) ==
  Then(expect(pdu, application_constructed(1)), LAMBDA got : parse_pdv_list(got.content))

wrap_abort(id, abrt) ==
  encode(cons(context_constructed(0),
              <<user_data(IF id = 0 THEN CONTEXT_ACSE ELSE id, abrt)>>))

unwrap_abort(pdu) ==
  Then(read_tlv(pdu), LAMBDA got :
    IF got.tag \notin {context_constructed(0), TAG_SEQUENCE} THEN Err
    ELSE find_fully_encoded(got.content))

----------------------------------------------------------------------------
(* ACSE.                                                                   *)

tag_aarq == application_constructed(0)
tag_aare == application_constructed(1)
tag_abrt == application_constructed(4)
tag_external == Tag(Universal, TRUE, 8)

oid_mms_context == <<1, 0, 9506, 2, 3>>
oid_acsi_context == <<1, 0, 61850, 4, 0, 2>>
password_mechanism == <<2, 2, 3, 1>>
PRESENTATION_CONTEXT_MMS == 3

DIAG_AUTHENTICATION_FAILURE == 13
DIAG_AUTHENTICATION_REQUIRED == 14
ABORT_SOURCE_USER == 0
ABORT_SOURCE_PROVIDER == 1

\* Each field of an identity is <<>> or <<value>>.
Identity(title, qualifier, ap, ae) ==
  [ap_title |-> title, ae_qualifier |-> qualifier, ap_invocation_id |-> ap,
   ae_invocation_id |-> ae]
NoIdentity == Identity(<<>>, <<>>, <<>>, <<>>)

add_identity(base, id) ==
  LET ints == <<id.ae_qualifier, id.ap_invocation_id, id.ae_invocation_id>>
  IN  [i \in DOMAIN id.ap_title |->
         cons(context_constructed(base), <<oid_elem(TAG_OID, id.ap_title[i])>>)]
      \o FlattenSeq([k \in 1..3 |-> [i \in DOMAIN ints[k] |->
            cons(context_constructed(base + k), <<int_elem(TAG_INTEGER, ints[k][i])>>)]])

first_int(content) ==
  With(expect(content, TAG_INTEGER), LAMBDA got : IF got.ok THEN got.content ELSE content)

first_oid(content) == Then(expect(content, TAG_OID), LAMBDA got : decode_oid(got.content))

\* The identity among the elements of an APDU, its tags starting at base.
parse_identity(all, base) ==
  LET of(k) == SelectSeq(all, LAMBDA e : e.tag = context_constructed(base + k))
      value(es, read(_)) == IF es = <<>> THEN <<>>
                            ELSE With(read(Last(es).content), LAMBDA n : IF n.ok THEN <<n.v>> ELSE <<>>)
      int(content) == Then(decode_int(first_int(content)), LAMBDA n : Ok(narrow(n.v)))
      ints == [k \in 1..3 |-> value(of(k), int)]
  IN  With(ints, LAMBDA n : Identity(value(of(0), first_oid), n[1], n[2], n[3]))

external(pdu, context_id) ==
  cons(tag_external, <<int_elem(TAG_INTEGER, context_id),
                       raw_content(context_constructed(0), pdu)>>)

\* The password is <<>> when none is given.
aarq_for(initiate, password, called, calling, app_ctx) ==
  encode(cons(tag_aarq,
    <<cons(context_constructed(1), <<oid_elem(TAG_OID, app_ctx)>>)>>
    \o add_identity(2, called) \o add_identity(6, calling)
    \o (IF password = <<>> THEN <<>>
        ELSE <<bit_string_elem(context_primitive(10), set_bit(BitString(1), 0, TRUE)),
               oid_elem(context_primitive(11), password_mechanism),
               cons(context_constructed(12), <<prim(context_primitive(0), password)>>)>>)
    \o <<cons(context_constructed(30), <<external(initiate, PRESENTATION_CONTEXT_MMS)>>)>>))

\* The context answered is the proposed one when it is known.
answered_context(proposed) ==
  IF proposed \in {<<oid_mms_context>>, <<oid_acsi_context>>} THEN proposed[1]
  ELSE oid_mms_context

Result(ctx, result, diagnostic) ==
  <<cons(context_constructed(1), <<oid_elem(TAG_OID, ctx)>>),
    cons(context_constructed(2), <<int_elem(TAG_INTEGER, result)>>),
    cons(context_constructed(3),
         <<cons(context_constructed(1), <<int_elem(TAG_INTEGER, diagnostic)>>)>>)>>

aare_for(initiate_resp, responding, proposed, mms_context_id) ==
  encode(cons(tag_aare,
    Result(answered_context(proposed), 0, 0) \o add_identity(4, responding)
    \o <<cons(context_constructed(30),
              <<external(initiate_resp,
                         IF mms_context_id = 0 THEN PRESENTATION_CONTEXT_MMS ELSE mms_context_id)>>)>>))

aare_reject_for(proposed, diagnostic) ==
  encode(cons(tag_aare, Result(answered_context(proposed), 1, diagnostic)))

abrt(source) == encode(cons(tag_abrt, <<int_elem(context_primitive(0), source)>>))

parse_abrt(apdu) ==
  Then(expect(apdu, tag_abrt), LAMBDA got :
    Then(optional(got.content, context_primitive(0)), LAMBDA src :
      IF src.content = <<>> THEN Ok(ABORT_SOURCE_USER) ELSE decode_int(src.content[1])))

parse_user_info(content) ==
  Then(expect(content, tag_external), LAMBDA ext :
    With(tlvs(ext.content).items, LAMBDA all :
      With({i \in DOMAIN all : all[i].tag \in {context_constructed(0), context_primitive(1)}}, LAMBDA at :
        IF at = {} THEN Err ELSE Ok(all[Min(at)].content))))

\* The first integer in the result-source-diagnostic.
parse_diagnostic(content) ==
  LET ints(all) == SelectSeq([i \in DOMAIN all |-> decode_int(first_int(all[i].content))],
                             LAMBDA n : n.ok)
  IN  With(ints(tlvs(content).items), LAMBDA ns : IF ns = <<>> THEN 0 ELSE ns[1].v)

\* The content of the last element with a context tag; <<>> when there is none.
last_content(all, n) ==
  With(SelectSeq(all, LAMBDA e : e.tag = context_constructed(n)), LAMBDA of :
    IF of = <<>> THEN <<>> ELSE <<Last(of).content>>)

\* What an optional field was read as, or its default.
read_or(default, content, read(_)) == IF content = <<>> THEN default ELSE read(content[1])

\* The elements of an APDU and its user information.
parse_apdu(apdu, tag, next(_, _)) ==
  Then(expect(apdu, tag), LAMBDA got :
    Then(tlvs(got.content), LAMBDA all :
      Then(read_or(Ok(<<>>), last_content(all.items, 30), parse_user_info), LAMBDA info :
        next(all.items, info.v))))

parse_aare(apdu) ==
  LET refused(e) == /\ e.tag = context_constructed(2)
                    /\ With(decode_int(first_int(e.content)), LAMBDA n : n.ok /\ n.v # 0)
  IN  parse_apdu(apdu, tag_aare, LAMBDA all, info :
        [ok |-> TRUE, accepted |-> ~\E i \in DOMAIN all : refused(all[i]),
         diagnostic |-> read_or(0, last_content(all, 3), parse_diagnostic),
         user_data |-> info, responding |-> parse_identity(all, 4)])

parse_aarq(apdu) ==
  LET password(content) == optional(content, context_primitive(0))
      given_context(got) == IF got.ok THEN <<got.v>> ELSE <<>>
  IN  parse_apdu(apdu, tag_aarq, LAMBDA all, info :
        Then(read_or([ok |-> TRUE, content |-> <<>>], last_content(all, 12), password), LAMBDA pw :
          With(<<parse_identity(all, 2), parse_identity(all, 6)>>, LAMBDA ids :
            [ok |-> TRUE, password |-> pw.content, user_data |-> info,
             application_context |-> given_context(read_or(Err, last_content(all, 1), first_oid)),
             called |-> ids[1], calling |-> ids[2]])))
=============================================================================
