-------------------------------- MODULE Wire --------------------------------
(***************************************************************************)
(* An association octet by octet: a client and the server of this crate    *)
(* (mms/conn.rs handshake, mms/server_conn.rs accept_conn_opts) over two   *)
(* byte streams, from the connection request to confirmed requests and     *)
(* their answers.  Each end writes one packet per step and reads one       *)
(* packet per step; the client's dial timeout drops the handshake at any   *)
(* of its waits, and the server may abort an open association.             *)
(*                                                                         *)
(* The scenario fixes what the two applications want: the client's         *)
(* transport size, presentation contexts (a client of another make numbers *)
(* them as it likes), application context, identities, password and        *)
(* Initiate parameters, the server's, and the requests with their answers. *)
(***************************************************************************)
EXTENDS Osi

CONSTANTS Scenario, \* what the two applications may want; calls are places in Exchange
          Exchange  \* requests with the answers the server's handler gives

VARIABLES scen,  \* the scenario
          c, s,  \* the two ends
          up,    \* octets from client to server not yet read
          down   \* octets from server to client not yet read

wireVars == <<scen, c, s, up, down>>

----------------------------------------------------------------------------
(* Data phase PDUs.                                                        *)

TAG_CONFIRMED_REQUEST == context_constructed(0)
TAG_CONFIRMED_RESPONSE == context_constructed(1)
SVC_READ == 4
SVC_WRITE == 5
SVC_GET_VARIABLE_ACCESS == 6
RESOURCE == 3

\* What a service carries: a value, the path of a partial read, or a type.
Item(service, v) == [service |-> service, v |-> v]

request_content(item) ==
  CASE item.service = SVC_READ -> alternate_access_element(item.v)
    [] item.service = SVC_WRITE -> encode_data(item.v)
    [] OTHER -> <<>>

\* What the receiver of the request makes of it.  The path is read with the
\* decoder of altaccess.rs, which the client has for the members of a list: the
\* server of this crate does not select by a path.
request_item(req) ==
  CASE req.service = SVC_READ -> parse_alternate_access(req.content)
    [] req.service = SVC_WRITE -> decode_data(req.content)
    [] OTHER -> Ok(<<>>)

\* The request with the invoke identifier as the client numbers it.
invoke(id, item) ==
  encode(cons(TAG_CONFIRMED_REQUEST,
              <<uint_elem(TAG_INTEGER, id),
                raw_content(context_constructed(item.service), request_content(item))>>))

parse_confirmed_request(content) ==
  Then(expect(content, TAG_INTEGER), LAMBDA id :
    Then(decode_uint(id.content), LAMBDA n :
      Then(read_tlv(id.rest), LAMBDA svc :
        [ok |-> TRUE, id |-> n.v, service |-> svc.tag.number, content |-> svc.content])))

\* The exchange of the request with an invoke identifier.
call(id) == Exchange[scen.calls[id]]

IsError(answer) == "kind" \in DOMAIN answer

\* An answer that would exceed the negotiated size is a resource error.
send_response_any(id, answer, max_pdu) ==
  IF IsError(answer) THEN encode_error_pdu(id, answer)
  ELSE encode(cons(TAG_CONFIRMED_RESPONSE,
             <<uint_elem(TAG_INTEGER, id),
               raw_content(context_constructed(answer.service),
                           IF answer.service = SVC_GET_VARIABLE_ACCESS THEN encode(ber(answer.v)[1])
                           ELSE encode_data(answer.v))>>))

send_response(id, answer, max_pdu) ==
  With(send_response_any(id, answer, max_pdu), LAMBDA out :
    IF ~IsError(answer) /\ max_pdu > 0 /\ Len(out) > max_pdu
    THEN encode_error_pdu(id, Service(RESOURCE, 0, FALSE))
    ELSE out)

\* The outcome the client's reader delivers, and to which request.
dispatch(pdu) ==
  LET delivered(id, res) == [ok |-> TRUE, id |-> id, res |-> res]
      content(svc) == IF svc.tag.number = SVC_GET_VARIABLE_ACCESS THEN decode_type_spec(svc.content)
                      ELSE decode_access_result(svc.content)
      response(inv) ==
        Then(read_tlv(inv.rest), LAMBDA svc :
          Then(content(svc), LAMBDA v : delivered(inv.id, Item(svc.tag.number, v.v))))
  IN  Then(read_tlv(pdu), LAMBDA got :
        CASE got.tag = TAG_CONFIRMED_RESPONSE -> Then(split_invoke(got.content), response)
          [] got.tag = TAG_CONFIRMED_ERROR ->
               Then(split_invoke(got.content), LAMBDA inv :
                 delivered(inv.id, decode_service_error(inv.rest)))
          [] got.tag = TAG_REJECT_PDU ->
               Then(deliver_reject(got.content), LAMBDA r : delivered(r.id, r.err))
          [] OTHER -> Err)

----------------------------------------------------------------------------
(* The two ends.  out is what an end has still to write, buf the TPDUs of  *)
(* an unfinished TSDU, got what its application was handed, done how the   *)
(* association or its setup ended.                                         *)

End == [pc |-> "start", out |-> <<>>, buf |-> <<>>, max_tpdu |-> 0, got |-> <<>>,
        next |-> 1, done |-> "no", diag |-> 0, mms |-> 0, acse |-> 0, max_pdu |-> 0,
        terms |-> <<>>, peer |-> <<>>]

WireInit ==
  /\ scen \in Scenario
  /\ c = End /\ s = End
  /\ up = <<>> /\ down = <<>>

\* The packets of a TSDU, or of a single TPDU.
packets(tpdus) == [i \in DOMAIN tpdus |-> write_packet(tpdus[i]).v]

Over(e) == e.pc = "over"

\* The end drops its stream: what it had not written is lost.
Drop(e, how) == [e EXCEPT !.pc = "over", !.out = <<>>, !.buf = <<>>, !.done = how]

\* What follows a reading, or the end of a stream that cannot be read.
OrDrop(e, got, next(_)) == IF got.ok THEN next(got) ELSE Drop(e, "failed")

\* One write of an end; the last packet of a refusal or an abort ends it.
Write(e) ==
  LET last == Len(e.out) = 1
  IN  IF last /\ e.pc = "refused" THEN Drop(e, "refused")
      ELSE IF last /\ e.pc = "aborting" THEN Drop(e, "aborted")
      ELSE [e EXCEPT !.out = Tail(@)]

ClientWrites ==
  /\ c.out # <<>>
  /\ up' = up \o Head(c.out) /\ c' = Write(c)
  /\ UNCHANGED <<scen, s, down>>

ServerWrites ==
  /\ s.out # <<>>
  /\ down' = down \o Head(s.out) /\ s' = Write(s)
  /\ UNCHANGED <<scen, c, up>>

\* The handshake waits for its own writes; the data phase reads meanwhile.
Reading(e) == ~Over(e) /\ (e.pc = "open" \/ e.out = <<>>) /\ e.pc \notin {"refused", "aborting"}

----------------------------------------------------------------------------
(* The client's handshake.                                                 *)

connect ==
  /\ c.pc = "start"
  /\ c' = [c EXCEPT !.pc = "cr", !.max_tpdu = 2^scen.size_code,
             !.out = packets(<<send_cr(scen.size_code, DEFAULT_TSAP, DEFAULT_TSAP)>>)]
  /\ UNCHANGED <<scen, s, up, down>>

\* The identifier the proposer gave an abstract syntax in the basic encoding.
id_of(oid) ==
  LET at == {i \in DOMAIN scen.contexts : scen.contexts[i].abstract_syntax = oid
                                           /\ scen.contexts[i].transfer_syntax = oid_ber}
  IN  IF at = {} THEN 0 ELSE scen.contexts[Min(at)].id

aarq == aarq_for(encode_initiate(TAG_INITIATE_REQUEST, scen.init), scen.password,
                 scen.called, scen.calling, scen.app_ctx)

connect_client ==
  build_connect(SI_CONNECT, <<>>, scen.ssel,
                build_cp(DEFAULT_PSEL, scen.psel, scen.contexts, aarq))

\* The CC arrived: the CONNECT goes out.
ClientConfirmed(tpdu) ==
  OrDrop(c, recv_cc(tpdu, c.max_tpdu), LAMBDA cc :
    [c EXCEPT !.pc = "connect", !.max_tpdu = cc.max_tpdu,
       !.out = packets(send(connect_client, cc.max_tpdu))])

\* A refusal carries the AARE that says why.
rejected(ud) ==
  OrDrop(c, parse_cpr_user_data(ud), LAMBDA inner :
    OrDrop(c, parse_aare(inner.content), LAMBDA aare :
      IF aare.accepted THEN Drop(c, "failed")
      ELSE [Drop(c, "rejected") EXCEPT !.diag = aare.diagnostic]))

accepted(ud) ==
  OrDrop(c, parse_cp_user_data(ud), LAMBDA inner :
    OrDrop(c, parse_aare(inner.content), LAMBDA aare :
      IF ~aare.accepted THEN [Drop(c, "rejected") EXCEPT !.diag = aare.diagnostic]
      ELSE OrDrop(c, parse_initiate_response(aare.user_data), LAMBDA resp :
             [c EXCEPT !.pc = "open", !.buf = <<>>, !.terms = <<resp.v>>,
                !.peer = <<aare.responding>>, !.mms = id_of(oid_mms), !.acse = id_of(oid_acse)])))

\* The answer to the CONNECT is complete.
ClientAnswered(spdu_octets) ==
  With(connect_answer(spdu_octets), LAMBDA ans :
    CASE ans.is = "bad" -> Drop(c, "failed")
      [] ans.is = "refused" -> rejected(ans.user_data)
      [] OTHER -> accepted(ans.user_data))

\* Who the peer's abort says it comes from.
abort_cause(ud) ==
  With(Then(unwrap_abort(ud), LAMBDA aru : parse_abrt(aru.content)), LAMBDA src :
    IF src.ok /\ src.v = ABORT_SOURCE_PROVIDER THEN "aborted by provider" ELSE "aborted by peer")

\* One whole MMS PDU, or the peer's abort, in the open association.
recv_mms(e, tsdu, take(_, _)) ==
  With(receive_data(tsdu), LAMBDA data :
    CASE data.is = "bad" -> Drop(e, "failed")
      [] data.is = "aborted" -> Drop(e, abort_cause(data.user_data))
      [] OTHER -> OrDrop(e, unwrap_data(data.user_data), LAMBDA pdv : take(pdv.id, pdv.content)))

\* What the reader delivers, with the context identifier it arrived under.
ClientTakes(id, pdu) ==
  [c EXCEPT !.buf = <<>>, !.got = Append(@, [context |-> id, pdu |-> dispatch(pdu)])]

\* A TPDU of the TSDU being received; whole(tsdu) when it ends it.
Receiving(e, tpdu, whole(_)) ==
  OrDrop(e, receive(e.buf, tpdu), LAMBDA r :
    IF r.last THEN whole(r.buf) ELSE [e EXCEPT !.buf = r.buf])

ClientMms(tsdu) == recv_mms(c, tsdu, ClientTakes)

ClientReads ==
  /\ Reading(c) /\ c.pc # "start"
  /\ \E p \in {read_packet(down)} :
       /\ ~p.ok => (~p.wait \/ Over(s))
       /\ IF ~p.ok THEN c' = Drop(c, "failed") /\ UNCHANGED down
          ELSE /\ down' = p.rest
               /\ c' = CASE c.pc = "cr" -> ClientConfirmed(p.payload)
                         [] c.pc = "connect" -> Receiving(c, p.payload, ClientAnswered)
                         [] OTHER -> Receiving(c, p.payload, ClientMms)
  /\ UNCHANGED <<scen, s, up>>

\* dial's timeout drops the handshake wherever it waits.
dial_timeout ==
  /\ scen.times_out /\ c.pc \in {"cr", "connect"}
  /\ c' = Drop(c, "timeout")
  /\ UNCHANGED <<scen, s, up, down>>

\* The next request, once the writer is free.
ClientRequests ==
  /\ c.pc = "open" /\ c.out = <<>> /\ c.next <= Len(scen.calls)
  /\ c' = [c EXCEPT !.next = @ + 1,
             !.out = packets(send(send_data(wrap_data(c.mms,
                        invoke(c.next, call(c.next).ask))), c.max_tpdu))]
  /\ UNCHANGED <<scen, s, up, down>>

----------------------------------------------------------------------------
(* The server's side of the handshake.                                     *)

accept(tpdu) ==
  OrDrop(s, accept_cr(tpdu), LAMBDA cr :
    [s EXCEPT !.pc = "cc", !.max_tpdu = cr.max_tpdu, !.out = packets(<<send_cc(cr)>>)])

\* The application's authenticator: the diagnostic it refuses with, or 0.
authenticate(password) ==
  IF scen.secret = <<>> \/ password = <<scen.secret>> THEN 0
  ELSE IF password = <<>> THEN DIAG_AUTHENTICATION_REQUIRED ELSE DIAG_AUTHENTICATION_FAILURE

responding_psel(cp) == IF cp.called_psel = <<>> THEN DEFAULT_PSEL ELSE cp.called_psel

\* The REFUSE with the rejecting AARE; the stream is dropped after it.
reject(cp, areq, diag) ==
  [s EXCEPT !.pc = "refused", !.diag = diag, !.buf = <<>>,
     !.out = packets(send(refuse(build_cpr(responding_psel(cp), cp.contexts,
                            aare_reject_for(areq.application_context, diag))), s.max_tpdu))]

\* The association opened: the answer goes out and the data phase begins.
established(cp, areq, proposed, called_ssel) ==
  LET aare(answer, neg) == aare_for(encode_initiate(TAG_INITIATE_RESPONSE, answer), scen.responding,
                                    areq.application_context, neg.mms)
      cpa(answer, neg) == build_cpa(responding_psel(cp), cp.contexts, aare(answer, neg))
      open(answer, neg) ==
        [s EXCEPT !.pc = "open", !.buf = <<>>, !.mms = neg.mms, !.acse = neg.acse,
           !.max_pdu = IF answer.local_detail < 0 THEN 0 ELSE answer.local_detail,
           !.terms = <<proposed>>, !.peer = <<areq>>,
           !.out = packets(send(build_connect(SI_ACCEPT, <<>>, called_ssel, cpa(answer, neg)), s.max_tpdu))]
  IN  With(negotiate(cp.contexts), LAMBDA neg :
        IF neg.mms = 0 THEN Drop(s, "failed") ELSE open(clamp_initiate(scen.want, proposed), neg))

accept_conn_opts(tsdu) ==
  OrDrop(s, accept_server(tsdu), LAMBDA res :
    OrDrop(s, parse_cp(res.user_data), LAMBDA cp :
      OrDrop(s, parse_aarq(cp.user_data), LAMBDA areq :
        IF authenticate(areq.password) # 0 THEN reject(cp, areq, authenticate(areq.password))
        ELSE OrDrop(s, parse_initiate_request(areq.user_data), LAMBDA proposed :
               established(cp, areq, proposed.v, res.called_ssel)))))

\* A request is handed to the handler, whose answer the scenario gives.
ServerTakes(id, pdu) ==
  With(Then(expect(pdu, TAG_CONFIRMED_REQUEST), LAMBDA got :
         Then(parse_confirmed_request(got.content), LAMBDA req :
           Then(request_item(req), LAMBDA item :
             [ok |-> TRUE, id |-> req.id, res |-> Item(req.service, item.v)]))), LAMBDA read :
    [s EXCEPT !.buf = <<>>, !.got = Append(@, [context |-> id, pdu |-> read])])

ServerMms(tsdu) == recv_mms(s, tsdu, ServerTakes)

ServerReads ==
  /\ Reading(s)
  /\ \E p \in {read_packet(up)} :
       /\ ~p.ok => (~p.wait \/ Over(c))
       /\ IF ~p.ok THEN s' = Drop(s, "failed") /\ UNCHANGED up
          ELSE /\ up' = p.rest
               /\ s' = CASE s.pc = "start" -> accept(p.payload)
                         [] s.pc = "cc" -> Receiving(s, p.payload, accept_conn_opts)
                         [] OTHER -> Receiving(s, p.payload, ServerMms)
  /\ UNCHANGED <<scen, c, down>>

\* The answer to the oldest request not answered yet.
ServerAnswers ==
  /\ s.pc = "open" /\ s.out = <<>> /\ s.next <= Len(s.got) /\ s.got[s.next].pdu.ok
  /\ LET id == s.got[s.next].pdu.id
     IN  s' = [s EXCEPT !.next = @ + 1,
                 !.out = packets(send(send_data(wrap_data(s.mms,
                            send_response(id, call(id).answer, s.max_pdu))), s.max_tpdu))]
  /\ UNCHANGED <<scen, c, up, down>>

send_abort ==
  /\ scen.aborts /\ s.pc = "open" /\ s.out = <<>>
  /\ s' = [s EXCEPT !.pc = "aborting",
             !.out = packets(send(session_abort(wrap_abort(s.acse, abrt(ABORT_SOURCE_USER))),
                                  s.max_tpdu))]
  /\ UNCHANGED <<scen, c, up, down>>

WireNext ==
  \/ connect \/ ClientWrites \/ ClientReads \/ dial_timeout \/ ClientRequests
  \/ ServerWrites \/ ServerReads \/ ServerAnswers \/ send_abort

WireSpec == WireInit /\ [][WireNext]_wireVars

----------------------------------------------------------------------------
(* Properties.                                                             *)

PcOf == {"start", "cr", "connect", "cc", "open", "refused", "aborting", "over"}

\* Each end's program counter and outcome are ones the code has, the packets it
\* holds are packets of the framing, and the streams are octets.
WireTypeOK ==
  /\ scen \in Scenario
  /\ \A e \in {c, s} :
       /\ e.pc \in PcOf /\ e.next \in 1..(Len(scen.calls) + 1)
       /\ e.done \in {"no", "failed", "rejected", "refused", "timeout", "aborted",
                      "aborted by peer", "aborted by provider"}
       /\ \A i \in DOMAIN e.out : read_packet(e.out[i]).ok
  /\ \A st \in {up, down} : \A i \in DOMAIN st : st[i] \in Octet

\* What the client is to be told for a request: its answer, the service error
\* that stands for an access error, or a resource error when it cannot be sent.
Outcome(id) ==
  LET answer == call(id).answer
      choice == error_class_choice(answer)
  IN  IF ~IsError(answer)
      THEN IF s.max_pdu > 0 /\ Len(send_response_any(id, answer, 0)) > s.max_pdu
           THEN Service(RESOURCE, 0, FALSE) ELSE answer
      ELSE IF answer.kind = "service" /\ answer.rejected THEN answer
      ELSE Service(choice[1], choice[2], FALSE)

\* Every request reaches the server's handler, and every answer the caller it is
\* for, exactly as given and in the order sent: through the value, type and
\* alternate access codecs, the presentation and session wrapping, segmentation
\* and framing.  Each arrives under the context identifier the client proposed,
\* and nothing that arrives fails to decode.
DeliveredIntact ==
  /\ \A i \in DOMAIN s.got :
       s.got[i] = [context |-> id_of(oid_mms),
                   pdu |-> [ok |-> TRUE, id |-> i, res |-> call(i).ask]]
  /\ \A i \in DOMAIN c.got :
       c.got[i] = [context |-> id_of(oid_mms),
                   pdu |-> [ok |-> TRUE, id |-> i, res |-> Outcome(i)]]

\* An open client and the server hold the same association: the transport size,
\* the identities, the password and the application context each side gave, the
\* Initiate the client proposed, and an answer within both sides' limits whose
\* PDU size is the one the server holds itself to.
PeersAgree ==
  c.pc = "open" =>
    LET t == c.terms[1]
        limits == {"local_detail", "max_serv_outstanding_calling",
                   "max_serv_outstanding_called", "nesting_level"}
        first(r, f) == IF f \in {"local_detail", "nesting_level"} \/ r[f] # 0 THEN r[f]
                       ELSE r.max_serv_outstanding
        cbb(r) == IF r.parameter_cbb_raw = <<>> THEN parameter_cbb
                  ELSE decode_bit_string(r.parameter_cbb_raw[1]).v
        got == s.peer[1]
    IN  /\ s.peer # <<>>
        /\ c.max_tpdu = s.max_tpdu /\ s.mms = id_of(oid_mms) /\ s.acse = id_of(oid_acse)
        /\ c.peer = <<scen.responding>>
        /\ got.calling = scen.calling /\ got.called = scen.called
        /\ got.password = (IF scen.password = <<>> THEN <<>> ELSE <<scen.password>>)
        /\ got.application_context = <<scen.app_ctx>>
        /\ t.local_detail = s.max_pdu
        /\ \A f \in limits : t[f] <= first(scen.init, f)
             /\ (first(scen.want, f) > 0 => t[f] <= first(scen.want, f))
        /\ \A i \in 0..(PARAMETER_CBB_BITS - 1) :
             bit(cbb(t), i) => (bit(cbb(scen.init), i) \/ scen.want.parameter_cbb_raw # <<>>)
        /\ t.services = scen.want.services

\* A client the server refused is never open, and unless its dial timed out
\* first it is told the diagnostic the server refused with; a client is only
\* told so when the server did refuse it.
RefusalIsTold ==
  LET refused == s.pc = "refused" \/ s.done = "refused"
  IN  /\ refused => (c.pc # "open" /\ c.done \in {"no", "rejected", "timeout"})
      /\ c.done = "rejected" => (refused /\ c.diag = s.diag)

\* Neither end fails for a reason of the protocol's: the server only when the
\* client is gone or proposed no MMS context it can serve, the client only in
\* that second case.
FailsWithCause ==
  /\ s.done = "failed" => (Over(c) \/ negotiate(scen.contexts).mms = 0)
  /\ c.done = "failed" => negotiate(scen.contexts).mms = 0

\* How the setting up of an association ends: agreed at both ends, refused with
\* the reason told, or failed for a reason the scenario has.
SetupAgrees == PeersAgree /\ RefusalIsTold /\ FailsWithCause
=============================================================================
