------------------------------ MODULE MmsCodec ------------------------------
(***************************************************************************)
(* The MMS codecs of src/src/mms: data values (value_codec.rs), type       *)
(* specifications (typespec.rs), alternate access (altaccess.rs), the      *)
(* Initiate PDUs and their negotiation (pdu.rs, server_conn.rs) and the    *)
(* error and reject PDUs.                                                  *)
(*                                                                         *)
(* A value is a record [t, v]: t the variant of the source's Value, v its  *)
(* payload (a number, a Boolean, octets, a bit string or a sequence).      *)
(***************************************************************************)
EXTENDS Ber

CONSTANTS MAX_VALUE_DEPTH,     \* nesting of data and of types (32)
          MAX_ARRAY_ELEMENTS,  \* one declared array dimension (2^16)
          MAX_BIT_STRING_BITS, \* a declared bit string (2^16)
          MAX_DEFAULT_VALUES,  \* values a type may materialise (2^20)
          MMS_MAX              \* the PDU size proposed by default (65001)

Ok(v) == [ok |-> TRUE, v |-> v]

Value(t, v) == [t |-> t, v |-> v]

NoValue == Value("None", 0)

DataTag ==
  [Array |-> 1, Structure |-> 2, Boolean |-> 3, BitString |-> 4, Integer |-> 5,
   Unsigned |-> 6, Float32 |-> 7, Float64 |-> 7, OctetString |-> 9, VisibleString |-> 10,
   GeneralizedTime |-> 11, BinaryTime |-> 12, MmsString |-> 16, UtcTime |-> 17,
   DataAccessError |-> 0]

----------------------------------------------------------------------------
(* Data values.                                                            *)

\* The element of a value: <<>> for none, which a structure leaves out.
RECURSIVE data_element(_)
data_element(x) ==
  LET tag == context_primitive(DataTag[x.t])
  IN  CASE x.t = "None" -> <<>>
        [] x.t \in {"Array", "Structure"} ->
             <<cons(tag, FlattenSeq([i \in DOMAIN x.v |-> data_element(x.v[i])]))>>
        [] x.t = "Boolean" -> <<bool_elem(tag, x.v)>>
        [] x.t = "BitString" -> <<bit_string_elem(tag, x.v)>>
        [] x.t = "Integer" -> <<int_elem(tag, x.v)>>
        [] x.t \in {"Unsigned", "DataAccessError"} -> <<uint_elem(tag, x.v)>>
        [] x.t = "Float32" -> <<prim(tag, <<8>> \o x.v)>>
        [] x.t = "Float64" -> <<prim(tag, <<11>> \o x.v)>>
        [] OTHER -> <<prim(tag, x.v)>>

encode_data(x) == FlattenSeq([i \in DOMAIN data_element(x) |-> encode(data_element(x)[i])])

RECURSIVE decode_data_at(_, _), decode_data_tlv(_, _, _), decode_children(_, _)

decode_data_at(d, depth) ==
  IF depth > MAX_VALUE_DEPTH THEN Err
  ELSE Then(read_tlv(d), LAMBDA got :
         Then(decode_data_tlv(got.tag, got.content, depth), LAMBDA x :
           [ok |-> TRUE, v |-> x.v, rest |-> got.rest]))

\* A variant whose payload another reader decodes.
as(t, got) == IF got.ok THEN Ok(Value(t, got.v)) ELSE Err

decode_data_tlv(tag, content, depth) ==
  LET n == tag.number
  IN  IF tag.class # ContextSpecific THEN Err
      ELSE CASE n = 1 -> as("Array", decode_children(content, depth + 1))
             [] n = 2 -> as("Structure", decode_children(content, depth + 1))
             [] n = 3 -> as("Boolean", decode_bool(content))
             [] n = 4 -> as("BitString", decode_bit_string(content))
             [] n = 5 -> as("Integer", decode_int(content))
             [] n = 6 -> as("Unsigned", decode_uint(content))
             [] n = 7 /\ Len(content) = 5 -> Ok(Value("Float32", Tail(content)))
             [] n = 7 /\ Len(content) = 9 -> Ok(Value("Float64", Tail(content)))
             [] n = 9 -> Ok(Value("OctetString", content))
             [] n = 10 -> Ok(Value("VisibleString", content))
             [] n = 11 -> Ok(Value("GeneralizedTime", content))
             [] n = 12 /\ Len(content) \in {4, 6} -> Ok(Value("BinaryTime", content))
             [] n = 16 -> Ok(Value("MmsString", content))
             [] n = 17 /\ Len(content) = 8 -> Ok(Value("UtcTime", content))
             [] n = 0 /\ ~tag.constructed -> as("DataAccessError", decode_uint(content))
             [] OTHER -> Err

decode_children(d, depth) ==
  IF d = <<>> THEN Ok(<<>>)
  ELSE Then(decode_data_at(d, depth), LAMBDA first :
         Then(decode_children(first.rest, depth), LAMBDA others : Ok(<<first.v>> \o others.v)))

decode_data(d) == decode_data_at(d, 0)

decode_access_result(d) ==
  IF peek_is(d, context_primitive(0))
  THEN Then(read_tlv(d), LAMBDA got :
         Then(decode_uint(got.content), LAMBDA code :
           [ok |-> TRUE, v |-> Value("DataAccessError", code.v), rest |-> got.rest]))
  ELSE decode_data(d)

----------------------------------------------------------------------------
(* Type specifications: element and the kind are sequences of at most one. *)

TypeSpec(kind, n, elements, element, components) ==
  [kind |-> kind, size |-> n, elements |-> elements, element |-> element,
   components |-> components]
scalar(kind) == TypeSpec(<<kind>>, 0, 0, <<>>, <<>>)
sized(kind, n) == TypeSpec(<<kind>>, n, 0, <<>>, <<>>)
array(n, element) == TypeSpec(<<"Array">>, 0, n, <<element>>, <<>>)
structure(components) == TypeSpec(<<"Structure">>, 0, 0, <<>>, components)

Integral(width, exponent) == <<int_elem(TAG_INTEGER, width), int_elem(TAG_INTEGER, exponent)>>

RECURSIVE ber(_)
ber(ts) ==
  LET kind == ts.kind[1]
      tag == context_primitive(DataTag[kind])
  IN  IF ts.kind = <<>> THEN <<>>
      ELSE CASE kind = "Array" ->
                  <<cons(tag, <<uint_elem(context_primitive(1), ts.elements),
                       cons(context_constructed(2),
                            IF ts.element = <<>> THEN <<>> ELSE ber(ts.element[1]))>>)>>
             [] kind = "Structure" ->
                  <<cons(tag, <<cons(context_constructed(1),
                       [i \in DOMAIN ts.components |->
                          cons(TAG_SEQUENCE,
                               <<prim(context_primitive(0), ts.components[i].name),
                                 cons(context_constructed(1), ber(ts.components[i].spec))>>)])>>)>>
             [] kind \in {"Boolean", "GeneralizedTime", "UtcTime"} -> <<prim(tag, <<>>)>>
             [] kind \in {"Integer", "Unsigned"} -> <<uint_elem(tag, ts.size)>>
             [] kind = "Float32" -> <<cons(tag, Integral(32, 8))>>
             [] kind = "Float64" -> <<cons(tag, Integral(64, 11))>>
             [] kind = "BinaryTime" -> <<bool_elem(tag, TRUE)>>
             [] kind = "DataAccessError" -> <<>>
             [] OTHER -> <<int_elem(tag, ts.size)>>

\* The values default_value would create, saturating at the ceiling.
VALUE_CEILING == MAX_DEFAULT_VALUES + 1

RECURSIVE value_count(_)
value_count(ts) ==
  LET per == IF ts.element = <<>> THEN 0 ELSE value_count(ts.element[1])
  IN  CASE ts.kind = <<"Array">> ->
             IF per = 0 \/ ts.elements = 0 THEN 1
             ELSE IF ts.elements >= VALUE_CEILING \div per THEN VALUE_CEILING
             ELSE 1 + ts.elements * per
        [] ts.kind = <<"Structure">> ->
             FoldLeft(LAMBDA sum, c : Min({sum + value_count(c.spec), VALUE_CEILING}),
                      1, ts.components)
        [] OTHER -> 1

\* The value a type materialises as.
RECURSIVE default_value(_)
default_value(ts) ==
  LET kind == ts.kind[1]
  IN  IF ts.kind = <<>> THEN NoValue
      ELSE CASE kind = "Array" ->
                  Value(kind, [i \in 1..ts.elements |->
                     IF ts.element = <<>> THEN NoValue ELSE default_value(ts.element[1])])
             [] kind = "Structure" ->
                  Value(kind, [i \in DOMAIN ts.components |->
                                 default_value(ts.components[i].spec)])
             [] kind = "Boolean" -> Value(kind, FALSE)
             [] kind = "BitString" ->
                  Value(kind, BitString(IF ts.size < 0 THEN -ts.size ELSE ts.size))
             [] kind \in {"Integer", "Unsigned"} -> Value(kind, 0)
             [] kind = "Float32" -> Value(kind, <<0, 0, 0, 0>>)
             [] kind = "Float64" -> Value(kind, [i \in 1..8 |-> 0])
             [] kind = "BinaryTime" -> Value(kind, [i \in 1..6 |-> 0])
             [] kind = "UtcTime" -> Value(kind, [i \in 1..8 |-> 0])
             [] kind = "DataAccessError" -> NoValue
             [] OTHER -> Value(kind, <<>>)

RECURSIVE decode_type_spec_at(_, _), decode_components(_, _)

\* A kind with the size another reader decodes, cast to i32.
as_sized(kind, got) == IF got.ok THEN Ok(sized(kind, narrow(got.v))) ELSE Err

\* An array: a size and the type of its elements.
decode_array(d, depth) ==
  Then(expect(d, context_primitive(1)), LAMBDA count :
    Then(decode_uint(count.content), LAMBDA declared :
      Then(expect(count.rest, context_constructed(2)), LAMBDA of :
        Then(decode_type_spec_at(of.content, depth), LAMBDA element :
          IF declared.v > MAX_ARRAY_ELEMENTS THEN Err
          ELSE Ok(array(declared.v, element.v))))))

decode_type_spec_tlv(n, c, depth) ==
  CASE n \in {1, 2} ->
         Then(optional(c, context_primitive(0)), LAMBDA packed :
           IF n = 1 THEN decode_array(packed.rest, depth)
           ELSE Then(expect(packed.rest, context_constructed(1)), LAMBDA comps :
                  Then(decode_components(comps.content, depth), LAMBDA all : Ok(structure(all.v)))))
    [] n = 3 -> Ok(scalar("Boolean"))
    [] n = 4 -> Then(decode_int(c), LAMBDA bits :
                  IF bits.v \notin -MAX_BIT_STRING_BITS..MAX_BIT_STRING_BITS THEN Err
                  ELSE as_sized("BitString", bits))
    [] n = 5 -> as_sized("Integer", decode_uint(c))
    [] n = 6 -> as_sized("Unsigned", decode_uint(c))
    [] n = 7 -> Then(expect(c, TAG_INTEGER), LAMBDA width :
                  Then(decode_int(width.content), LAMBDA bits :
                    Ok(scalar(IF bits.v > 32 THEN "Float64" ELSE "Float32"))))
    [] n = 9 -> as_sized("OctetString", decode_int(c))
    [] n = 10 -> as_sized("VisibleString", decode_int(c))
    [] n = 11 -> Ok(scalar("GeneralizedTime"))
    [] n = 12 -> Ok(scalar("BinaryTime"))
    [] n = 16 -> as_sized("MmsString", decode_int(c))
    [] n = 17 -> Ok(scalar("UtcTime"))
    [] OTHER -> Err

decode_type_spec_at(d, depth) ==
  IF depth > MAX_VALUE_DEPTH THEN Err
  ELSE Then(read_tlv(d), LAMBDA got :
         IF got.tag.class # ContextSpecific THEN Err
         ELSE decode_type_spec_tlv(got.tag.number, got.content, depth + 1))

\* The components of a structure, each a SEQUENCE of a name and a type.
decode_components(d, depth) ==
  IF d = <<>> THEN Ok(<<>>)
  ELSE Then(expect(d, TAG_SEQUENCE), LAMBDA seq :
         Then(optional(seq.content, context_primitive(0)), LAMBDA name :
           Then(expect(name.rest, context_constructed(1)), LAMBDA of :
             Then(decode_type_spec_at(of.content, depth), LAMBDA spec :
               Then(decode_components(seq.rest, depth), LAMBDA others :
                 Ok(<<[name |-> IF name.content = <<>> THEN <<>> ELSE name.content[1],
                       spec |-> spec.v]>> \o others.v))))))

decode_type_spec(d) ==
  Then(decode_type_spec_at(d, 0), LAMBDA ts :
    IF value_count(ts.v) > MAX_DEFAULT_VALUES THEN Err ELSE ts)

----------------------------------------------------------------------------
(* Alternate access: a path of components and indexes.                     *)

Component(c) == [step |-> "component", at |-> c]
Index(i) == [step |-> "index", at |-> i]

Selected(s, component, index) ==
  IF s.step = "component" THEN prim(context_primitive(component), s.at)
  ELSE uint_elem(context_primitive(index), s.at)

RECURSIVE build(_)
build(steps) ==
  IF Len(steps) = 1 THEN Selected(steps[1], 1, 2)
  ELSE cons(context_constructed(0),
            <<Selected(steps[1], 0, 1), cons(TAG_SEQUENCE, <<build(Tail(steps))>>)>>)

alternate_access_element(steps) == IF steps = <<>> THEN <<>> ELSE encode(build(steps))

Dollar == 36

\* The names between the '$' octets of a component path.
RECURSIVE split(_)
split(c) ==
  LET at == {i \in DOMAIN c : c[i] = Dollar}
  IN  IF at = {} THEN <<c>>
      ELSE <<SubSeq(c, 1, Min(at) - 1)>> \o split(SubSeq(c, Min(at) + 1, Len(c)))

selection(num, constructed, c, offset) ==
  CASE num = offset /\ ~constructed ->
         Ok([i \in DOMAIN split(c) |-> Component(split(c)[i])])
    [] num = offset + 1 ->
         LET i == decode_uint(c) IN IF i.ok THEN Ok(<<Index(i.v)>>) ELSE Err
    [] OTHER -> Err

RECURSIVE parse_alternate_access(_)
parse_alternate_access(content) ==
  IF content = <<>> THEN Ok(<<>>)
  ELSE Then(read_tlv(content), LAMBDA got :
         IF got.rest # <<>> THEN Err
         ELSE IF got.tag = context_constructed(0)
              THEN Then(read_tlv(got.content), LAMBDA head :
                     Then(selection(head.tag.number, head.tag.constructed, head.content, 0), LAMBDA sel :
                       Then(expect(head.rest, TAG_SEQUENCE), LAMBDA rest :
                         Then(parse_alternate_access(rest.content), LAMBDA others :
                           Ok(sel.v \o others.v)))))
         ELSE IF got.tag.class = ContextSpecific /\ got.tag.number \in 1..4
              THEN selection(got.tag.number, got.tag.constructed, got.content, 1)
         ELSE Err)

\* The positions a path selects in a type, and the type it ends at.
RECURSIVE access_path(_, _)
access_path(spec, steps) ==
  LET s == steps[1]
      at == {i \in DOMAIN spec.components : spec.components[i].name = s.at}
      step(i, sub) == LET others == access_path(sub, Tail(steps))
                      IN  IF others.ok THEN [others EXCEPT !.path = <<i>> \o @] ELSE Err
  IN  IF steps = <<>> THEN [ok |-> TRUE, path |-> <<>>, spec |-> spec]
      ELSE IF s.step = "component"
           THEN IF spec.kind # <<"Structure">> THEN Err
                ELSE IF at = {} THEN Err
                ELSE step(Min(at) - 1, spec.components[Min(at)].spec)
           ELSE IF spec.kind # <<"Array">> \/ spec.element = <<>> THEN Err
                ELSE IF spec.elements > 0 /\ s.at >= spec.elements THEN Err
                ELSE step(s.at, spec.element[1])

----------------------------------------------------------------------------
(* Initiate.                                                               *)

TAG_INITIATE_REQUEST == context_constructed(8)
TAG_INITIATE_RESPONSE == context_constructed(9)

PARAMETER_CBB_BITS == 11

\* str1, str2, vnam, valt and vlis.
parameter_cbb ==
  FoldLeft(LAMBDA bs, i : set_bit(bs, i, TRUE), BitString(PARAMETER_CBB_BITS), <<0, 1, 2, 3, 7>>)

intersect_parameter_cbb(ours, proposed_raw) ==
  LET proposed == decode_bit_string(proposed_raw)
      both(bs, i) == set_bit(bs, i, bit(ours, i) /\ bit(proposed.v, i))
  IN  append_bit_string(IF ~proposed.ok THEN ours
                        ELSE FoldLeft(both, ours, [i \in 1..ours.length |-> i - 1]))

\* services holds the encoded bit string; cbb is <<>> or <<raw>>.
InitiateRequest(detail, outstanding, nesting, services) ==
  [local_detail |-> detail, max_serv_outstanding |-> outstanding, nesting_level |-> nesting,
   services |-> services, max_serv_outstanding_calling |-> 0,
   max_serv_outstanding_called |-> 0, parameter_cbb_raw |-> <<>>]

encode_initiate(tag, req) ==
  LET or_both(n) == IF n = 0 THEN req.max_serv_outstanding ELSE n
      cbb == IF req.parameter_cbb_raw # <<>>
             THEN prim(context_primitive(1), req.parameter_cbb_raw[1])
             ELSE bit_string_elem(context_primitive(1), parameter_cbb)
  IN  encode(cons(tag,
        <<int_elem(context_primitive(0), req.local_detail),
          int_elem(context_primitive(1), or_both(req.max_serv_outstanding_calling)),
          int_elem(context_primitive(2), or_both(req.max_serv_outstanding_called)),
          int_elem(context_primitive(3), req.nesting_level),
          cons(context_constructed(4),
               <<int_elem(context_primitive(0), 1), cbb,
                 prim(context_primitive(2), req.services)>>)>>))

\* The next integer, when it is there: 0 when it does not decode.
int_field(d, n) ==
  Then(optional(d, context_primitive(n)), LAMBDA got :
    [ok |-> TRUE, there |-> got.content # <<>>, rest |-> got.rest,
     v |-> IF got.content = <<>> THEN 0
           ELSE With(decode_int(got.content[1]), LAMBDA v : IF v.ok THEN narrow(v.v) ELSE 0)])

\* The smaller of the two limits, the other when one is missing.
outstanding(calling, called) ==
  IF called.there /\ (called.v < calling.v \/ calling.v = 0) THEN called.v ELSE calling.v

\* The last of the details of a tag, <<>> when there is none.
detail_of(details, n) ==
  LET of == {i \in DOMAIN details : details[i].tag = context_primitive(n)}
  IN  IF of = {} THEN <<>> ELSE <<details[Max(of)].content>>

initiate_fields(detail, calling, called, nesting, both, details) ==
  Ok([local_detail |-> IF detail.v = 0 THEN MMS_MAX ELSE detail.v,
      max_serv_outstanding |-> IF both = 0 THEN 1 ELSE both,
      max_serv_outstanding_calling |-> calling.v,
      max_serv_outstanding_called |-> called.v,
      nesting_level |-> nesting.v,
      services |-> FlattenSeq(detail_of(details, 2)),
      parameter_cbb_raw |-> detail_of(details, 1)])

parse_initiate_body(content) ==
  Then(int_field(content, 0), LAMBDA detail :
    Then(int_field(detail.rest, 1), LAMBDA calling :
      Then(int_field(calling.rest, 2), LAMBDA called :
        Then(int_field(called.rest, 3), LAMBDA nesting :
          Then(optional(nesting.rest, context_constructed(4)), LAMBDA more :
            initiate_fields(detail, calling, called, nesting, outstanding(calling, called),
                            IF more.content = <<>> THEN <<>> ELSE tlvs(more.content[1]).items))))))

parse_initiate_request(pdu) ==
  Then(expect(pdu, TAG_INITIATE_REQUEST), LAMBDA got : parse_initiate_body(got.content))

parse_initiate_response(pdu) ==
  Then(expect(pdu, TAG_INITIATE_RESPONSE), LAMBDA got : parse_initiate_body(got.content))

\* The answer exceeds nothing the client proposed.
clamp(ours, theirs) == IF theirs > 0 /\ (ours = 0 \/ ours > theirs) THEN theirs ELSE ours

\* The limits answered as wanted, whatever was proposed.
clamp_nothing(want, proposed) ==
  [want EXCEPT !.local_detail = clamp(@, proposed.local_detail)]

clamp_initiate(want, proposed) ==
  LET or_both(n) == IF n = 0 THEN want.max_serv_outstanding ELSE n
  IN  [want EXCEPT
         !.parameter_cbb_raw = IF @ = <<>> /\ proposed.parameter_cbb_raw # <<>>
              THEN <<intersect_parameter_cbb(parameter_cbb, proposed.parameter_cbb_raw[1])>>
              ELSE @,
         !.max_serv_outstanding_calling =
              clamp(or_both(@), proposed.max_serv_outstanding_calling),
         !.max_serv_outstanding_called =
              clamp(or_both(@), proposed.max_serv_outstanding_called),
         !.local_detail = clamp(@, proposed.local_detail),
         !.max_serv_outstanding = clamp(@, proposed.max_serv_outstanding),
         !.nesting_level = clamp(@, proposed.nesting_level)]

----------------------------------------------------------------------------
(* Error and reject PDUs.                                                  *)

TAG_CONFIRMED_ERROR == context_constructed(2)
TAG_REJECT_PDU == context_constructed(4)

\* An error of the server: an access error by name, or class and code.
Access(e) == [kind |-> "access", e |-> e]
Service(class, code, rejected) ==
  [kind |-> "service", class |-> class, code |-> code, rejected |-> rejected]

error_class_choice(err) ==
  CASE err.kind = "access" ->
         <<7, CASE err.e = "ObjectAccessUnsupported" -> 1
                [] err.e = "ObjectAccessDenied" -> 3
                [] OTHER -> 2>>
    [] err.kind = "service" /\ err.class # 0 -> <<err.class, err.code>>
    [] OTHER -> <<4, 0>>

encode_error_pdu(id, err) ==
  LET choice == error_class_choice(err)
  IN  IF err.kind = "service" /\ err.rejected
      THEN encode(cons(TAG_REJECT_PDU,
             <<uint_elem(context_primitive(0), id),
               int_elem(context_primitive(err.class), err.code)>>))
      ELSE encode(cons(TAG_CONFIRMED_ERROR,
             <<prim(context_primitive(0), append_uint(id)),
               cons(context_constructed(2),
                    <<cons(context_constructed(0),
                           <<int_elem(context_primitive(choice[1]), choice[2])>>)>>)>>))

split_invoke(content) ==
  Then(read_tlv(content), LAMBDA got :
    IF got.tag \notin {TAG_INTEGER, context_primitive(0)} THEN Err
    ELSE Then(decode_uint(got.content), LAMBDA id : [ok |-> TRUE, id |-> id.v, rest |-> got.rest]))

\* A code cast to an octet; 0 when it does not decode.
octet_of(got) == IF got.ok THEN got.v % 256 ELSE 0

\* The innermost primitive element: its tag is the class, its content the code.
RECURSIVE drill_error_class(_, _)
drill_error_class(body, depth) ==
  IF depth > 8 \/ body = <<>> THEN <<>>
  ELSE With(read_tlv(body), LAMBDA got :
         IF ~got.ok THEN <<>>
         ELSE IF got.tag.class # ContextSpecific THEN drill_error_class(got.rest, depth)
         ELSE IF got.tag.constructed
              THEN With(drill_error_class(got.content, depth + 1), LAMBDA inside :
                     IF inside # <<>> THEN inside ELSE drill_error_class(got.rest, depth))
         ELSE <<got.tag.number, octet_of(decode_int(got.content))>>)

decode_service_error(body) ==
  With(drill_error_class(body, 0), LAMBDA found :
    IF found = <<>> THEN Service(0, 0, FALSE) ELSE Service(found[1], found[2], FALSE))

\* The invoke identifier a reject names and the error it delivers.
deliver_reject(content) ==
  Then(optional(content, context_primitive(0)), LAMBDA at :
    [ok |-> TRUE,
     id |-> IF at.content = <<>> THEN 0
            ELSE With(decode_uint(at.content[1]), LAMBDA id : IF id.ok THEN id.v ELSE 0),
     err |-> With(read_tlv(at.rest), LAMBDA reason :
               IF reason.ok THEN Service(reason.tag.number, octet_of(decode_int(reason.content)), TRUE)
               ELSE Service(0, 0, TRUE))])
=============================================================================
