------------------------------- MODULE MCKeys -------------------------------
(***************************************************************************)
(* Small instances of GroupKeys: two members, a rotation from one key to   *)
(* the next, two sending threads, and one member whose requests may be     *)
(* repeated beside one that competes for the server's responders.  Beside  *)
(* them Wire, the octets of an association, with its scenarios: what the   *)
(* client and the server propose, and the values, types, paths and errors  *)
(* that cross the association.  They sit at the octet boundaries of the    *)
(* encodings: the sign octet and the pad octet, the first long form of a   *)
(* length, the padding of a bit string.                                    *)
(***************************************************************************)
EXTENDS GroupKeys, Wire

Bytes(n) == [i \in 1..n |-> (i * 7) % 256]
BitsOn(n, on) == FoldLeft(LAMBDA bs, i : set_bit(bs, i, TRUE), BitString(n), on)
Services == append_bit_string(BitsOn(9, <<1, 8>>))

Read(x) == Item(SVC_READ, x)

Each(t, vs) == [i \in DOMAIN vs |-> Value(t, vs[i])]

Scalars ==
  Each("Integer", <<0, 127, 128, 255, 256, -1, -128, -129, 32767, 32768, -32769, 8388607>>)
  \o Each("Unsigned", <<0, 127, 128, 255, 256, 32768, 65535, 65536, 8388608, 16777215>>)
  \o Each("Boolean", <<TRUE, FALSE>>)
  \o Each("BitString", <<BitString(0), BitsOn(1, <<0>>), BitsOn(7, <<6>>), BitsOn(8, <<7>>), BitsOn(9, <<8>>)>>)
  \o <<Value("Float32", Bytes(4)), Value("Float64", Bytes(8)), Value("OctetString", <<>>),
       Value("OctetString", Bytes(127)), Value("VisibleString", Bytes(128)),
       Value("MmsString", <<65>>), Value("BinaryTime", Bytes(4)), Value("BinaryTime", Bytes(6)),
       Value("UtcTime", Bytes(8)), Value("GeneralizedTime", Bytes(2)),
       Value("DataAccessError", 10)>>

Nested ==
  <<Value("Structure", <<>>),
    Value("Array", <<Value("Boolean", TRUE), Value("Boolean", FALSE)>>),
    \* The contents are 127 and 128 octets long.
    Value("Structure", <<Value("OctetString", Bytes(125))>>),
    Value("Structure", <<Value("OctetString", Bytes(122)), Value("Integer", -129)>>),
    Value("Structure", <<Value("Array", <<Value("Structure", <<Value("Unsigned", 128)>>)>>)>>)>>

\* A, A$B and an index into an array.
Paths == <<<<Component(<<65>>)>>, <<Index(0)>>, <<Component(<<65>>), Component(<<66>>)>>,
           <<Index(128), Component(<<66>>)>>, <<Component(<<65>>), Index(255), Component(<<66>>)>>>>

Leaf(n) == [name |-> <<n>>, spec |-> sized("Integer", 32)]

Types ==
  <<scalar("Boolean"), scalar("Float32"), scalar("Float64"), scalar("GeneralizedTime"),
    scalar("BinaryTime"), scalar("UtcTime"), sized("Integer", 8), sized("Unsigned", 128),
    sized("BitString", -13), sized("OctetString", 64), sized("VisibleString", -255),
    sized("MmsString", 129), array(0, scalar("Boolean")), array(128, scalar("Boolean")),
    structure(<<>>), structure(<<Leaf(65), Leaf(66)>>),
    array(3, structure(<<Leaf(65), [name |-> <<66>>, spec |-> array(2, scalar("UtcTime"))]>>))>>

Errors ==
  <<Access("ObjectNonExistent"), Access("ObjectAccessDenied"), Access("ObjectAccessUnsupported"),
    Access("TypeInconsistent"), Service(3, 0, FALSE), Service(12, 200, FALSE),
    Service(0, 3, FALSE), Service(1, 6, TRUE)>>

Asked(ask, told) == [ask |-> ask, answer |-> told]

\* One exchange per value, path, type and error; the last answer is too large
\* for the PDU size proposed in Init0.
MCExchange ==
  LET values == Scalars \o Nested
  IN  [i \in DOMAIN values |-> Asked(Item(SVC_WRITE, values[i]), Read(values[i]))]
      \o [i \in DOMAIN Paths |-> Asked(Read(Paths[i]), Read(Value("Boolean", TRUE)))]
      \o [i \in DOMAIN Types |-> Asked(Item(SVC_GET_VARIABLE_ACCESS, <<>>),
                                       Item(SVC_GET_VARIABLE_ACCESS, Types[i]))]
      \o [i \in DOMAIN Errors |-> Asked(Read(<<Index(1)>>), Errors[i])]
      \o <<Asked(Read(<<Index(2)>>), Read(Value("OctetString", Bytes(290))))>>

Init0 == InitiateRequest(300, 10, 5, Services)
Want == InitiateRequest(MMS_MAX, 5, 10, append_bit_string(BitsOn(11, <<0, 10>>)))

Plain ==
  [size_code |-> 7, contexts |-> OwnContexts, app_ctx |-> oid_mms_context,
   called |-> NoIdentity, calling |-> NoIdentity, responding |-> NoIdentity,
   password |-> <<>>, secret |-> <<>>, ssel |-> <<>>, psel |-> DEFAULT_PSEL,
   init |-> Init0, want |-> Want, calls |-> <<>>, times_out |-> FALSE, aborts |-> FALSE]

\* Values through a segmented transport.
Codec == {[Plain EXCEPT !.calls = <<i>>] : i \in DOMAIN MCExchange}

Who == Identity(<<<<1, 3, 9999, 33>>>>, <<12>>, <<128>>, <<-5>>)
Whom == Identity(<<<<1, 1, 999, 1>>>>, <<>>, <<>>, <<32767>>)

ACSE(id) == Context(id, oid_acse, oid_ber)
MMS(id) == Context(id, oid_mms, oid_ber)

\* Two requests under way at once, the second answer too large to send.
Two == <<16, Len(MCExchange)>>

\* What the two ends may propose to each other.
Setup ==
  {[Plain EXCEPT !.size_code = z, !.contexts = ctx, !.app_ctx = a, !.calls = Two] :
     z \in {5, 7}, a \in {oid_mms_context, oid_acsi_context},
     ctx \in {OwnContexts, <<ACSE(1), MMS(5)>>, <<MMS(1), ACSE(3)>>,
              <<ACSE(1), Context(3, oid_mms, <<2, 1, 2>>), MMS(129)>>}}
  \cup {[Plain EXCEPT !.called = Whom, !.calling = Who, !.responding = Whom, !.calls = Two,
           !.ssel = <<0, 1>>, !.psel = <<>>]}
  \cup {[Plain EXCEPT !.init.max_serv_outstanding_called = 3, !.init.local_detail = d,
           !.init.parameter_cbb_raw = cbb, !.want.max_serv_outstanding_calling = 7,
           !.want.local_detail = w] :
          d \in {128, MMS_MAX}, w \in {0, 200},
          cbb \in {<<>>, <<append_bit_string(BitsOn(5, <<0, 2>>))>>}}

\* Setups that end early: refused, without a context, timed out, aborted.
Cut ==
  {[Plain EXCEPT !.password = p, !.secret = <<1>>, !.size_code = z, !.app_ctx = a,
      !.times_out = o] :
     p \in {<<>>, <<1>>, <<2, 3>>}, z \in {5, 7}, a \in {oid_mms_context, oid_acsi_context},
     o \in BOOLEAN}
  \cup {[Plain EXCEPT !.contexts = <<ACSE(1), Context(3, oid_mms, <<2, 1, 2>>)>>,
                      !.times_out = o] : o \in BOOLEAN}
  \cup {[Plain EXCEPT !.aborts = TRUE, !.calls = Two, !.times_out = o] : o \in BOOLEAN}

MCScenario == Codec \cup Setup \cup Cut

-----------------------------------------------------------------------------
(* The instance *)

MCAttempts == [m \in Member |-> IF m = "m1" THEN 2 ELSE 1]

MCStanding == [m \in Member |-> IF m = "m1" THEN {"ok", "proposal", "psk", "group"} ELSE {"ok"}]

\* A registration either competes with another member's for the server's one
\* responder, or is alone while the group's keys change or the server refuses it.
Contested == teks = MaxTeks /\ \A m \in Member : terms[m] = "ok" /\ mbr[m].try = 0
Changing  == teks = 1 /\ mbr["m1"].try = 0 /\ mbr["m2"].try = MaxTry

\* Which of the two moves; the other stays in an initial state.
VARIABLE layer

MCInit ==
  \/ /\ layer = "group"
     /\ Init /\ (part = "registration" => Contested \/ Changing)
     /\ scen = [calls |-> <<>>] /\ c = End /\ s = End /\ up = <<>> /\ down = <<>>
  \/ /\ layer = "octets"
     /\ part = "window" /\ size = 1 /\ Init
     /\ WireInit

MCNext ==
  \/ layer = "group" /\ Next /\ UNCHANGED <<layer, wireVars>>
  \/ layer = "octets" /\ WireNext /\ UNCHANGED <<layer, vars>>

MCSpec == MCInit /\ [][MCNext]_<<layer, vars, wireVars>>
=============================================================================
