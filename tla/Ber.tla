-------------------------------- MODULE Ber --------------------------------
(***************************************************************************)
(* The BER runtime of src/src/asn1: tags, lengths, primitive values, the   *)
(* element builders and the decoder.  Octets are numbers in 0..255 and an  *)
(* encoding is a sequence of them, because the hazards of this layer are   *)
(* at octet boundaries: the length forms, the sign octet, the pad octet of *)
(* an unsigned value, the padding bits of a bit string.                    *)
(*                                                                         *)
(* A decoder is the sequence of octets still to be read; every reader      *)
(* returns a record whose field "ok" says whether it succeeded.            *)
(***************************************************************************)
EXTENDS Integers, SequencesExt, FiniteSetsExt

CONSTANTS IntOctets,    \* octets of the i64/u64 the values are decoded into (8)
          NarrowOctets, \* octets of the i32 some of them are cast to (4)
          MAX_DEPTH     \* nesting the decoder follows (64)

Octet == 0..255

Err == [ok |-> FALSE]

Universal == 0
Application == 1
ContextSpecific == 2

Tag(class, constructed, number) ==
  [class |-> class, constructed |-> constructed, number |-> number]

context_primitive(n) == Tag(ContextSpecific, FALSE, n)
context_constructed(n) == Tag(ContextSpecific, TRUE, n)
application_constructed(n) == Tag(Application, TRUE, n)

TAG_INTEGER == Tag(Universal, FALSE, 2)
TAG_OID == Tag(Universal, FALSE, 6)
TAG_SEQUENCE == Tag(Universal, TRUE, 16)
TAG_SET == Tag(Universal, TRUE, 17)

----------------------------------------------------------------------------
(* Octets of numbers.                                                      *)

\* The k low octets of v, most significant first.  \div rounds down, so this
\* is the arithmetic shift of the source for negative v too.
Octets(v, k) == [i \in 1..k |-> (v \div 256^(k - i)) % 256]

be(bytes) == FoldLeft(LAMBDA v, b : v * 256 + b, 0, bytes)

\* A cast to the narrow signed integer.
narrow(v) == LET m == 256^NarrowOctets
             IN  ((v + (m \div 2)) % m) - (m \div 2)

\* The digits of n in base 128, the continuation bit set on each.
RECURSIVE Continued(_)
Continued(n) == IF n = 0 THEN <<>> ELSE Append(Continued(n \div 128), 128 + (n % 128))

append_base128(n) == Append(Continued(n \div 128), n % 128)

----------------------------------------------------------------------------
(* Tags and lengths.                                                       *)

append_tag(t) ==
  LET b == t.class * 64 + (IF t.constructed THEN 32 ELSE 0)
  IN  IF t.number < 31 THEN <<b + t.number>>
      ELSE <<b + 31>> \o append_base128(t.number)

append_length(n) ==
  IF n < 128 THEN <<n>>
  ELSE LET k == Min({j \in 1..4 : j = 4 \/ n < 256^j}) IN <<128 + k>> \o Octets(n, k)

tag_size(t) ==
  IF t.number < 31 THEN 1 ELSE Min({j \in 2..5 : j = 5 \/ t.number < 128^(j - 1)})

length_size(n) ==
  IF n < 128 THEN 1 ELSE 1 + Min({j \in 1..4 : j = 4 \/ n < 256^j})

\* What the source writes with "?": the rest of a reading, unless it failed.
Then(got, next(_)) == IF got.ok THEN next(got) ELSE Err

\* A value worked out once and used in what follows.
With(v, next(_)) == next(v)

\* The tag at the head of d, and what follows it.
read_tag(d) ==
  IF d = <<>> THEN Err
  ELSE LET number == d[1] % 32
           last == {i \in 2..Min({Len(d), 6}) : d[i] < 128}
           read(n, k) == [ok |-> TRUE, tag |-> Tag(d[1] \div 64, (d[1] \div 32) % 2 = 1, n),
                          rest |-> SubSeq(d, k + 1, Len(d))]
       IN  IF number # 31 THEN read(number, 1)
           ELSE IF last = {} THEN Err
           ELSE With(Min(last), LAMBDA k :
                  read(FoldLeft(LAMBDA v, b : v * 128 + (b % 128), 0, SubSeq(d, 2, k)), k))

\* The length at the head of d; -1 stands for the indefinite form.
read_length(d) ==
  IF d = <<>> THEN Err
  ELSE LET k == d[1] % 128
       IN  IF d[1] < 128 THEN [ok |-> TRUE, n |-> d[1], rest |-> Tail(d)]
           ELSE IF d[1] = 128 THEN [ok |-> TRUE, n |-> -1, rest |-> Tail(d)]
           ELSE IF k > 4 \/ 1 + k > Len(d) THEN Err
           ELSE [ok |-> TRUE, n |-> be(SubSeq(d, 2, 1 + k)),
                 rest |-> SubSeq(d, 2 + k, Len(d))]

----------------------------------------------------------------------------
(* The decoder.                                                            *)

RECURSIVE read_tlv_at(_, _), end_of_contents(_, _, _)

\* The content that follows a tag and a length, and what follows it.
read_content(tag, n, d, depth) ==
  LET read(k, skip) == [ok |-> TRUE, tag |-> tag, content |-> SubSeq(d, 1, k),
                        rest |-> SubSeq(d, k + skip + 1, Len(d))]
  IN  IF n >= 0 THEN IF n > Len(d) THEN Err ELSE read(n, 0)
      ELSE IF ~tag.constructed THEN Err
      ELSE Then(end_of_contents(d, 0, depth), LAMBDA after : read(after.n, 2))

\* The first element of d: its tag, its content octets and what follows.
read_tlv_at(d, depth) ==
  IF depth > MAX_DEPTH THEN Err
  ELSE Then(read_tag(d), LAMBDA t :
         Then(read_length(t.rest), LAMBDA l : read_content(t.tag, l.n, l.rest, depth)))

\* Children are skipped until the end-of-contents octets; n of d are read.
end_of_contents(d, n, depth) ==
  LET left == SubSeq(d, n + 1, Len(d))
  IN  IF Len(left) >= 2 /\ left[1] = 0 /\ left[2] = 0 THEN [ok |-> TRUE, n |-> n]
      ELSE Then(read_tlv_at(left, depth + 1), LAMBDA child :
             end_of_contents(d, Len(d) - Len(child.rest), depth))

read_tlv(d) == read_tlv_at(d, 0)

peek_is(d, t) == LET got == read_tag(d) IN got.ok /\ got.tag = t

expect(d, t) == Then(read_tlv(d), LAMBDA got : IF got.tag = t THEN got ELSE Err)

\* The content is <<>> when the element is not the next one, <<c>> when it is.
optional(d, t) ==
  LET absent == [ok |-> TRUE, content |-> <<>>, rest |-> d]
  IN  IF d = <<>> THEN absent
      ELSE Then(read_tag(d), LAMBDA next :
             IF next.tag # t THEN absent
             ELSE Then(read_tlv(d), LAMBDA got : [got EXCEPT !.content = <<@>>]))

\* Every element of d in turn, the loop "while more { read_tlv }": "ok" is
\* FALSE when the loop met an element it cannot read, "items" what it had.
RECURSIVE tlvs(_)
tlvs(d) ==
  IF d = <<>> THEN [ok |-> TRUE, items |-> <<>>]
  ELSE With(read_tlv(d), LAMBDA first :
         IF ~first.ok THEN [ok |-> FALSE, items |-> <<>>]
         ELSE With(tlvs(first.rest), LAMBDA others :
                [ok |-> others.ok,
                 items |-> <<[tag |-> first.tag, content |-> first.content]>> \o others.items]))

----------------------------------------------------------------------------
(* Elements: a tree with its own size computation, which writes the length *)
(* of a constructed element before its children are encoded.               *)

prim(tag, value) == [form |-> "primitive", tag |-> tag, value |-> value]
cons(tag, children) ==
  [form |-> "constructed", tag |-> [tag EXCEPT !.constructed = TRUE], children |-> children]
raw_content(tag, content) ==
  [form |-> "raw", tag |-> [tag EXCEPT !.constructed = TRUE], value |-> content]

RECURSIVE elem_size(_)
elem_size(e) ==
  LET n == IF e.form = "constructed"
           THEN FoldLeft(LAMBDA sum, c : sum + elem_size(c), 0, e.children)
           ELSE Len(e.value)
  IN  tag_size(e.tag) + length_size(n) + n

RECURSIVE encode(_)
encode(e) ==
  IF e.form = "constructed"
  THEN append_tag(e.tag)
         \o append_length(FoldLeft(LAMBDA sum, c : sum + elem_size(c), 0, e.children))
         \o FlattenSeq([i \in DOMAIN e.children |-> encode(e.children[i])])
  ELSE append_tag(e.tag) \o append_length(Len(e.value)) \o e.value

----------------------------------------------------------------------------
(* Primitive values.                                                       *)

int_size(v) == Min({n \in 1..IntOctets : v \div 256^(n - 1) \in -128..127})

append_int(v) == Octets(v, int_size(v))

decode_int(content) ==
  IF Len(content) \notin 1..IntOctets THEN Err
  ELSE LET sign == IF content[1] < 128 THEN content[1] ELSE content[1] - 256
       IN  [ok |-> TRUE, v |-> FoldLeft(LAMBDA v, b : v * 256 + b, sign, Tail(content))]

uint_size(v) == Min({n \in 1..(IntOctets + 1) : v \div 256^(n - 1) <= 127})

append_uint(v) == Octets(v, uint_size(v))

\* A bug: no room for the pad octet of a value of full width.
decode_uint_NoPad(content) ==
  IF Len(content) \notin 1..IntOctets
     \/ (Len(content) = IntOctets + 1 /\ content[1] # 0)
  THEN Err ELSE [ok |-> TRUE, v |-> be(content)]

decode_uint(content) ==
  IF Len(content) \notin 1..(IntOctets + 1)
     \/ (Len(content) = IntOctets + 1 /\ content[1] # 0)
  THEN Err ELSE [ok |-> TRUE, v |-> be(content)]

int_elem(t, v) == prim(t, append_int(v))
uint_elem(t, v) == prim(t, append_uint(v))
bool_elem(t, v) == prim(t, IF v THEN <<255>> ELSE <<0>>)

decode_bool(content) ==
  IF Len(content) # 1 THEN Err ELSE [ok |-> TRUE, v |-> content[1] # 0]

\* A bit string: its octets and its length in bits.
BitString(n) == [bits |-> [i \in 1..((n + 7) \div 8) |-> 0], length |-> n]

mask(i) == 2^(7 - (i % 8))

bit(bs, i) == i < bs.length /\ (bs.bits[(i \div 8) + 1] \div mask(i)) % 2 = 1

set_bit(bs, i, v) ==
  IF i >= bs.length \/ bit(bs, i) = v THEN bs
  ELSE [bs EXCEPT !.bits[(i \div 8) + 1] = @ + (IF v THEN mask(i) ELSE -mask(i))]

append_bit_string(bs) == <<Len(bs.bits) * 8 - bs.length>> \o bs.bits

decode_bit_string(content) ==
  IF content = <<>> THEN Err
  ELSE IF content[1] > 7 \/ (Len(content) = 1 /\ content[1] # 0) THEN Err
  ELSE [ok |-> TRUE,
        v |-> [bits |-> Tail(content), length |-> (Len(content) - 1) * 8 - content[1]]]

bit_string_elem(t, bs) == prim(t, append_bit_string(bs))

\* An object identifier is the sequence of its arcs.
append_oid(o) ==
  IF Len(o) < 2 THEN <<>>
  ELSE append_base128(o[1] * 40 + o[2])
         \o FlattenSeq([i \in 1..(Len(o) - 2) |-> append_base128(o[i + 2])])

RECURSIVE arcs(_)
arcs(content) ==
  IF content = <<>> THEN [ok |-> TRUE, v |-> <<>>]
  ELSE LET last == {i \in 1..Min({Len(content), 5}) : content[i] < 128}
           n == Min(last)
           others == arcs(SubSeq(content, n + 1, Len(content)))
       IN  IF last = {} THEN Err
           ELSE IF ~others.ok THEN Err
           ELSE [ok |-> TRUE,
                 v |-> <<FoldLeft(LAMBDA v, b : v * 128 + (b % 128), 0,
                                  SubSeq(content, 1, n))>> \o others.v]

decode_oid(content) ==
  IF content = <<>> THEN Err
  ELSE LET all == arcs(content)
           first == Min({all.v[1] \div 40, 2})
       IN  IF ~all.ok THEN Err
           ELSE [ok |-> TRUE, v |-> <<first, all.v[1] - first * 40>> \o Tail(all.v)]

oid_elem(t, o) == prim(t, append_oid(o))
=============================================================================
