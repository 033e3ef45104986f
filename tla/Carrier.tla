------------------------------ MODULE Carrier ------------------------------
(***************************************************************************)
(* The carrier and message codecs: crates/zalkanes-carrier/src/lib.rs and  *)
(* crates/zalkanes-protocol/src/lib.rs.                                    *)
(*                                                                         *)
(* A byte string is a sequence of spans.  A span is a literal byte (kind   *)
(* "byte", its value in `at') or a stretch of some source the model does   *)
(* not look into (a WASM module, a signature, a message): `len' bytes of   *)
(* it from offset `at'.  Lengths are real.  Two byte strings are equal     *)
(* when their spans are, because Cat joins neighbouring stretches.         *)
(* SHA-256 is represented by what it hashes: there are no collisions.      *)
(***************************************************************************)
EXTENDS Integers, Sequences, SequencesExt

MAX_CODE_BYTES == 262144
MAX_CHUNKS == 188
MAX_CALL_INLINE_BYTES == 38
MAX_CALL_INPUT_BYTES == 65536
MAX_CALL_CARRIER_CHUNKS == 47
U8 == 256
U16 == 65536

(***************************************************************************)
(* Byte strings.                                                           *)
(***************************************************************************)
\* Op over the elements of s from the left.  A recursive function: TLC walks the
\* sequence once, where FoldLeft of the community modules searches its domain.
Fold(Op(_, _), base, s) ==
    LET upto[i \in 0..Len(s)] == IF i = 0 THEN base ELSE Op(upto[i - 1], s[i])
    IN  upto[Len(s)]

\* Op over a sequence, and over 1 .. n, in order.  The concatenation changes
\* nothing; with it TLC computes the elements once.
Map(Op(_), s) == <<>> \o [i \in 1..Len(s) |-> Op(s[i])]
Each(n, Op(_)) == <<>> \o [i \in 1..n |-> Op(i)]

Sum(s) == LET upto[i \in 0..Len(s)] == IF i = 0 THEN 0 ELSE upto[i - 1] + s[i]
          IN  upto[Len(s)]

Byte(v) == <<[src |-> <<"byte">>, at |-> v, len |-> 1]>>

Stretch(src, n) == IF n = 0 THEN <<>> ELSE <<[src |-> src, at |-> 0, len |-> n]>>

Size(b) == Sum(Map(LAMBDA s : s.len, b))

Continues(s, t) == /\ s.src # <<"byte">>
                   /\ s.src = t.src
                   /\ s.at + s.len = t.at

\* One more span behind a byte string.
Join(acc, s) ==
    IF acc # <<>> /\ Continues(Last(acc), s)
      THEN [acc EXCEPT ![Len(acc)].len = @ + s.len]
      ELSE Append(acc, s)

Cat(a, b) == Fold(Join, a, b)
CatAll(parts) == Fold(Cat, <<>>, parts)

Lesser(m, n) == IF m < n THEN m ELSE n
Greater(m, n) == IF m > n THEN m ELSE n
CeilDiv(m, n) == (m + n - 1) \div n

\* What bytes from .. to - 1 of a byte string hold of its span s at offset pos.
Clip(s, pos, from, to) ==
    LET lo == Greater(from - pos, 0)
        hi == Lesser(to - pos, s.len)
    IN  IF lo >= hi THEN <<>>
        ELSE <<[s EXCEPT !.at = IF s.src = <<"byte">> THEN @ ELSE @ + lo, !.len = hi - lo]>>

\* Bytes from .. to - 1 of b, counted from 0.
Slice(b, from, to) ==
    Fold(LAMBDA acc, s : [pos |-> acc.pos + s.len, out |-> acc.out \o Clip(s, acc.pos, from, to)],
         [pos |-> 0, out |-> <<>>], b).out

\* The value of byte i.  The only byte of a stretch that any code below looks
\* at is the first byte of a DER signature; Opaque stands for every other one.
Opaque == -1
DER_LEAD == 48

ByteAt(b, i) ==
    LET value(s) == CASE s.src = <<"byte">> -> s.at
                      [] s.src = <<"sig">> /\ s.at = 0 -> DER_LEAD
                      [] OTHER -> Opaque
    IN  value(Head(Slice(SubSeq(b, 1, Lesser(Len(b), i + 1)), i, i + 1)))

\* slice.chunks(size): consecutive pieces of `size' bytes, the last one shorter.
Pieces(b, size) ==
    Each(CeilDiv(Size(b), size),
         LAMBDA i : Slice(b, (i - 1) * size, Lesser(i * size, Size(b))))

(***************************************************************************)
(* Reading scripts.  `None' results have ok = FALSE.                       *)
(***************************************************************************)
NoPush == [ok |-> FALSE, data |-> <<>>, used |-> 0]

\* The bytes before the pushed data: the opcode, and a length of 0, 1, 2 or 4.
PushHeader(op) == CASE op = 76 -> 2 [] op = 77 -> 3 [] op = 78 -> 5 [] OTHER -> 1

\* The pushed length: the opcode itself, or little-endian behind it.
PushLength(script, op) ==
    IF op <= 75 THEN op
    ELSE Sum(Each(PushHeader(op) - 1, LAMBDA i : ByteAt(script, i) * 256^(i - 1)))

parse_push(script) ==
    LET cut(from, to)    == IF Size(script) < to THEN NoPush
                            ELSE [ok |-> TRUE, data |-> Slice(script, from, to), used |-> to]
        push(op, header) == IF op \notin 0..78 \/ Size(script) < header THEN NoPush
                            ELSE cut(header, header + PushLength(script, op))
        first(op)        == push(op, PushHeader(op))
    IN  IF script = <<>> THEN NoPush ELSE first(ByteAt(script, 0))

\* The pushes of a script in order, up to the first that does not parse.  A
\* script of k spans has at most k pushes: every push has a header byte.
parse_script_pushes(script) ==
    LET take(acc, p) == IF p.ok THEN [rest |-> Slice(acc.rest, p.used, Size(acc.rest)),
                                      out  |-> Append(acc.out, p.data)]
                        ELSE [acc EXCEPT !.rest = <<>>]
    IN  Fold(LAMBDA acc, i : take(acc, parse_push(acc.rest)),
             [rest |-> script, out |-> <<>>], [i \in 1..Len(script) |-> i]).out

OP_RETURN == 106

extract_op_return_data(script) ==
    LET only(p, rest) == IF p.ok /\ p.used = Size(rest) THEN p ELSE NoPush
        data(rest)    == IF rest = <<>> THEN [NoPush EXCEPT !.ok = TRUE]
                         ELSE only(parse_push(rest), rest)
    IN  IF script = <<>> \/ ByteAt(script, 0) # OP_RETURN THEN NoPush
        ELSE data(Slice(script, 1, Size(script)))

\* <index> <data>* <signature> <redeem script>: the index and the data.
chunk_from_script_sig(script) ==
    LET chunk(pushes) ==
          IF Len(pushes) < 4 \/ Size(pushes[1]) # 1
            THEN [ok |-> FALSE, index |-> 0, data |-> <<>>]
            ELSE [ok |-> TRUE, index |-> ByteAt(pushes[1], 0),
                  data |-> CatAll(SubSeq(pushes, 2, Len(pushes) - 2))]
    IN  chunk(parse_script_pushes(script))

(***************************************************************************)
(* Reassembly of what the carriers hold, in the order of their indexes.    *)
(***************************************************************************)
Refused == [ok |-> FALSE, wasm |-> <<>>]

\* Every index below chunk_count exactly once.
Placed(chunks, chunk_count) ==
    /\ Len(chunks) = chunk_count
    /\ {chunks[i].index : i \in DOMAIN chunks} = 0..(chunk_count - 1)

Assembled(chunks, chunk_count) ==
    LET at(k) == chunks[CHOOSE i \in DOMAIN chunks : chunks[i].index = k].data
    IN  CatAll(Each(chunk_count, LAMBDA k : at(k - 1)))

\* reconstruct without its last check: as many bytes as declared is enough.
reconstruct_unhashed(chunks, chunk_count, expected_length, expected_hash) ==
    IF /\ expected_length \in 1..MAX_CODE_BYTES
       /\ Placed(chunks, chunk_count)
       /\ Size(Assembled(chunks, chunk_count)) = expected_length
      THEN [ok |-> TRUE, wasm |-> Assembled(chunks, chunk_count)]
      ELSE Refused

reconstruct(chunks, chunk_count, expected_length, expected_hash) ==
    IF /\ expected_length \in 1..MAX_CODE_BYTES
       /\ Placed(chunks, chunk_count)
       /\ Size(Assembled(chunks, chunk_count)) = expected_length
       /\ Assembled(chunks, chunk_count) = expected_hash
      THEN [ok |-> TRUE, wasm |-> Assembled(chunks, chunk_count)]
      ELSE Refused

(***************************************************************************)
(* Messages.  A payload is its size, how many of its first four bytes are  *)
(* the magic's, the version and type bytes, and the fields of its body.    *)
(* The integer fields are cut to their width by the encoders.              *)
(***************************************************************************)
HEADER == 6
DEPLOY_BODY == 39
CALL_BODY == 36
CALL_CARRIER_BODY == 71
PROTOCOL_V0 == 0
MSG_DEPLOY == 1
MSG_CALL == 2
MSG_CALL_CARRIER == 3

Payload(type, body, size) ==
    [magic |-> 4, version |-> PROTOCOL_V0, type |-> type, body |-> body,
     size |-> HEADER + size]

encode_deploy(m) ==
    Payload(MSG_DEPLOY,
            [hash |-> m.hash, length |-> m.length, count |-> m.count % U8,
             index |-> m.index % U16], DEPLOY_BODY)

\* The declared length is a u16; the input follows in full.
encode_call(m) ==
    Payload(MSG_CALL,
            [id |-> m.id, opcode |-> m.opcode % U16, length |-> m.length % U16],
            CALL_BODY + m.length)

encode_call_carrier(m) ==
    Payload(MSG_CALL_CARRIER,
            [id |-> m.id, opcode |-> m.opcode % U16, hash |-> m.hash,
             length |-> m.length, count |-> m.count % U8], CALL_CARRIER_BODY)

\* The three answers of parse_op_return: Ok(None), Err and Ok(Some(message)).
Skip == [is |-> "skip"]
Malformed == [is |-> "malformed"]
Message(kind, m) == [is |-> kind, m |-> m]

parse_deploy(b, size) ==
    IF /\ size = DEPLOY_BODY
       /\ b.length \in 1..MAX_CODE_BYTES
       /\ b.count # 0
      THEN Message("deploy", b) ELSE Malformed

parse_call(b, size) ==
    IF /\ size >= CALL_BODY
       /\ b.length <= MAX_CALL_INLINE_BYTES
       /\ size - CALL_BODY = b.length
      THEN Message("call", b) ELSE Malformed

\* parse_call_carrier that does not look for bytes after the message.
parse_call_carrier_loose(b, size) ==
    IF /\ size >= CALL_CARRIER_BODY
       /\ b.length \in 1..MAX_CALL_INPUT_BYTES
       /\ b.count \in 1..MAX_CALL_CARRIER_CHUNKS
      THEN Message("call_carrier", b) ELSE Malformed

parse_call_carrier(b, size) ==
    IF /\ size = CALL_CARRIER_BODY
       /\ b.length \in 1..MAX_CALL_INPUT_BYTES
       /\ b.count \in 1..MAX_CALL_CARRIER_CHUNKS
      THEN Message("call_carrier", b) ELSE Malformed

\* A short payload is malformed when it is a prefix of a header, else not ours.
parse_op_return(p) ==
    IF p.size = 0 THEN Skip
    ELSE IF p.size < HEADER
      THEN IF p.magic >= Lesser(p.size, 4) THEN Malformed ELSE Skip
    ELSE IF p.magic # 4 THEN Skip
    ELSE IF p.version # PROTOCOL_V0 THEN Malformed
    ELSE CASE p.type = MSG_DEPLOY       -> parse_deploy(p.body, p.size - HEADER)
           [] p.type = MSG_CALL         -> parse_call(p.body, p.size - HEADER)
           [] p.type = MSG_CALL_CARRIER -> parse_call_carrier(p.body, p.size - HEADER)
           [] OTHER                     -> Malformed

encode(msg) == CASE msg.is = "deploy"       -> encode_deploy(msg.m)
                 [] msg.is = "call"         -> encode_call(msg.m)
                 [] msg.is = "call_carrier" -> encode_call_carrier(msg.m)
=============================================================================
