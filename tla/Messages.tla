------------------------------ MODULE Messages ------------------------------
(***************************************************************************)
(* The payloads of OP_RETURN outputs as parse_op_return meets them, one    *)
(* after the other: crates/zalkanes-protocol/src/lib.rs.  The codec is in  *)
(* Carrier and has no state; this is the walk over its inputs.             *)
(***************************************************************************)
EXTENDS Carrier

CONSTANT Received     \* the payloads that outputs may hold

VARIABLE payload

\* Five fields, and the body read the way its type byte says.  A byte and a u16
\* have their width; a u32 length need not have it.
IsPayload(p) ==
    /\ p = [magic |-> p.magic, version |-> p.version, type |-> p.type, body |-> p.body,
            size |-> p.size]
    /\ p.size \in Nat /\ p.magic \in 0..4
    /\ p.type = MSG_DEPLOY =>
         /\ p.body = [hash |-> p.body.hash, length |-> p.body.length,
                      count |-> p.body.count, index |-> p.body.index]
         /\ p.body.length \in Nat /\ p.body.count \in 0..(U8 - 1) /\ p.body.index \in 0..(U16 - 1)
    /\ p.type = MSG_CALL =>
         /\ p.body = [id |-> p.body.id, opcode |-> p.body.opcode, length |-> p.body.length]
         /\ {p.body.opcode, p.body.length} \subseteq 0..(U16 - 1)
    /\ p.type = MSG_CALL_CARRIER =>
         /\ p.body = [id |-> p.body.id, opcode |-> p.body.opcode, hash |-> p.body.hash,
                      length |-> p.body.length, count |-> p.body.count]
         /\ p.body.opcode \in 0..(U16 - 1) /\ p.body.length \in Nat /\ p.body.count \in 0..(U8 - 1)

ASSUME ReceivedAssumption == \A p \in Received : IsPayload(p)

MessagesInit == payload \in Received

next_payload == payload' \in Received \ {payload}

MessagesSpec == MessagesInit /\ [][next_payload]_payload

\* Parsing is canonical: what parse_op_return accepts is exactly what the
\* encoder writes for the message it returns, so no two payloads mean the same
\* message and the limits the parser enforces are the encoder's
\* (crates/zalkanes-protocol/src/lib.rs:97-290).
ParseIsCanonical ==
    LET m == parse_op_return(payload)
    IN  m.is \notin {"skip", "malformed"} => encode(m) = payload
=============================================================================
