------------------------------- MODULE TxPlan -------------------------------
(***************************************************************************)
(* Planning and building of transparent transactions:                      *)
(* crates/zalkanes-tx/src/lib.rs.  Sizes, fees and change are computed     *)
(* with the constants of the code.                                         *)
(*                                                                         *)
(* A planned input is an outpoint, its value and how it is spent (a P2PKH  *)
(* coin or a carrier with its chunk); an output is a value and a script.   *)
(* One key signs everything, so its public key is a stretch of 33 bytes    *)
(* and a script hash is a stretch of 20 bytes of what was hashed.          *)
(***************************************************************************)
EXTENDS Carrier

MAX_PUSH_SIZE == 520
MAX_STANDARD_SCRIPTSIG_SIZE == 1650
REDEEM_SCRIPT_LEN == 36
MAX_SIGNATURE_LEN == 73
CHUNK_PAYLOAD_SIZE == 1400

Const(n, v) == Each(n, LAMBDA i : v)
\* The first two elements exchanged, when there are two.
Swap(s) == IF Len(s) < 2 THEN s ELSE <<s[2], s[1]>> \o SubSeq(s, 3, Len(s))

(***************************************************************************)
(* Fees.                                                                   *)
(***************************************************************************)
MARGINAL_FEE == 5000
GRACE_ACTIONS == 2

zip317_fee(inputs, outputs) ==
    MARGINAL_FEE * Greater(Greater(inputs, outputs), GRACE_ACTIONS)

zip317_fee_from_sizes(in_bytes, out_bytes) ==
    MARGINAL_FEE * Greater(Greater(CeilDiv(in_bytes, 150), CeilDiv(out_bytes, 34)),
                           GRACE_ACTIONS)

(***************************************************************************)
(* Scripts.                                                                *)
(***************************************************************************)
PubKey == Stretch(<<"pubkey">>, 33)
Signature(n) == Stretch(<<"sig">>, n)

redeem_script == CatAll(<<Byte(33), PubKey, Byte(172), Byte(97)>>)

push_overhead(n) == CASE n <= 75 -> 1 [] n \in 76..255 -> 2 [] OTHER -> 3

push_data(d) ==
    LET header(n) == CASE n < 76       -> Byte(n)
                       [] n \in 76..255 -> Byte(76) \o Byte(n)
                       [] OTHER        -> Byte(77) \o Byte(n % 256) \o Byte(n \div 256)
    IN  Cat(header(Size(d)), d)

p2pkh_script_pubkey ==
    CatAll(<<Byte(118), Byte(169), Byte(20), Stretch(<<"hash of pubkey">>, 20),
             Byte(136), Byte(172)>>)

p2sh_script_pubkey ==
    CatAll(<<Byte(169), Byte(20), Stretch(<<"hash of redeem">>, 20), Byte(135)>>)

op_return_script(payload) ==
    Cat(Byte(OP_RETURN), push_data(Stretch(<<"message", payload>>, payload.size)))

carrier_script_sig(chunk_index, chunk_data, signature, redeem) ==
    CatAll(<<push_data(Byte(chunk_index))>>
           \o Map(push_data, Pieces(chunk_data, MAX_PUSH_SIZE))
           \o <<push_data(signature), push_data(redeem)>>)

p2pkh_script_sig(signature, pubkey) == Cat(push_data(signature), push_data(pubkey))

(***************************************************************************)
(* Sizes.  carrier_script_sig_len foresees the longest signature.          *)
(***************************************************************************)
serialized_script_size(n) == n + (IF n < 253 THEN 1 ELSE IF n <= 65535 THEN 3 ELSE 5)
input_serialized_size(n) == 36 + serialized_script_size(n) + 4
output_serialized_size(n) == 8 + serialized_script_size(n)

p2pkh_script_sig_len == (1 + MAX_SIGNATURE_LEN) + (1 + 33)

\* The length of the script before it is signed.
carrier_script_sig_len_unsigned(chunk_len) ==
    LET full == chunk_len \div MAX_PUSH_SIZE
        part == chunk_len % MAX_PUSH_SIZE
    IN  2 + full * (push_overhead(MAX_PUSH_SIZE) + MAX_PUSH_SIZE)
          + (IF part = 0 THEN 0 ELSE push_overhead(part) + part)
          + (push_overhead(REDEEM_SCRIPT_LEN) + REDEEM_SCRIPT_LEN)

carrier_script_sig_len(chunk_len) ==
    LET full == chunk_len \div MAX_PUSH_SIZE
        part == chunk_len % MAX_PUSH_SIZE
    IN  2 + full * (push_overhead(MAX_PUSH_SIZE) + MAX_PUSH_SIZE)
          + (IF part = 0 THEN 0 ELSE push_overhead(part) + part)
          + (1 + MAX_SIGNATURE_LEN)
          + (push_overhead(REDEEM_SCRIPT_LEN) + REDEEM_SCRIPT_LEN)

max_standard_carrier_payload(signature_len, redeem_len) ==
    LET remaining == MAX_STANDARD_SCRIPTSIG_SIZE
                       - (2 + (1 + signature_len) + (push_overhead(redeem_len) + redeem_len))
        pushes    == remaining \div (MAX_PUSH_SIZE + 3)
        leftover  == remaining % (MAX_PUSH_SIZE + 3)
    IN  pushes * MAX_PUSH_SIZE + Greater(leftover - 3, 0)

\* The frozen chunk size fits a standard scriptSig, and the most chunks of it
\* hold the largest module.
ASSUME ChunkSizeFits ==
    /\ CHUNK_PAYLOAD_SIZE <= max_standard_carrier_payload(MAX_SIGNATURE_LEN, REDEEM_SCRIPT_LEN)
    /\ MAX_CHUNKS * CHUNK_PAYLOAD_SIZE >= MAX_CODE_BYTES

(***************************************************************************)
(* Chunking.  ok = FALSE is the error return.                              *)
(***************************************************************************)
carrier_input_count(wasm_len) ==
    LET n == CeilDiv(wasm_len, CHUNK_PAYLOAD_SIZE)
    IN  [ok |-> wasm_len \in 1..MAX_CODE_BYTES /\ n <= MAX_CHUNKS, n |-> n]

split_chunks(wasm) ==
    IF carrier_input_count(Size(wasm)).ok
      THEN [ok |-> TRUE, chunks |-> Pieces(wasm, CHUNK_PAYLOAD_SIZE)]
      ELSE [ok |-> FALSE, chunks |-> <<>>]

(***************************************************************************)
(* Plans.                                                                  *)
(***************************************************************************)
NoPlan == [ok |-> FALSE]

P2pkh == [carrier |-> FALSE, index |-> 0, data |-> <<>>]
CarrierSpend(i, data) == [carrier |-> TRUE, index |-> i % U8, data |-> data]

Coin(outpoint, value, kind) == [outpoint |-> outpoint, value |-> value, kind |-> kind]
Pay(value, script) == [value |-> value, script |-> script]

PreparedTx(inputs, outputs, fee, change) ==
    [ok |-> TRUE, inputs |-> inputs, outputs |-> outputs, fee |-> fee, change |-> change]

P2PKH_IN == input_serialized_size(p2pkh_script_sig_len)
P2PKH_OUT == output_serialized_size(Size(p2pkh_script_pubkey))

\* utxos: sequence of [outpoint, value].  The fee always pays for a change
\* output, which is left out when nothing is left.
prepare_plan(utxos, carrier_values) ==
    LET fee == zip317_fee_from_sizes(
                   Len(utxos) * P2PKH_IN,
                   Len(carrier_values) * output_serialized_size(Size(p2sh_script_pubkey))
                     + P2PKH_OUT)
        plan(change) ==
          IF utxos = <<>> \/ carrier_values = <<>> \/ change < 0 THEN NoPlan
          ELSE PreparedTx(Map(LAMBDA u : Coin(u.outpoint, u.value, P2pkh), utxos),
                          Map(LAMBDA v : Pay(v, p2sh_script_pubkey), carrier_values)
                            \o (IF change > 0 THEN <<Pay(change, p2pkh_script_pubkey)>> ELSE <<>>),
                          fee, change)
    IN  plan(Sum(Map(LAMBDA u : u.value, utxos)) - Sum(carrier_values) - fee)

deploy_plan(outpoints, carrier_values, chunks, payload) ==
    LET script == op_return_script(payload)
        fee    == zip317_fee_from_sizes(
                      Sum(Map(LAMBDA c : input_serialized_size(carrier_script_sig_len(Size(c))),
                              chunks)),
                      output_serialized_size(Size(script)) + P2PKH_OUT)
        plan(change) ==
          IF Len(outpoints) # Len(chunks) \/ Len(outpoints) # Len(carrier_values) \/ change < 0
            THEN NoPlan
          ELSE PreparedTx(Each(Len(outpoints), LAMBDA i :
                             Coin(outpoints[i], carrier_values[i], CarrierSpend(i - 1, chunks[i]))),
                          <<Pay(0, script)>>
                            \o (IF change > 0 THEN <<Pay(change, p2pkh_script_pubkey)>> ELSE <<>>),
                          fee, change)
    IN  plan(Sum(carrier_values) - fee)

\* The change output of a CALL is there even when it is worth nothing.
call_plan(utxo, payload) ==
    LET script == op_return_script(payload)
        fee    == zip317_fee_from_sizes(P2PKH_IN,
                                        output_serialized_size(Size(script)) + P2PKH_OUT)
        plan(change) ==
          IF change < 0 THEN NoPlan
          ELSE PreparedTx(<<Coin(utxo.outpoint, utxo.value, P2pkh)>>,
                          <<Pay(0, script), Pay(change, p2pkh_script_pubkey)>>, fee, change)
    IN  plan(utxo.value - fee)

(***************************************************************************)
(* build_transparent_tx: sign and serialize.  DER signatures vary in       *)
(* length, so the length is an input.  The txid covers everything but the  *)
(* scriptSigs.                                                             *)
(***************************************************************************)
build_transparent_tx(plan, sig_len) ==
    [version |-> 5, expiry |-> 0,
     vin  |-> Map(LAMBDA inp :
                   [prevout |-> inp.outpoint,
                    script_sig |->
                      IF inp.kind.carrier
                        THEN carrier_script_sig(inp.kind.index, inp.kind.data,
                                                Signature(sig_len), redeem_script)
                        ELSE p2pkh_script_sig(Signature(sig_len), PubKey)], plan.inputs),
     vout |-> plan.outputs]
=============================================================================
