-------------------------- MODULE ReceiverContract --------------------------
(***************************************************************************)
(* How Receiver Lab judges a webhook body (receiver_lab/api.py) and what   *)
(* the replay service makes of that judgement later (replay_block_code,    *)
(* deliveries/retry.py).                                                   *)
(*                                                                         *)
(* A body is abstracted to what the validation tells apart: whether it is  *)
(* JSON, an object, and how good each field of its data is.  A response    *)
(* code such as "missing_order_id" is the record of its two halves.        *)
(***************************************************************************)
EXTENDS Integers, Sequences

\* The receiver's contracts: RECEIVER_CONTRACTS.
Contracts ==
    [order_paid |->
        [route |-> "orders", text |-> <<"order_id", "customer_id", "currency">>,
         positive |-> <<"amount_cents">>],
     demo_order_paid |->
        [route |-> "orders", text |-> <<"order_id">>, positive |-> << >>],
     shipment_dispatched |->
        [route |-> "shipping",
         text |-> <<"shipment_id", "order_id", "carrier", "tracking_number">>,
         positive |-> << >>],
     inventory_threshold_reached |->
        [route |-> "inventory", text |-> <<"sku", "warehouse_id">>,
         positive |-> <<"quantity_remaining", "reorder_threshold">>]]

Fields == UNION {{Contracts[t].text[i] : i \in DOMAIN Contracts[t].text} \cup
                 {Contracts[t].positive[i] : i \in DOMAIN Contracts[t].positive} :
                    t \in DOMAIN Contracts}

(***************************************************************************)
(* body.shape is "not_json", "not_object", "data_not_object" or "object";  *)
(* body.type a contract name or anything else; body.fields[f] is "absent", *)
(* "bad" (the right kind of text but not a currency code, or an integer    *)
(* that is not positive) or "good".                                        *)
(***************************************************************************)
Code(kind, field) == [kind |-> kind, field |-> field]
NoError == Code("none", "none")

\* The index of the first field in `fields` that is not acceptable, or 0.
FirstOffending(fields, body, acceptable) ==
    LET bad == {i \in DOMAIN fields : body.fields[fields[i]] \notin acceptable}
    IN  IF bad = {} THEN 0 ELSE CHOOSE i \in bad : \A j \in bad : i <= j

\* data.currency is text but not three characters long.
BadCurrency(body) == body.type = "order_paid" /\ body.fields["currency"] = "bad"

\* The checks of a known contract, in the order the code makes them.
ContractError(body) ==
    LET contract == Contracts[body.type]
        text == FirstOffending(contract.text, body, {"good", "bad"})
        positive == FirstOffending(contract.positive, body, {"good"})
    IN  IF body.shape = "data_not_object" THEN Code("invalid", "data")
        ELSE IF text # 0 THEN Code("missing", contract.text[text])
        ELSE IF positive # 0 THEN Code("invalid", contract.positive[positive])
        ELSE IF BadCurrency(body) THEN Code("invalid", "currency")
        ELSE NoError

\* _payload_validation_error; `channel` is "none" for /webhooks.
PayloadError(body, channel, validateUnknown) ==
    IF body.shape = "not_json" THEN Code("invalid", "json")
    ELSE IF body.shape = "not_object" THEN Code("invalid", "payload")
    ELSE IF body.type \notin DOMAIN Contracts
         THEN IF validateUnknown THEN Code("unsupported", "event_type") ELSE NoError
    ELSE IF channel \notin {"none", Contracts[body.type].route}
         THEN Code("wrong", "receiver_route")
    ELSE ContractError(body)

RECEIVER_PAYLOAD_ERROR_CODES ==
    {Code("invalid", "json"), Code("invalid", "payload"), Code("invalid", "data"),
     Code("unsupported", "event_type"), Code("invalid", "currency"),
     Code("invalid", "quantity_remaining"), Code("invalid", "reorder_threshold")}

\* replay_block_code is PAYLOAD_CORRECTION_REQUIRED.
BlocksReplay(status, code) ==
    /\ status = 400
    /\ code.kind = "missing" \/ code \in RECEIVER_PAYLOAD_ERROR_CODES
=============================================================================
