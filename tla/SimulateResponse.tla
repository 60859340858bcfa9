-------------------------- MODULE SimulateResponse ---------------------------
(***************************************************************************)
(* What the tool takes from an answer to simulateTransaction               *)
(* (src/src/rpc/simulate.rs, and response_resources and its neighbours in  *)
(* src/src/main.rs).  The answer comes in the shapes RPC releases have     *)
(* used: costs in an object of their own or inside the transaction data,   *)
(* the fee as decimal stroops, as base64 XDR, or only inside that data.    *)
(***************************************************************************)
EXTENDS Naturals

CONSTANTS Absent,      \* a field the answer does not have
          Unreadable,  \* a field that does not decode
          Short        \* base64 of fewer than the eight bytes of an XDR int64

Present(field) == field \notin {Absent, Unreadable, Short}

\* SimulateTransactionResponse, with deserialize_simulation_error: every payload of "error" but
\* null is an error, and one of unknown shape keeps no code.
Answer(error, cost, data, ledger, min_fee) ==
    [error |-> error, cost |-> cost, data |-> data, ledger |-> ledger, min_fee |-> min_fee]

ErrorOf(answer) ==
    CASE answer.error = Absent -> Absent
      [] answer.error = Unreadable -> [code |-> Absent, details |-> TRUE]
      [] OTHER -> answer.error

\* missing_simulation_data
MissingData(answer) == answer.cost = Absent /\ answer.data = Absent /\ answer.ledger = Absent

\* response_resources: the cost object first, then the transaction data, which an accepted
\* answer has decoded.
Resources(answer) ==
    [cpu |-> IF Present(answer.cost) THEN answer.cost
             ELSE IF Present(answer.data) THEN answer.data.cpu ELSE 0,
     io |-> IF Present(answer.data) THEN answer.data.io ELSE 0]

\* Mutant: a fee that is not in minResourceFee is taken for none.
TotalFeeOfMinimum(answer) == IF Present(answer.min_fee) THEN answer.min_fee ELSE 0

\* parse_resource_fee, then parse_transaction_data_resource_fee
TotalFee(answer) ==
    IF Present(answer.min_fee) THEN answer.min_fee
    ELSE IF Present(answer.data) THEN answer.data.fee ELSE 0

\* Nothing has ended the run before the fee is read: simulate_transaction_inner and its callers
Accepted(answer) ==
    /\ ErrorOf(answer) = Absent
    /\ ~MissingData(answer)
    /\ answer.data # Unreadable

\* parse_resource_fee takes the first eight bytes before it looks at their number
Panics(answer) == Accepted(answer) /\ answer.min_fee = Short

Usable(answer) == Accepted(answer) /\ answer.min_fee # Short
=============================================================================
