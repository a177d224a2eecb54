------------------------------ MODULE LiveVenue ------------------------------
(***************************************************************************)
(* The futures venue behind execution/live_canary_adapter.py (external).   *)
(*                                                                         *)
(* Only what the bot can observe through submit_order, query_order and     *)
(* get_positions is kept: per client order id the order's status, executed *)
(* quantity and average fill price, and the one net position of the        *)
(* symbol.  One symbol and one direction are modelled: the kernel tracks   *)
(* one position and a close is always reduceOnly, so the direction only    *)
(* swaps BUY and SELL.                                                     *)
(*                                                                         *)
(* Assumption on the venue (retry_policy.py:6-7 relies on it): a query     *)
(* that follows a POST sees that POST, so "order does not exist" (-2013)   *)
(* is final.                                                               *)
(***************************************************************************)
EXTENDS Integers, FiniteSets

CONSTANTS OrderId,   \* client order ids (make_client_order_id)
          NoOrder,   \* no id recorded
          Size,      \* quantity of an entry order
          Moves      \* fill price of a close minus the entry price, per unit

ASSUME VenueAssumption == /\ NoOrder \notin OrderId
                          /\ Size \in Nat \ {0}
                          /\ Moves \subseteq Int

VARIABLES orders,    \* the venue's view of every client order id
          held       \* positionAmt of the symbol

venueVars == <<orders, held>>

Working == {"NEW", "PARTIALLY_FILLED"}
Filled == {"FILLED", "PARTIALLY_FILLED"}       \* _FILLED
OrderStatus == {"ABSENT", "DEAD"} \cup Working \cup Filled

Order == [kind : {"none", "entry", "close"}, status : OrderStatus,
          qty : 0..Size, executed : 0..Size, move : Moves \cup {0}]

AbsentOrder == [kind |-> "none", status |-> "ABSENT",
                qty |-> 0, executed |-> 0, move |-> 0]

VenueInit == /\ orders = [o \in OrderId |-> AbsentOrder]
             /\ held = 0

-----------------------------------------------------------------------------
(***************************************************************************)
(* submit_order: one POST, never retried.  It is accepted, definitively    *)
(* rejected (4xx), or fails ambiguously (timeout, 5xx, 429, transport      *)
(* error) after it either did or did not reach the book.                   *)
(***************************************************************************)
PostOutcome == {"accepted", "rejected", "lost_answer", "lost_request"}

ReachesBook(out) == out \in {"accepted", "lost_answer"}

Post(o, kind, qty, out) ==
  \* reduceOnly: a close is refused while there is nothing to reduce
  /\ ReachesBook(out) /\ kind = "close" => held > 0
  /\ orders' = IF ReachesBook(out)
                 THEN [orders EXCEPT ![o] = [kind |-> kind, status |-> "NEW",
                                  qty |-> qty, executed |-> 0, move |-> 0]]
                 ELSE orders
  /\ held' = held

(***************************************************************************)
(* query_order: the answers a GET by client order id may give.  The        *)
(* average price can lag behind the status of a filled order.              *)
(***************************************************************************)
Answer == [code : {"ok", "not_found", "failed"}, status : OrderStatus,
           executed : 0..Size, move : Moves \cup {0}, priced : BOOLEAN]

NoAnswer == [code |-> "failed", status |-> "ABSENT",
             executed |-> 0, move |-> 0, priced |-> FALSE]

OrderAnswer(o) ==
  IF orders[o].status = "ABSENT"
    THEN {[NoAnswer EXCEPT !.code = "not_found"]}
    ELSE {[code |-> "ok", status |-> orders[o].status,
           executed |-> orders[o].executed, move |-> orders[o].move,
           priced |-> pr] : pr \in IF orders[o].executed > 0 THEN BOOLEAN ELSE {FALSE}}

QueryAnswers(o) == {NoAnswer} \cup OrderAnswer(o)

-----------------------------------------------------------------------------
(***************************************************************************)
(* The venue's own steps: an order fills, in one or several parts, or      *)
(* leaves the book (CANCELED, REJECTED, EXPIRED), possibly part filled.    *)
(***************************************************************************)
Fill(o, n, m) ==
  LET ord == orders[o]
      total == ord.executed + n
  IN  /\ ord.status \in Working
      /\ total <= ord.qty
      /\ ord.kind = "close" => n <= held
      /\ ord.executed > 0 => m = ord.move
      /\ IF ord.kind = "close" THEN m \in Moves ELSE m = 0
      /\ orders' = [orders EXCEPT ![o].executed = total, ![o].move = m,
                      ![o].status = IF total = ord.qty THEN "FILLED"
                                                       ELSE "PARTIALLY_FILLED"]
      /\ held' = IF ord.kind = "close" THEN held - n ELSE held + n

\* Bound: an order expires only while another id is left to replace it.
Expire(o) ==
  /\ orders[o].status \in Working
  /\ \E f \in OrderId \ {o} : orders[f].status = "ABSENT"
  /\ orders' = [orders EXCEPT ![o].status = "DEAD"]
  /\ held' = held

VenueStep == \E o \in OrderId : \/ \E n \in 1..Size, m \in Moves \cup {0} : Fill(o, n, m)
                                \/ Expire(o)
=============================================================================
