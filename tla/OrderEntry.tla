------------------------------ MODULE OrderEntry ------------------------------
(***************************************************************************)
(* What the API server makes of an order before anybody else sees it:       *)
(* validate_place_order and compute_required_margin of                      *)
(* apps/server/src/modules/orders/handlers.rs.  A form is the body of the   *)
(* request; its numbers are i64, and the product of quantity and price is   *)
(* taken in i128, where it fits.                                            *)
(***************************************************************************)
EXTENDS Int64

MinLeverage == 1
MaxLeverage == 100

Form == [quantity: I64, price: I64, leverage: I64, margin: I64]

\* Mutant: rounded down.
RequiredMarginMutant(form) == (form.quantity * form.price) \div form.leverage

\* compute_required_margin: rounded up.
RequiredMargin(form) ==
  (form.quantity * form.price + form.leverage - 1) \div form.leverage

ValidOrder(form) ==
  /\ form.quantity > 0
  /\ form.price >= 0
  /\ form.leverage \in MinLeverage .. MaxLeverage
  /\ form.margin > 0
  /\ form.price > 0 =>
       RequiredMargin(form) <= I64Max /\ RequiredMargin(form) <= form.margin

\* The required_margin of the command: an order without a price takes the
\* client's word for it.
OrderMargin(form) == IF form.price = 0 THEN form.margin ELSE RequiredMargin(form)

-----------------------------------------------------------------------------
\* The least margin that covers quantity times price at the leverage.
IsLeastMargin(form, margin) ==
  /\ margin * form.leverage >= form.quantity * form.price
  /\ (margin - 1) * form.leverage < form.quantity * form.price
=============================================================================
