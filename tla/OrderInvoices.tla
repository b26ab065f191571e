--------------------------- MODULE OrderInvoices ---------------------------
(***************************************************************************)
(* The money side of a shipment: sales orders, the documents frozen when a *)
(* shipment goes out, the invoices issued for an order from five places    *)
(* (finance, sales, a customer's receipt, a delivery, a manual shipment),  *)
(* the receipts entered on them, and the reversal of a dispatch.           *)
(*                                                                         *)
(* What issues or reconciles an invoice first locks the sales order and    *)
(* then looks for the invoices the order has.  The look and the write are  *)
(* two steps here, with every other request in between; the locks decide   *)
(* which of them can run.  The packages and stock of a shipment are those  *)
(* of module Shipments and are left out, as are advances of a customer,    *)
(* which belong to no order.                                               *)
(***************************************************************************)
EXTENDS Sums, Sequences

CONSTANTS
  Orders,       \* sales orders entered by sales
  Booked,       \* order rows that the posting of a manual shipment may add
  NoOrder,
  Shipments,
  NoShipment,
  Clerks,       \* requests that lock an order, look and then write
  Amounts,      \* prices, totals and invoice amounts
  Unpriced,     \* a document whose amount is not known
  Receipts,     \* amounts a cashier enters
  MaxPaid,      \* the most that is entered on an invoice (a bound)
  MaxInvoices   \* invoices that are issued (a bound)

VARIABLES
  order,      \* sales_orders
  shipment,   \* shipments, with the amount of the frozen document
  invoice,    \* invoices, by id, with the sum of their payments
  pending     \* what each clerk has locked and read

vars == <<order, shipment, invoice, pending>>

AllOrders == Orders \cup Booked

\* "confirmed" stands for every status that sales may generate an invoice from.  The total
\* of an order by packs is known when the packs go out.
OrderRow == [status: {"none", "draft", "confirmed", "ready_to_ship", "cancelled"},
             total: Amounts \cup {0}, packs: BOOLEAN]
Shipment ==
  [status: {"none", "created", "shipped", "delivered", "cancelled"},
   order: AllOrders \cup {NoOrder}, manual: BOOLEAN, amount: Amounts \cup {Unpriced}]
Invoice ==
  [order: AllOrders, amount: Nat, paid: Nat, status: {"unpaid", "partially_paid", "paid", "void"}]
Reading ==
  [kind: {"none", "issue", "generate", "receive", "deliver"}, order: AllOrders \cup {NoOrder},
   shipment: Shipments \cup {NoShipment}, amount: Nat, found: SUBSET Nat]

ASSUME OrderInvoicesAssumption ==
  /\ Orders \cap Booked = {}
  /\ NoOrder \notin AllOrders /\ NoShipment \notin Shipments
  /\ IsFiniteSet(Shipments) /\ IsFiniteSet(Clerks)
  /\ Amounts \subseteq Nat /\ Unpriced \notin Nat /\ Receipts \subseteq Nat \ {0}
  /\ MaxPaid \in Nat /\ MaxInvoices \in Nat

NoRow == [status |-> "none", total |-> 0, packs |-> FALSE]
Absent == [status |-> "none", order |-> NoOrder, manual |-> FALSE, amount |-> Unpriced]
Idle == [kind |-> "none", order |-> NoOrder, shipment |-> NoShipment, amount |-> 0, found |-> {}]

Init ==
  /\ order \in [AllOrders -> OrderRow]
  /\ \A o \in Booked : order[o] = NoRow
  /\ \A o \in Orders : IF order[o].packs THEN order[o].status = "confirmed" /\ order[o].total = 0
                                          ELSE order[o].status = "draft"
  /\ shipment = [s \in Shipments |-> Absent]
  /\ invoice = <<>>
  /\ pending = [c \in Clerks |-> Idle]

Live(s) == shipment[s].status \notin {"none", "cancelled"}
Open(s) == shipment[s].status = "created"
Gone(s) == shipment[s].status \in {"shipped", "delivered"}
On(o) == {s \in Shipments : Live(s) /\ shipment[s].order = o}

InvoicesOf(o) == {i \in DOMAIN invoice : invoice[i].order = o}
Active(o) == {i \in InvoicesOf(o) : invoice[i].status # "void"}

-----------------------------------------------------------------------------
(* Row locks                                                               *)

NoLock(o) == order[o].status # "none"

\* The order exists and no other request holds it.
lock_sales_order(o) == order[o].status # "none" /\ \A c \in Clerks : pending[c].order # o
Unlocked(s) == \A c \in Clerks : pending[c].shipment # s
\* A receipt and a delivery lock the invoices they find, too.
InvoiceFree(i) ==
  \A c \in Clerks : pending[c].kind \in {"receive", "deliver"} => i \notin pending[c].found

Begin(c, reading) ==
  /\ pending[c] = Idle
  /\ pending' = [pending EXCEPT ![c] = reading]
  /\ UNCHANGED <<order, shipment, invoice>>

Finish(c) == pending' = [pending EXCEPT ![c] = Idle]

\* The request is refused or fails, and is rolled back.
Abort(c) == pending[c] # Idle /\ Finish(c) /\ UNCHANGED <<order, shipment, invoice>>

-----------------------------------------------------------------------------
(* Issuing invoices and entering receipts                                  *)

USD_SETTLEMENT_TOLERANCE == 1

invoice_payment_status(amount, paid) ==
  IF amount - paid <= USD_SETTLEMENT_TOLERANCE THEN "paid"
  ELSE IF paid > 0 THEN "partially_paid" ELSE "unpaid"

insert_order_invoice(o, amount, st) ==
  /\ Len(invoice) < MaxInvoices
  /\ invoice' = Append(invoice, [order |-> o, amount |-> amount, paid |-> 0, status |-> st])

PaidUnrefreshed(inv, n) == [inv EXCEPT !.paid = @ + n]

Paid(inv, n) ==
  [inv EXCEPT !.paid = @ + n, !.status = invoice_payment_status(inv.amount, inv.paid + n)]

\* POST /finance/invoices: the amount of the request or the order's total.  An order that
\* has any invoice, a void one included, gets no other.
BeginIssue(c, o, amount) ==
  /\ lock_sales_order(o) /\ InvoicesOf(o) = {}
  /\ Begin(c, [Idle EXCEPT !.kind = "issue", !.order = o, !.amount = amount])

create_order_invoice(c) ==
  /\ pending[c].kind = "issue"
  /\ insert_order_invoice(pending[c].order, pending[c].amount, invoice_payment_status(pending[c].amount, 0))
  /\ Finish(c) /\ UNCHANGED <<order, shipment>>

\* The sales entry point: the total of an order in progress, never settled at once.
BeginGenerate(c, o) ==
  /\ lock_sales_order(o) /\ order[o].status = "confirmed" /\ InvoicesOf(o) = {}
  /\ Begin(c, [Idle EXCEPT !.kind = "generate", !.order = o, !.amount = order[o].total])

generate_order_invoice(c) ==
  /\ pending[c].kind = "generate"
  /\ insert_order_invoice(pending[c].order, pending[c].amount, "unpaid")
  /\ Finish(c) /\ UNCHANGED <<order, shipment>>

\* POST /finance/payments: any amount on an invoice that is not reversed.
create_invoice_payment(i, n) ==
  /\ InvoiceFree(i) /\ invoice[i].status # "void" /\ invoice[i].paid + n <= MaxPaid
  /\ invoice' = [invoice EXCEPT ![i] = Paid(@, n)]
  /\ UNCHANGED <<order, shipment, pending>>

\* A receipt of the customer for an order goes to its first invoice with a balance, and
\* the rest is an advance.  An order without any invoice gets one.
BeginReceive(c, o, n) ==
  /\ lock_sales_order(o)
  /\ Begin(c, [Idle EXCEPT !.kind = "receive", !.order = o, !.amount = n, !.found = InvoicesOf(o)])

_find_payable_invoice(found) ==
  {i \in found : invoice[i].status # "void" /\ invoice[i].amount > invoice[i].paid}

record_customer_payment(c) ==
  LET n == pending[c].amount
      o == pending[c].order
      payable == _find_payable_invoice(pending[c].found)
      new == [order |-> o, amount |-> order[o].total, paid |-> 0, status |-> "unpaid"]
  IN /\ pending[c].kind = "receive"
     /\ \/ /\ payable # {}
           /\ LET i == CHOOSE j \in payable : \A k \in payable : j <= k
              IN invoice' = [invoice EXCEPT ![i] = Paid(@, Least(n, @.amount - @.paid))]
        \/ /\ payable = {} /\ pending[c].found = {} /\ Len(invoice) < MaxInvoices
           /\ invoice' = Append(invoice, IF new.amount = 0 THEN new ELSE Paid(new, Least(n, new.amount)))
        \/ payable = {} /\ pending[c].found # {} /\ UNCHANGED invoice
     /\ Finish(c) /\ UNCHANGED <<order, shipment>>

-----------------------------------------------------------------------------
(* Orders and shipments                                                    *)

confirm_sales_order(o) ==
  /\ lock_sales_order(o) /\ order[o].status = "draft"
  /\ order' = [order EXCEPT ![o].status = "confirmed"]
  /\ UNCHANGED <<shipment, invoice, pending>>

\* Only an order that nothing refers to: shipments keep theirs, a cancelled one included.
delete_sales_order(o) ==
  /\ lock_sales_order(o) /\ order[o].status \in {"draft", "cancelled"}
  /\ \A s \in Shipments : shipment[s].order # o
  /\ InvoicesOf(o) = {}
  /\ order' = [order EXCEPT ![o] = NoRow]
  /\ UNCHANGED <<shipment, invoice, pending>>

\* Whether the order has packages to ship is decided in module Shipments.
create_shipment(s, o) ==
  /\ shipment[s] = Absent /\ lock_sales_order(o) /\ On(o) = {}
  /\ shipment' = [shipment EXCEPT ![s] = [Absent EXCEPT !.status = "created", !.order = o]]
  /\ UNCHANGED <<order, invoice, pending>>

CreateManual(s) ==
  /\ shipment[s] = Absent
  /\ shipment' = [shipment EXCEPT ![s] = [Absent EXCEPT !.status = "created", !.manual = TRUE]]
  /\ UNCHANGED <<order, invoice, pending>>

delete_manual_shipment(s) ==
  /\ Open(s) /\ shipment[s].manual /\ shipment[s].order = NoOrder
  /\ shipment' = [shipment EXCEPT ![s].status = "cancelled"]
  /\ UNCHANGED <<order, invoice, pending>>

\* What freeze_dispatch_document accepts: only a manual shipment may go out unpriced.
Prices(s) == IF shipment[s].manual THEN Amounts \cup {Unpriced} ELSE Amounts

PostableAnyway(amount) == TRUE
Postable(amount) == amount # Unpriced

\* A priced manual shipment gets an order of its own, with its invoice.
post_manual_shipment_invoice(s, b, st, amount) ==
  /\ order[b].status = "none"
  /\ order' = [order EXCEPT ![b] = [status |-> "confirmed", total |-> amount, packs |-> FALSE]]
  /\ shipment' = [shipment EXCEPT ![s] = [@ EXCEPT !.status = st, !.order = b, !.amount = amount]]
  /\ insert_order_invoice(b, amount, "unpaid")

\* POST /shipments/{id}/ship, for an order.  One by packs is priced by what goes out.
ShipOrder(s, amount) ==
  LET o == shipment[s].order
  IN /\ Open(s) /\ o # NoOrder /\ lock_sales_order(o) /\ amount \in Prices(s)
     /\ IF order[o].packs THEN \E total \in Amounts : order' = [order EXCEPT ![o].total = total]
        ELSE UNCHANGED order
     /\ shipment' = [shipment EXCEPT ![s].status = "shipped", ![s].amount = amount]
     /\ UNCHANGED <<invoice, pending>>

ShipManual(s, amount) ==
  /\ Open(s) /\ shipment[s].manual /\ shipment[s].order = NoOrder /\ amount \in Prices(s)
  /\ IF Postable(amount)
       THEN \E b \in Booked : post_manual_shipment_invoice(s, b, "shipped", amount)
       ELSE shipment' = [shipment EXCEPT ![s].status = "shipped"] /\ UNCHANGED <<order, invoice>>
  /\ UNCHANGED pending

\* The price of an unpriced manual shipment is agreed on after it has gone.
review_shipment_amount(s, amount) ==
  /\ Gone(s) /\ Unlocked(s) /\ shipment[s].manual
  /\ shipment[s].order = NoOrder /\ shipment[s].amount = Unpriced
  /\ \E b \in Booked : post_manual_shipment_invoice(s, b, shipment[s].status, amount)
  /\ UNCHANGED pending

-----------------------------------------------------------------------------
(* Delivery and reversal                                                   *)

DeliverUnposted(s) ==
  /\ shipment[s].status = "shipped" /\ shipment[s].order = NoOrder
  /\ shipment' = [shipment EXCEPT ![s].status = "delivered"]
  /\ UNCHANGED <<order, invoice, pending>>

\* The frozen amounts of all shipments of the order are what it owes.
BeginDeliver(c, s) ==
  LET o == shipment[s].order
  IN /\ shipment[s].status = "shipped" /\ Unlocked(s) /\ o # NoOrder /\ lock_sales_order(o)
     /\ \A x \in On(o) : Gone(x) /\ shipment[x].amount # Unpriced
     /\ Begin(c, [Idle EXCEPT !.kind = "deliver", !.order = o, !.shipment = s, !.found = Active(o),
                              !.amount = SumOf([x \in On(o) |-> shipment[x].amount])])

AgreesAnyway(i, amount) == TRUE
Agrees(i, amount) == invoice[i].amount = amount

\* An invoice of that amount stays, one that nobody paid is corrected, and any other is
\* left for finance to reconcile: the delivery is refused.
invoice_for_frozen_delivery(c) ==
  LET o == pending[c].order
      found == pending[c].found
      owed == pending[c].amount
  IN /\ pending[c].kind = "deliver"
     /\ \/ found = {} /\ insert_order_invoice(o, owed, "unpaid")
        \/ /\ Cardinality(found) = 1
           /\ \E i \in found :
                \/ Agrees(i, owed) /\ UNCHANGED invoice
                \/ /\ ~Agrees(i, owed) /\ invoice[i].status = "unpaid" /\ invoice[i].paid = 0
                   /\ invoice' = [invoice EXCEPT ![i].amount = owed]
     /\ shipment' = [shipment EXCEPT ![pending[c].shipment].status = "delivered"]
     /\ Finish(c) /\ UNCHANGED order

ReversibleAnyway(i) == InvoiceFree(i)
Reversible(i) == InvoiceFree(i) /\ invoice[i].status \in {"unpaid", "void"} /\ invoice[i].paid = 0

\* POST /shipments/{id}/reopen, with the invoices of its order voided.
VoidNothing(o) == invoice
Void(o) == [i \in DOMAIN invoice |->
  IF invoice[i].order = o THEN [invoice[i] EXCEPT !.status = "void", !.amount = 0] ELSE invoice[i]]

reopen_shipment(s) ==
  LET sh == shipment[s]
      back == [sh EXCEPT !.status = "created", !.amount = Unpriced]
  IN /\ Gone(s) /\ Unlocked(s)
     /\ IF sh.order = NoOrder
          THEN shipment' = [shipment EXCEPT ![s] = back] /\ UNCHANGED <<order, invoice>>
          ELSE /\ lock_sales_order(sh.order) /\ On(sh.order) = {s}
               /\ \A i \in InvoicesOf(sh.order) : Reversible(i)
               /\ invoice' = Void(sh.order)
               /\ shipment' = [shipment EXCEPT ![s] =
                    IF sh.manual THEN [back EXCEPT !.order = NoOrder] ELSE back]
               /\ order' = [order EXCEPT ![sh.order] =
                    IF sh.manual THEN [@ EXCEPT !.status = "cancelled", !.total = 0]
                    ELSE [@ EXCEPT !.status = "ready_to_ship"]]
     /\ UNCHANGED pending

-----------------------------------------------------------------------------
(* The system                                                              *)

Sales ==
  \E o \in AllOrders :
    \/ confirm_sales_order(o) \/ delete_sales_order(o)
    \/ \E s \in Shipments : create_shipment(s, o)

Money ==
  \/ \E c \in Clerks, o \in AllOrders :
       \/ \E amount \in Amounts \cup {order[o].total} : BeginIssue(c, o, amount)
       \/ BeginGenerate(c, o)
       \/ \E n \in Receipts : BeginReceive(c, o, n)
  \/ \E i \in DOMAIN invoice, n \in Receipts : create_invoice_payment(i, n)

Warehouse ==
  \E s \in Shipments :
    \/ CreateManual(s) \/ delete_manual_shipment(s)
    \/ \E amount \in Amounts \cup {Unpriced} : ShipOrder(s, amount) \/ ShipManual(s, amount)
    \/ \E amount \in Amounts : review_shipment_amount(s, amount)
    \/ DeliverUnposted(s) \/ reopen_shipment(s)
    \/ \E c \in Clerks : BeginDeliver(c, s)

Write ==
  \E c \in Clerks :
    \/ create_order_invoice(c) \/ generate_order_invoice(c) \/ record_customer_payment(c)
    \/ invoice_for_frozen_delivery(c) \/ Abort(c)

Next == Sales \/ Money \/ Warehouse \/ Write

Spec == Init /\ [][Next]_vars

-----------------------------------------------------------------------------
(* Properties                                                              *)

TypeOK ==
  /\ order \in [AllOrders -> OrderRow]
  /\ shipment \in [Shipments -> Shipment]
  /\ invoice \in Seq(Invoice)
  /\ pending \in [Clerks -> Reading]

\* Issued from five places, an order never owes on two invoices at once.
OneLiveInvoice == \A o \in AllOrders : Cardinality(Active(o)) <= 1

\* What the status says of an invoice is what its amount and its receipts say, also after
\* a delivery corrected the amount; a reversed invoice holds no money.
StatusTruthful ==
  \A i \in DOMAIN invoice :
    LET inv == invoice[i]
    IN CASE inv.status = "paid" -> inv.amount - inv.paid <= USD_SETTLEMENT_TOLERANCE
         [] inv.status = "partially_paid" -> inv.paid > 0 /\ inv.amount - inv.paid > USD_SETTLEMENT_TOLERANCE
         [] inv.status = "unpaid" -> inv.paid = 0
         [] inv.status = "void" -> inv.paid = 0 /\ inv.amount = 0

\* The order of a delivered shipment owes, on one invoice, what the document says that
\* went out with the goods.
DeliveredBilled ==
  \A s \in Shipments :
    shipment[s].status = "delivered" /\ shipment[s].order # NoOrder =>
      \E i \in InvoicesOf(shipment[s].order) :
        Active(shipment[s].order) = {i} /\ invoice[i].amount = shipment[s].amount

\* A manual shipment is billed by one live invoice while its posting stands, and a
\* posting that was reversed leaves none.
ManualBilled ==
  /\ \A s \in Shipments :
       shipment[s].manual /\ shipment[s].order # NoOrder =>
         /\ Gone(s)
         /\ \E i \in InvoicesOf(shipment[s].order) :
              Active(shipment[s].order) = {i} /\ invoice[i].amount = shipment[s].amount
  /\ \A b \in Booked : Active(b) # {} => \E s \in Shipments : Gone(s) /\ shipment[s].order = b

\* Once money was entered on an invoice, no delivery or reversal changes what it asks for.
SettledKept ==
  [][\A i \in DOMAIN invoice :
       invoice[i].paid > 0 => /\ invoice'[i].amount = invoice[i].amount
                              /\ invoice'[i].status # "void"
                              /\ invoice'[i].paid >= invoice[i].paid]_vars
=============================================================================
