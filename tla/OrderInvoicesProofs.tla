------------------------ MODULE OrderInvoicesProofs ------------------------
(***************************************************************************)
(* For every set of orders, shipments and concurrent requests: the types   *)
(* hold, an order has at most one live invoice, the status of an invoice   *)
(* says what its amount and receipts say, and what was paid for is never   *)
(* changed.  An invoice is issued on the strength of an earlier look at    *)
(* the invoices of its order, so the invariant says that what a request    *)
(* has seen is still so (Looked), because it holds the order alone         *)
(* (Exclusive), and that an order row that is not there has no invoices.   *)
(* The second part is about bills: a delivered shipment, and a manual one  *)
(* that was posted, has one live invoice of the amount that went out.      *)
(***************************************************************************)
EXTENDS OrderInvoices, SumTheorems, SequenceTheorems, TLAPS

Exclusive ==
  \A c, d \in Clerks : pending[c].order = pending[d].order /\ pending[c].order # NoOrder => c = d

\* What the reading p of a clerk says is still the case.
StillSo(p) ==
  /\ p.order \in AllOrders
  /\ order[p.order].status # "none"
  /\ p.kind \in {"issue", "generate"} => InvoicesOf(p.order) = {}
  /\ p.kind = "receive" => p.found = InvoicesOf(p.order)
  /\ p.kind = "deliver" => p.found = Active(p.order)

Looked == \A c \in Clerks : pending[c].kind # "none" => StillSo(pending[c])

Single(o) == \A i, j \in Active(o) : i = j

KnownOnly(o) == order[o].status = "none" => InvoicesOf(o) = {}

Truthful(inv) ==
  /\ inv.status = "paid" => inv.amount - inv.paid <= USD_SETTLEMENT_TOLERANCE
  /\ inv.status = "partially_paid" => inv.paid > 0 /\ inv.amount - inv.paid > USD_SETTLEMENT_TOLERANCE
  /\ inv.status = "unpaid" => inv.paid = 0
  /\ inv.status = "void" => inv.paid = 0 /\ inv.amount = 0

InvoiceInvariant ==
  /\ TypeOK
  /\ Exclusive
  /\ Looked
  /\ \A o \in AllOrders : Single(o) /\ KnownOnly(o)
  /\ \A i \in DOMAIN invoice : Truthful(invoice[i])

-----------------------------------------------------------------------------
(* What a step does to the invoices                                        *)

SameInvoices(o) == InvoicesOf(o)' = InvoicesOf(o) /\ Active(o)' = Active(o)

PaidKept ==
  \A i \in DOMAIN invoice :
    invoice[i].paid > 0 => /\ invoice'[i].amount = invoice[i].amount
                           /\ invoice'[i].status # "void"
                           /\ invoice'[i].paid >= invoice[i].paid

\* A step that leaves the invoices of every order but o as they are.
InvoiceStep(o) ==
  /\ invoice' \in Seq(Invoice)
  /\ \A i \in DOMAIN invoice' : Truthful(invoice'[i])
  /\ \A x \in AllOrders : x # o => SameInvoices(x)
  /\ PaidKept

\* An invoice with a receipt on it is not reversed.
LEMMA PaidIsLive ==
  ASSUME NEW inv \in Invoice, Truthful(inv), inv.paid > 0
  PROVE  inv.status # "void" /\ inv.paid \in Nat
<1>1. inv.paid \in Nat
  BY DEF Invoice
<1>2. inv.paid # 0
  BY <1>1
<1> QED
  BY ONLY <1>1, <1>2, Truthful(inv) DEF Truthful

\* Issuing an invoice.
LEMMA IssueStep ==
  ASSUME InvoiceInvariant, NEW o \in AllOrders, NEW new \in Invoice,
         new.order = o, Truthful(new), invoice' = Append(invoice, new), Active(o) = {}
  PROVE  InvoiceStep(o) /\ Single(o)'
<1> DEFINE n == Len(invoice) + 1
<1>1. invoice \in Seq(Invoice) /\ Len(invoice) \in Nat
  BY DEF InvoiceInvariant, TypeOK
<1>2. /\ invoice' \in Seq(Invoice)
      /\ DOMAIN invoice = 1 .. Len(invoice)
      /\ DOMAIN invoice' = 1 .. n
      /\ \A i \in 1 .. Len(invoice) : invoice'[i] = invoice[i]
      /\ invoice'[n] = new
  BY <1>1, AppendProperties
<1>3. n \notin DOMAIN invoice /\ DOMAIN invoice' = DOMAIN invoice \cup {n}
  BY <1>1, <1>2
<1>4. \A i \in DOMAIN invoice : invoice'[i] = invoice[i]
  BY <1>2
<1> HIDE DEF n
<1>5. \A i \in DOMAIN invoice' : Truthful(invoice'[i])
  BY ONLY <1>2, <1>3, <1>4, Truthful(new), InvoiceInvariant DEF InvoiceInvariant
<1>6. \A x \in AllOrders : x # o => SameInvoices(x)
  BY ONLY <1>2, <1>3, <1>4, new.order = o DEF SameInvoices, InvoicesOf, Active
<1>7. \A i \in Active(o)' : i = n
  BY ONLY <1>2, <1>3, <1>4, Active(o) = {} DEF InvoicesOf, Active
<1>8. \A i \in DOMAIN invoice : invoice[i].paid > 0 => invoice[i].status # "void" /\ invoice[i].paid \in Nat
  <2> SUFFICES ASSUME NEW i \in DOMAIN invoice, invoice[i].paid > 0
               PROVE  invoice[i].status # "void" /\ invoice[i].paid \in Nat
    OBVIOUS
  <2>1. invoice[i] \in Invoice
    BY <1>1, <1>2
  <2>2. Truthful(invoice[i])
    BY DEF InvoiceInvariant
  <2> QED
    BY <2>1, <2>2, PaidIsLive
<1>9. PaidKept
  BY ONLY <1>4, <1>8 DEF PaidKept
<1> QED
  BY <1>2, <1>5, <1>6, <1>7, <1>9 DEF InvoiceStep, Single

\* Entering a receipt on an invoice or correcting its amount.
LEMMA ChangeStep ==
  ASSUME InvoiceInvariant, NEW k \in DOMAIN invoice, NEW new \in Invoice,
         new.order = invoice[k].order, Truthful(new),
         new.status # "void", invoice[k].status # "void",
         invoice[k].paid > 0 => new.amount = invoice[k].amount,
         new.paid >= invoice[k].paid,
         invoice' = [invoice EXCEPT ![k] = new]
  PROVE  InvoiceStep(NoOrder) /\ \A x \in AllOrders : SameInvoices(x)
<1>1. invoice \in Seq(Invoice) /\ Len(invoice) \in Nat
  BY DEF InvoiceInvariant, TypeOK
<1>2. DOMAIN invoice = 1 .. Len(invoice)
  BY <1>1
<1>3. /\ invoice' \in Seq(Invoice)
      /\ DOMAIN invoice' = DOMAIN invoice
      /\ invoice'[k] = new
      /\ \A i \in DOMAIN invoice : i # k => invoice'[i] = invoice[i]
  BY <1>1, <1>2, ExceptSeq
<1>4. \A i \in DOMAIN invoice' : Truthful(invoice'[i])
  BY ONLY <1>3, Truthful(new), InvoiceInvariant DEF InvoiceInvariant
<1>5. \A x \in AllOrders : SameInvoices(x)
  BY ONLY <1>3, new.order = invoice[k].order, new.status # "void", invoice[k].status # "void"
  DEF SameInvoices, InvoicesOf, Active
<1>6. \A i \in DOMAIN invoice : invoice[i].paid > 0 => invoice[i].status # "void" /\ invoice[i].paid \in Nat
  <2> SUFFICES ASSUME NEW i \in DOMAIN invoice, invoice[i].paid > 0
               PROVE  invoice[i].status # "void" /\ invoice[i].paid \in Nat
    OBVIOUS
  <2>1. invoice[i] \in Invoice
    BY <1>1, <1>2
  <2>2. Truthful(invoice[i])
    BY DEF InvoiceInvariant
  <2> QED
    BY <2>1, <2>2, PaidIsLive
<1>7. PaidKept
  BY ONLY <1>3, <1>6, new.status # "void", invoice[k].paid > 0 => new.amount = invoice[k].amount,
          new.paid >= invoice[k].paid
  DEF PaidKept
<1> QED
  BY <1>3, <1>4, <1>5, <1>7 DEF InvoiceStep

\* Voiding the invoices of an order that nobody paid.
LEMMA VoidStep ==
  ASSUME InvoiceInvariant, NEW o \in AllOrders, \A i \in InvoicesOf(o) : invoice[i].paid = 0,
         invoice' = Void(o)
  PROVE  InvoiceStep(o) /\ InvoicesOf(o)' = InvoicesOf(o) /\ Active(o)' = {}
<1>1. invoice \in Seq(Invoice) /\ Len(invoice) \in Nat
  BY DEF InvoiceInvariant, TypeOK
<1>2. DOMAIN invoice = 1 .. Len(invoice)
  BY <1>1
<1>3. /\ DOMAIN invoice' = DOMAIN invoice
      /\ \A i \in DOMAIN invoice :
           invoice'[i] = IF invoice[i].order = o THEN [invoice[i] EXCEPT !.status = "void", !.amount = 0]
                         ELSE invoice[i]
  BY DEF Void
<1>4. \A i \in DOMAIN invoice : invoice[i] \in Invoice /\ Truthful(invoice[i])
  BY <1>1, <1>2 DEF InvoiceInvariant
<1>5. \A i \in DOMAIN invoice :
        /\ invoice'[i] \in Invoice
        /\ invoice'[i].order = invoice[i].order
        /\ Truthful(invoice'[i])
        /\ invoice[i].order = o => invoice'[i].status = "void"
        /\ invoice[i].order # o => invoice'[i] = invoice[i]
        /\ invoice[i].paid > 0 => invoice[i].order # o /\ invoice[i].status # "void" /\ invoice[i].paid \in Nat
  <2> SUFFICES ASSUME NEW i \in DOMAIN invoice
               PROVE  /\ invoice'[i] \in Invoice
                      /\ invoice'[i].order = invoice[i].order
                      /\ Truthful(invoice'[i])
                      /\ invoice[i].order = o => invoice'[i].status = "void"
                      /\ invoice[i].order # o => invoice'[i] = invoice[i]
                      /\ invoice[i].paid > 0 => /\ invoice[i].order # o
                                                /\ invoice[i].status # "void"
                                                /\ invoice[i].paid \in Nat
    OBVIOUS
  <2>1. CASE invoice[i].order = o
    <3>1. invoice[i].paid = 0
      BY <2>1 DEF InvoicesOf
    <3>2. invoice[i] \in Invoice
      BY <1>4
    <3>3. invoice'[i] = [invoice[i] EXCEPT !.status = "void", !.amount = 0]
      BY <1>3, <2>1
    <3>4. /\ invoice'[i] \in Invoice /\ invoice'[i].order = o
          /\ invoice'[i].status = "void" /\ invoice'[i].amount = 0 /\ invoice'[i].paid = 0
      BY ONLY <3>1, <3>2, <3>3, <2>1 DEF Invoice
    <3> QED
      BY ONLY <2>1, <3>1, <3>4 DEF Truthful
  <2>2. CASE invoice[i].order # o
    <3>1. invoice'[i] = invoice[i]
      BY <1>3, <2>2
    <3>2. invoice[i] \in Invoice /\ Truthful(invoice[i])
      BY <1>4
    <3>3. invoice[i].paid > 0 => invoice[i].status # "void" /\ invoice[i].paid \in Nat
      BY <3>2, PaidIsLive
    <3> QED
      BY ONLY <2>2, <3>1, <3>2, <3>3
  <2> QED
    BY <2>1, <2>2
<1>6. invoice' \in Seq(Invoice)
  <2>1. invoice' = [i \in 1 .. Len(invoice) |-> invoice'[i]]
    BY <1>2, <1>3 DEF Void
  <2>2. \A i \in 1 .. Len(invoice) : invoice'[i] \in Invoice
    BY <1>2, <1>5
  <2> QED
    BY <1>1, <2>1, <2>2, SeqDef
<1>7. \A i \in DOMAIN invoice' : Truthful(invoice'[i])
  BY <1>3, <1>5
<1>8. \A x \in AllOrders : x # o => SameInvoices(x)
  BY ONLY <1>3, <1>5 DEF SameInvoices, InvoicesOf, Active
<1>9. InvoicesOf(o)' = InvoicesOf(o) /\ Active(o)' = {}
  BY ONLY <1>3, <1>5 DEF InvoicesOf, Active
<1>10. PaidKept
  BY ONLY <1>5 DEF PaidKept
<1> QED
  BY <1>6, <1>7, <1>8, <1>9, <1>10 DEF InvoiceStep

-----------------------------------------------------------------------------
(* What a step does to the readings of the clerks                          *)

\* The clerks who go on are busy with other orders than o.
OthersGoOn(o) ==
  \A c \in Clerks :
    \/ pending'[c] = Idle
    \/ pending'[c] = pending[c] /\ (pending[c].order # o \/ pending[c].kind = "none")

\* No order row but that of o comes or goes.
SameRows(o) ==
  \A x \in AllOrders : x # o => (order'[x].status = "none" <=> order[x].status = "none")

\* The clerks stay apart and their readings stay true when a step concerns one order.
LEMMA ReadingsKept ==
  ASSUME InvoiceInvariant, NEW o, OthersGoOn(o), SameRows(o),
         \A x \in AllOrders : x # o => SameInvoices(x)
  PROVE  Exclusive' /\ Looked'
<1>1. Idle.kind = "none" /\ Idle.order = NoOrder
  BY DEF Idle
<1>2. Exclusive'
  BY <1>1 DEF Exclusive, OthersGoOn, InvoiceInvariant
<1>3. ASSUME NEW c \in Clerks, pending'[c].kind # "none"
      PROVE  StillSo(pending[c])'
  <2>1. pending'[c] = pending[c] /\ pending[c].order # o
    BY <1>1, <1>3 DEF OthersGoOn
  <2>2. StillSo(pending[c])
    BY <1>3, <2>1 DEF InvoiceInvariant, Looked
  <2>3. pending[c].order \in AllOrders /\ SameInvoices(pending[c].order)
    BY <2>1, <2>2 DEF StillSo
  <2>4. order'[pending[c].order].status # "none"
    BY <2>1, <2>2, <2>3 DEF StillSo, SameRows
  <2> QED
    BY <2>1, <2>2, <2>3, <2>4 DEF StillSo, SameInvoices
<1> QED
  BY <1>2, <1>3 DEF Looked

\* The invariant is kept by a step that concerns the order o and leaves it in order.
LEMMA StepKeeps ==
  ASSUME InvoiceInvariant, NEW o \in AllOrders, TypeOK', OthersGoOn(o), SameRows(o),
         InvoiceStep(o), Single(o)', KnownOnly(o)'
  PROVE  InvoiceInvariant' /\ PaidKept
<1>1. Exclusive' /\ Looked'
  BY ReadingsKept DEF InvoiceStep
<1>2. ASSUME NEW x \in AllOrders
      PROVE  Single(x)' /\ KnownOnly(x)'
  <2>1. CASE x = o
    BY <2>1
  <2>2. CASE x # o
    <3>1. SameInvoices(x) /\ (order'[x].status = "none" <=> order[x].status = "none")
      BY <2>2 DEF InvoiceStep, SameRows
    <3>2. Single(x) /\ KnownOnly(x)
      BY DEF InvoiceInvariant
    <3> QED
      BY <3>1, <3>2 DEF Single, KnownOnly, SameInvoices
  <2> QED
    BY <2>1, <2>2
<1> QED
  BY <1>1, <1>2 DEF InvoiceInvariant, InvoiceStep

\* ... and by a step that leaves the invoices that there are to their orders.
LEMMA QuietStepKeeps ==
  ASSUME InvoiceInvariant, TypeOK', \A x \in AllOrders : SameInvoices(x), SameRows(NoOrder),
         InvoiceStep(NoOrder), UNCHANGED pending
  PROVE  InvoiceInvariant' /\ PaidKept
<1>1. NoOrder \notin AllOrders
  BY OrderInvoicesAssumption
<1>2. OthersGoOn(NoOrder)
  BY <1>1 DEF OthersGoOn, InvoiceInvariant, Looked, StillSo
<1>3. Exclusive' /\ Looked'
  BY <1>2, ReadingsKept DEF InvoiceStep
<1>4. ASSUME NEW x \in AllOrders
      PROVE  Single(x)' /\ KnownOnly(x)'
  <2>1. SameInvoices(x) /\ (order'[x].status = "none" <=> order[x].status = "none")
    BY <1>1, <1>4 DEF SameRows
  <2>2. Single(x) /\ KnownOnly(x)
    BY DEF InvoiceInvariant
  <2> QED
    BY <2>1, <2>2 DEF Single, KnownOnly, SameInvoices
<1> QED
  BY <1>3, <1>4 DEF InvoiceInvariant, InvoiceStep

\* A step that does not touch the invoices.
LEMMA UntouchedStep ==
  ASSUME InvoiceInvariant, UNCHANGED invoice, NEW o
  PROVE  InvoiceStep(o) /\ \A x \in AllOrders : SameInvoices(x)
<1>1. invoice \in Seq(Invoice) /\ DOMAIN invoice = 1 .. Len(invoice)
  BY DEF InvoiceInvariant, TypeOK
<1>2. ASSUME NEW i \in DOMAIN invoice, invoice[i].paid > 0
      PROVE  invoice[i].status # "void" /\ invoice[i].paid \in Nat
  BY <1>1, <1>2, PaidIsLive DEF InvoiceInvariant
<1>3. PaidKept
  BY <1>2 DEF PaidKept
<1> QED
  BY <1>1, <1>3 DEF InvoiceStep, SameInvoices, InvoicesOf, Active, InvoiceInvariant

\* A request that begins: it took the lock of its order and what it read is so.
LEMMA BeginKeeps ==
  ASSUME InvoiceInvariant, NEW c \in Clerks, NEW reading \in Reading, Begin(c, reading),
         reading.order \in AllOrders, lock_sales_order(reading.order), StillSo(reading)
  PROVE  InvoiceInvariant' /\ PaidKept
<1>1. pending' = [pending EXCEPT ![c] = reading] /\ UNCHANGED <<order, shipment, invoice>>
  BY DEF Begin
<1>2. pending \in [Clerks -> Reading]
  BY DEF InvoiceInvariant, TypeOK
<1>3. TypeOK'
  BY <1>1, <1>2 DEF InvoiceInvariant, TypeOK
<1>4. InvoiceStep(NoOrder) /\ \A x \in AllOrders : SameInvoices(x)
  BY <1>1, UntouchedStep
<1>5. \A d \in Clerks : pending'[d] = IF d = c THEN reading ELSE pending[d]
  BY <1>1, <1>2
<1>6. \A d \in Clerks : pending[d].order # reading.order
  BY DEF lock_sales_order
<1>7. Exclusive'
  BY <1>5, <1>6 DEF Exclusive, InvoiceInvariant
<1>8. \A p : StillSo(p) => StillSo(p)'
  BY <1>1 DEF StillSo, InvoicesOf, Active
<1>9. Looked'
  BY <1>5, <1>8 DEF Looked, InvoiceInvariant
<1>10. \A x \in AllOrders : Single(x)' /\ KnownOnly(x)'
  BY <1>1 DEF InvoiceInvariant, Single, KnownOnly, InvoicesOf, Active
<1> QED
  BY <1>3, <1>4, <1>7, <1>9, <1>10 DEF InvoiceInvariant, InvoiceStep

-----------------------------------------------------------------------------
(* Issuing invoices and entering receipts                                  *)

\* The status that the code computes says what the amounts say.
LEMMA StatusComputed ==
  ASSUME NEW amount \in Nat, NEW paid \in Nat
  PROVE  invoice_payment_status(amount, paid) \in {"unpaid", "partially_paid", "paid"}
BY DEF invoice_payment_status

LEMMA PaymentStatus ==
  ASSUME NEW inv \in Invoice, inv.status = invoice_payment_status(inv.amount, inv.paid)
  PROVE  inv.status # "void" /\ Truthful(inv)
<1>1. inv.amount \in Nat /\ inv.paid \in Nat
  BY DEF Invoice
<1>2. inv.status # "void"
  BY <1>1, StatusComputed
<1>3. CASE inv.amount - inv.paid <= USD_SETTLEMENT_TOLERANCE
  <2>1. inv.status = "paid"
    BY <1>3 DEF invoice_payment_status
  <2> QED
    BY <1>2, <1>3, <2>1 DEF Truthful
<1>4. CASE ~(inv.amount - inv.paid <= USD_SETTLEMENT_TOLERANCE) /\ inv.paid > 0
  <2>1. inv.status = "partially_paid"
    BY <1>4 DEF invoice_payment_status
  <2>2. inv.amount - inv.paid > USD_SETTLEMENT_TOLERANCE
    BY <1>1, <1>4 DEF USD_SETTLEMENT_TOLERANCE
  <2> QED
    BY <1>2, <1>4, <2>1, <2>2 DEF Truthful
<1>5. CASE ~(inv.amount - inv.paid <= USD_SETTLEMENT_TOLERANCE) /\ ~(inv.paid > 0)
  <2>1. inv.status = "unpaid"
    BY <1>5 DEF invoice_payment_status
  <2>2. inv.paid = 0
    BY <1>1, <1>5
  <2> QED
    BY <1>2, <2>1, <2>2 DEF Truthful
<1> QED
  BY <1>3, <1>4, <1>5

\* An invoice that nobody paid yet.
LEMMA UnpaidInvoice ==
  ASSUME NEW o \in AllOrders, NEW amount \in Nat, NEW inv,
         inv = [order |-> o, amount |-> amount, paid |-> 0, status |-> "unpaid"]
  PROVE  inv \in Invoice /\ inv.order = o /\ Truthful(inv)
BY DEF Truthful, Invoice

\* A receipt that is entered on a live invoice.
LEMMA ReceiptEntered ==
  ASSUME NEW inv \in Invoice, NEW n \in Nat
  PROVE  /\ Paid(inv, n) \in Invoice
         /\ Paid(inv, n).order = inv.order
         /\ Paid(inv, n).amount = inv.amount
         /\ Paid(inv, n).paid >= inv.paid
         /\ Paid(inv, n).status # "void"
         /\ Truthful(Paid(inv, n))
<1> DEFINE sum == inv.paid + n
           status == invoice_payment_status(inv.amount, sum)
<1>1. inv.amount \in Nat /\ inv.paid \in Nat
  BY DEF Invoice
<1>2. sum \in Nat /\ sum >= inv.paid
  BY <1>1
<1>3. status \in {"unpaid", "partially_paid", "paid"}
  BY <1>1, <1>2, StatusComputed
<1>4. Paid(inv, n) = [inv EXCEPT !.paid = sum, !.status = status]
  BY DEF Paid
<1> HIDE DEF sum, status
<1>5. /\ Paid(inv, n) \in Invoice
      /\ Paid(inv, n).order = inv.order
      /\ Paid(inv, n).amount = inv.amount
      /\ Paid(inv, n).paid = sum
      /\ Paid(inv, n).status = status
  BY ONLY inv \in Invoice, <1>2, <1>3, <1>4 DEF Invoice
<1>6. Paid(inv, n).status # "void" /\ Truthful(Paid(inv, n))
  BY <1>5, PaymentStatus DEF status
<1> QED
  BY <1>2, <1>5, <1>6

\* What a clerk who writes has read is still so, and finishing frees only the order held.
LEMMA FinishFacts ==
  ASSUME InvoiceInvariant, NEW c \in Clerks, pending[c].kind # "none", Finish(c)
  PROVE  /\ StillSo(pending[c]) /\ pending[c] \in Reading
         /\ pending' \in [Clerks -> Reading]
         /\ \A o : o = pending[c].order => OthersGoOn(o)
<1>1. pending \in [Clerks -> Reading] /\ StillSo(pending[c])
  BY DEF InvoiceInvariant, TypeOK, Looked
<1>2. Idle \in Reading
  BY DEF Idle, Reading
<1>3. pending' \in [Clerks -> Reading] /\ pending[c] \in Reading
  BY <1>1, <1>2 DEF Finish
<1>4. \A d \in Clerks : d # c => pending'[d] = pending[d]
  BY <1>1 DEF Finish
<1>5. pending'[c] = Idle
  BY <1>1 DEF Finish
<1>6. pending[c].order # NoOrder
  BY <1>1, OrderInvoicesAssumption DEF StillSo
<1>7. \A d \in Clerks : d # c => pending[d].order # pending[c].order
  BY <1>6 DEF InvoiceInvariant, Exclusive
<1>8. ASSUME NEW o, o = pending[c].order
      PROVE  OthersGoOn(o)
  <2>1. ASSUME NEW d \in Clerks
        PROVE  pending'[d] = Idle \/ (pending'[d] = pending[d] /\ pending[d].order # o)
    <3>1. CASE d = c
      BY <1>5, <3>1
    <3>2. CASE d # c
      BY <1>4, <1>7, <1>8, <3>2
    <3> QED
      BY <3>1, <3>2
  <2> QED
    BY ONLY <2>1 DEF OthersGoOn
<1> QED
  BY <1>1, <1>3, <1>8

\* Finance or sales issues an invoice: no other can have been issued since the look.
LEMMA IssueKeeps ==
  ASSUME InvoiceInvariant, NEW c \in Clerks, pending[c].kind \in {"issue", "generate"}, Finish(c),
         NEW o \in AllOrders, o = pending[c].order, NEW new \in Invoice, new.order = o,
         Truthful(new), invoice' = Append(invoice, new), UNCHANGED <<order, shipment>>
  PROVE  InvoiceInvariant' /\ PaidKept
<1>1. StillSo(pending[c]) /\ pending' \in [Clerks -> Reading] /\ OthersGoOn(o)
  BY FinishFacts
<1>2. order[o].status # "none" /\ InvoicesOf(o) = {}
  BY <1>1 DEF StillSo
<1>3. Active(o) = {}
  BY <1>2 DEF Active
<1>4. InvoiceStep(o) /\ Single(o)'
  BY <1>3, IssueStep
<1>5. TypeOK'
  BY <1>1, <1>4 DEF TypeOK, InvoiceInvariant, InvoiceStep
<1>6. SameRows(o) /\ KnownOnly(o)'
  BY <1>2 DEF SameRows, KnownOnly
<1> QED
  BY <1>1, <1>4, <1>5, <1>6, StepKeeps

LEMMA CreateKeeps ==
  ASSUME InvoiceInvariant, NEW c \in Clerks,
         create_order_invoice(c) \/ generate_order_invoice(c)
  PROVE  InvoiceInvariant' /\ PaidKept
<1>1. /\ pending[c].kind \in {"issue", "generate"} /\ Finish(c)
      /\ UNCHANGED <<order, shipment>>
  BY DEF create_order_invoice, generate_order_invoice
<1>2. StillSo(pending[c]) /\ pending[c] \in Reading
  BY <1>1, FinishFacts
<1>3. PICK o \in AllOrders, amount \in Nat : o = pending[c].order /\ amount = pending[c].amount
  BY <1>2 DEF StillSo, Reading
<1> DEFINE computed == [order |-> o, amount |-> amount, paid |-> 0,
                        status |-> invoice_payment_status(amount, 0)]
           unpaid == [order |-> o, amount |-> amount, paid |-> 0, status |-> "unpaid"]
<1>4. computed \in Invoice /\ Truthful(computed) /\ computed.order = o
  <2>1. 0 \in Nat /\ invoice_payment_status(amount, 0) \in {"unpaid", "partially_paid", "paid"}
    BY StatusComputed
  <2>2. computed \in Invoice /\ computed.order = o
    BY <2>1 DEF Invoice
  <2>3. computed.status = invoice_payment_status(computed.amount, computed.paid)
    OBVIOUS
  <2> QED
    BY <2>2, <2>3, PaymentStatus
<1>5. unpaid \in Invoice /\ Truthful(unpaid) /\ unpaid.order = o
  BY UnpaidInvoice
<1>6. invoice' = Append(invoice, computed) \/ invoice' = Append(invoice, unpaid)
  BY <1>3 DEF create_order_invoice, generate_order_invoice, insert_order_invoice
<1> HIDE DEF computed, unpaid
<1> QED
  BY <1>1, <1>3, <1>4, <1>5, <1>6, IssueKeeps

\* A clerk who finishes without issuing or voiding.
LEMMA SettledStepKeeps ==
  ASSUME InvoiceInvariant, NEW o \in AllOrders, TypeOK', OthersGoOn(o), UNCHANGED order,
         InvoiceStep(NoOrder), \A x \in AllOrders : SameInvoices(x)
  PROVE  InvoiceInvariant' /\ PaidKept
<1>1. SameRows(o)
  BY DEF SameRows
<1>2. InvoiceStep(o)
  BY DEF InvoiceStep
<1>3. Single(o) /\ KnownOnly(o) /\ SameInvoices(o)
  BY DEF InvoiceInvariant
<1>4. Single(o)' /\ KnownOnly(o)'
  BY <1>3 DEF Single, KnownOnly, SameInvoices
<1> QED
  BY <1>1, <1>2, <1>4, StepKeeps

LEMMA CashierKeeps ==
  ASSUME InvoiceInvariant, NEW i \in DOMAIN invoice, NEW n \in Receipts, create_invoice_payment(i, n)
  PROVE  InvoiceInvariant' /\ PaidKept
<1> DEFINE new == Paid(invoice[i], n)
<1>1. n \in Nat
  BY OrderInvoicesAssumption
<1>2. invoice[i].status # "void" /\ UNCHANGED <<order, shipment, pending>>
  BY DEF create_invoice_payment
<1>3. invoice' = [invoice EXCEPT ![i] = new]
  BY DEF create_invoice_payment
<1>4. invoice[i] \in Invoice
  BY DEF InvoiceInvariant, TypeOK
<1>5. /\ new \in Invoice /\ new.order = invoice[i].order /\ new.amount = invoice[i].amount
      /\ new.paid >= invoice[i].paid /\ new.status # "void" /\ Truthful(new)
  BY <1>1, <1>4, ReceiptEntered
<1> HIDE DEF new
<1>6. InvoiceStep(NoOrder) /\ \A x \in AllOrders : SameInvoices(x)
  BY <1>2, <1>3, <1>5, ChangeStep
<1>7. TypeOK' /\ SameRows(NoOrder)
  BY <1>2, <1>6 DEF TypeOK, InvoiceInvariant, InvoiceStep, SameRows
<1> QED
  BY <1>2, <1>6, <1>7, QuietStepKeeps

\* The order holds at most one invoice with a balance, so the first one is that one.
LEMMA PayableIsOne ==
  ASSUME InvoiceInvariant, NEW o \in AllOrders, NEW payable,
         payable = _find_payable_invoice(InvoicesOf(o)), payable # {}
  PROVE  (CHOOSE j \in payable : \A k \in payable : j <= k) \in payable
<1>1. \A j \in payable : j \in Active(o) /\ j \in Nat
  BY DEF _find_payable_invoice, Active, InvoicesOf, InvoiceInvariant, TypeOK
<1>2. \A j, k \in payable : j = k
  BY <1>1 DEF InvoiceInvariant, Single
<1>3. \E j \in payable : \A k \in payable : j <= k
  BY <1>1, <1>2
<1> QED
  BY <1>3

LEMMA ReceiveKeeps ==
  ASSUME InvoiceInvariant, NEW c \in Clerks, record_customer_payment(c)
  PROVE  InvoiceInvariant' /\ PaidKept
<1>1. pending[c].kind = "receive" /\ Finish(c) /\ UNCHANGED <<order, shipment>>
  BY DEF record_customer_payment
<1>2. /\ StillSo(pending[c]) /\ pending[c] \in Reading /\ pending' \in [Clerks -> Reading]
      /\ \A x : x = pending[c].order => OthersGoOn(x)
  BY <1>1, FinishFacts
<1>3. PICK o \in AllOrders, n \in Nat : o = pending[c].order /\ n = pending[c].amount
  BY <1>2 DEF StillSo, Reading
<1>4. /\ order[o].status # "none" /\ pending[c].found = InvoicesOf(o)
      /\ OthersGoOn(o) /\ SameRows(o)
  BY <1>1, <1>2, <1>3 DEF StillSo, SameRows
<1>5. PICK total \in Nat : total = order[o].total
  <2>1. order[o] \in OrderRow
    BY DEF InvoiceInvariant, TypeOK
  <2>2. order[o].total \in Amounts \cup {0}
    BY <2>1 DEF OrderRow
  <2>3. Amounts \subseteq Nat
    BY OrderInvoicesAssumption
  <2> QED
    BY <2>2, <2>3
<1> DEFINE payable == _find_payable_invoice(InvoicesOf(o))
           first == CHOOSE j \in payable : \A k \in payable : j <= k
           new == [order |-> o, amount |-> total, paid |-> 0, status |-> "unpaid"]
<1>6. \A m \in Nat : Least(n, m) \in Nat
  BY DEF Least
<1>7. CASE payable # {} /\ invoice' = [invoice EXCEPT ![first] = Paid(@, Least(n, @.amount - @.paid))]
  <2>1. first \in payable
    BY <1>7, PayableIsOne
  <2>2. PICK k \in payable : k = first
    BY <2>1
  <2>3. /\ k \in DOMAIN invoice /\ invoice[k].status # "void"
        /\ invoice[k] \in Invoice /\ invoice[k].amount > invoice[k].paid
    BY DEF _find_payable_invoice, InvoicesOf, InvoiceInvariant, TypeOK
  <2>4. invoice[k].amount - invoice[k].paid \in Nat
    BY <2>3 DEF Invoice
  <2>5. PICK m \in Nat : m = Least(n, invoice[k].amount - invoice[k].paid)
    BY <1>6, <2>4
  <2>6. invoice' = [invoice EXCEPT ![k] = Paid(invoice[k], m)]
    BY <1>7, <2>2, <2>3, <2>5
  <2> DEFINE paid == Paid(invoice[k], m)
  <2>7. /\ paid \in Invoice /\ paid.order = invoice[k].order /\ paid.amount = invoice[k].amount
        /\ paid.paid >= invoice[k].paid /\ paid.status # "void" /\ Truthful(paid)
    BY <2>3, ReceiptEntered
  <2> HIDE DEF paid, payable, first
  <2>8. invoice' = [invoice EXCEPT ![k] = paid]
    BY <2>6 DEF paid
  <2>9. InvoiceStep(NoOrder) /\ \A x \in AllOrders : SameInvoices(x)
    BY <2>3, <2>7, <2>8, ChangeStep
  <2>10. TypeOK'
    BY <1>1, <1>2, <2>9 DEF TypeOK, InvoiceInvariant, InvoiceStep
  <2> QED
    BY <1>1, <1>4, <2>9, <2>10, SettledStepKeeps
<1>8. CASE /\ pending[c].found = {}
           /\ invoice' = Append(invoice, IF total = 0 THEN new ELSE Paid(new, Least(n, total)))
  <2>1. Active(o) = {}
    BY <1>4, <1>8 DEF Active
  <2>2. new \in Invoice /\ new.order = o /\ Truthful(new)
    BY UnpaidInvoice
  <2>3. /\ Paid(new, Least(n, total)) \in Invoice /\ Paid(new, Least(n, total)).order = o
        /\ Truthful(Paid(new, Least(n, total)))
    BY <1>6, <2>2, ReceiptEntered
  <2>4. PICK issued \in Invoice :
           issued.order = o /\ Truthful(issued) /\ invoice' = Append(invoice, issued)
    BY <1>8, <2>2, <2>3
  <2>5. InvoiceStep(o) /\ Single(o)'
    BY <2>1, <2>4, IssueStep
  <2>6. TypeOK'
    BY <1>1, <1>2, <2>5 DEF TypeOK, InvoiceInvariant, InvoiceStep
  <2>7. KnownOnly(o)'
    BY <1>1, <1>4 DEF KnownOnly
  <2> QED
    BY <1>4, <2>5, <2>6, <2>7, StepKeeps
<1>9. CASE UNCHANGED invoice
  <2>1. InvoiceStep(NoOrder) /\ \A x \in AllOrders : SameInvoices(x)
    BY <1>9, UntouchedStep
  <2>2. TypeOK'
    BY <1>1, <1>2, <2>1 DEF TypeOK, InvoiceInvariant, InvoiceStep
  <2> QED
    BY <1>1, <1>4, <2>1, <2>2, SettledStepKeeps
<1> QED
  BY <1>3, <1>4, <1>5, <1>7, <1>8, <1>9 DEF record_customer_payment

-----------------------------------------------------------------------------
(* Orders and shipments                                                    *)

\* Typing, row by row.
LEMMA OrderChanged ==
  ASSUME InvoiceInvariant, NEW o \in AllOrders, NEW row \in OrderRow,
         order' = [order EXCEPT ![o] = row]
  PROVE  /\ order' \in [AllOrders -> OrderRow] /\ SameRows(o) /\ order'[o] = row
         /\ (row.status = "none" <=> order[o].status = "none") => SameRows(NoOrder)
BY DEF InvoiceInvariant, TypeOK, SameRows

LEMMA ShipmentChanged ==
  ASSUME InvoiceInvariant, NEW s \in Shipments, NEW row \in Shipment,
         shipment' = [shipment EXCEPT ![s] = row]
  PROVE  shipment' \in [Shipments -> Shipment]
BY DEF InvoiceInvariant, TypeOK

\* Requests on orders and shipments that leave the invoices alone.
LEMMA ShipmentOnlyKeeps ==
  ASSUME InvoiceInvariant, NEW s \in Shipments, NEW row \in Shipment,
         shipment' = [shipment EXCEPT ![s] = row], UNCHANGED <<order, invoice, pending>>
  PROVE  InvoiceInvariant' /\ PaidKept
<1>1. shipment' \in [Shipments -> Shipment]
  BY ShipmentChanged
<1>2. TypeOK' /\ SameRows(NoOrder)
  BY <1>1 DEF TypeOK, InvoiceInvariant, SameRows
<1>3. InvoiceStep(NoOrder) /\ \A x \in AllOrders : SameInvoices(x)
  BY UntouchedStep
<1> QED
  BY <1>2, <1>3, QuietStepKeeps

LEMMA ConfirmKeeps ==
  ASSUME InvoiceInvariant, NEW o \in AllOrders, confirm_sales_order(o)
  PROVE  InvoiceInvariant' /\ PaidKept
<1> DEFINE row == [order[o] EXCEPT !.status = "confirmed"]
<1>1. order[o] \in OrderRow /\ order[o].status = "draft"
  BY DEF InvoiceInvariant, TypeOK, confirm_sales_order
<1>2. row \in OrderRow /\ row.status = "confirmed"
  BY <1>1 DEF OrderRow
<1>3. order' = [order EXCEPT ![o] = row] /\ UNCHANGED <<shipment, invoice, pending>>
  BY DEF confirm_sales_order, InvoiceInvariant, TypeOK
<1> HIDE DEF row
<1>4. order' \in [AllOrders -> OrderRow] /\ SameRows(NoOrder)
  BY <1>1, <1>2, <1>3, OrderChanged
<1>5. TypeOK'
  BY <1>3, <1>4 DEF TypeOK, InvoiceInvariant
<1>6. InvoiceStep(NoOrder) /\ \A x \in AllOrders : SameInvoices(x)
  BY <1>3, UntouchedStep
<1> QED
  BY <1>3, <1>4, <1>5, <1>6, QuietStepKeeps

LEMMA DeleteKeeps ==
  ASSUME InvoiceInvariant, NEW o \in AllOrders, delete_sales_order(o)
  PROVE  InvoiceInvariant' /\ PaidKept
<1>1. NoRow \in OrderRow
  BY DEF NoRow, OrderRow
<1>2. /\ lock_sales_order(o) /\ InvoicesOf(o) = {} /\ UNCHANGED <<shipment, invoice, pending>>
      /\ order' = [order EXCEPT ![o] = NoRow]
  BY DEF delete_sales_order
<1>3. order' \in [AllOrders -> OrderRow] /\ SameRows(o)
  BY <1>1, <1>2, OrderChanged
<1>4. TypeOK'
  BY <1>2, <1>3 DEF TypeOK, InvoiceInvariant
<1>5. InvoiceStep(o) /\ SameInvoices(o)
  BY <1>2, UntouchedStep
<1>6. OthersGoOn(o)
  BY <1>2 DEF OthersGoOn, lock_sales_order
<1>7. Single(o)' /\ KnownOnly(o)'
  BY <1>2, <1>5 DEF Single, KnownOnly, SameInvoices, InvoiceInvariant
<1> QED
  BY <1>3, <1>4, <1>5, <1>6, <1>7, StepKeeps

LEMMA DocumentsKeep ==
  ASSUME InvoiceInvariant, NEW s \in Shipments,
         \/ \E o \in AllOrders : create_shipment(s, o)
         \/ CreateManual(s) \/ delete_manual_shipment(s) \/ DeliverUnposted(s)
  PROVE  InvoiceInvariant' /\ PaidKept
<1>1. shipment[s] \in Shipment
  BY DEF InvoiceInvariant, TypeOK
<1>2. ASSUME NEW o \in AllOrders, create_shipment(s, o)
      PROVE  \E row \in Shipment : shipment' = [shipment EXCEPT ![s] = row]
  BY <1>2 DEF create_shipment, Absent, Shipment
<1>3. CASE CreateManual(s)
  <2>1. [Absent EXCEPT !.status = "created", !.manual = TRUE] \in Shipment
    BY DEF Absent, Shipment
  <2> QED
    BY <1>3, <2>1, ShipmentOnlyKeeps DEF CreateManual
<1>4. CASE delete_manual_shipment(s)
  <2>1. [shipment[s] EXCEPT !.status = "cancelled"] \in Shipment
    BY <1>1 DEF Shipment
  <2>2. shipment' = [shipment EXCEPT ![s] = [shipment[s] EXCEPT !.status = "cancelled"]]
    BY <1>4 DEF delete_manual_shipment, InvoiceInvariant, TypeOK
  <2> QED
    BY <1>4, <2>1, <2>2, ShipmentOnlyKeeps DEF delete_manual_shipment
<1>5. CASE DeliverUnposted(s)
  <2>1. [shipment[s] EXCEPT !.status = "delivered"] \in Shipment
    BY <1>1 DEF Shipment
  <2>2. shipment' = [shipment EXCEPT ![s] = [shipment[s] EXCEPT !.status = "delivered"]]
    BY <1>5 DEF DeliverUnposted, InvoiceInvariant, TypeOK
  <2> QED
    BY <1>5, <2>1, <2>2, ShipmentOnlyKeeps DEF DeliverUnposted
<1>6. CASE \E o \in AllOrders : create_shipment(s, o)
  BY <1>2, <1>6, ShipmentOnlyKeeps DEF create_shipment
<1> QED
  BY <1>3, <1>4, <1>5, <1>6

LEMMA ShipOrderKeeps ==
  ASSUME InvoiceInvariant, NEW s \in Shipments, NEW amount, ShipOrder(s, amount)
  PROVE  InvoiceInvariant' /\ PaidKept
<1>1. shipment[s] \in Shipment
  BY DEF InvoiceInvariant, TypeOK
<1>2. PICK o \in AllOrders : o = shipment[s].order
  BY <1>1 DEF ShipOrder, Shipment
<1>3. order[o] \in OrderRow
  BY DEF InvoiceInvariant, TypeOK
<1>4. amount \in Amounts \cup {Unpriced} /\ UNCHANGED <<invoice, pending>>
  BY DEF ShipOrder, Prices
<1>5. order' \in [AllOrders -> OrderRow] /\ SameRows(NoOrder)
  <2>1. CASE UNCHANGED order
    BY <2>1 DEF SameRows, InvoiceInvariant, TypeOK
  <2>2. ASSUME NEW total \in Amounts, order' = [order EXCEPT ![o].total = total]
        PROVE  order' \in [AllOrders -> OrderRow] /\ SameRows(NoOrder)
    <3>1. /\ [order[o] EXCEPT !.total = total] \in OrderRow
          /\ [order[o] EXCEPT !.total = total].status = order[o].status
      BY <1>3 DEF OrderRow
    <3>2. order' = [order EXCEPT ![o] = [order[o] EXCEPT !.total = total]]
      BY <2>2 DEF InvoiceInvariant, TypeOK
    <3> QED
      BY <3>1, <3>2, OrderChanged
  <2> QED
    BY <1>2, <2>1, <2>2 DEF ShipOrder
<1>6. shipment' \in [Shipments -> Shipment]
  <2> DEFINE row == [shipment[s] EXCEPT !.status = "shipped", !.amount = amount]
  <2>1. row \in Shipment
    BY <1>1, <1>4 DEF Shipment
  <2>2. shipment' = [shipment EXCEPT ![s].status = "shipped", ![s].amount = amount]
    BY DEF ShipOrder
  <2>3. shipment' = [shipment EXCEPT ![s] = row]
    BY <2>2 DEF InvoiceInvariant, TypeOK
  <2> QED
    BY <2>1, <2>3, ShipmentChanged
<1>7. TypeOK'
  BY <1>4, <1>5, <1>6 DEF TypeOK, InvoiceInvariant
<1>8. InvoiceStep(NoOrder) /\ \A x \in AllOrders : SameInvoices(x)
  BY <1>4, UntouchedStep
<1> QED
  BY <1>4, <1>5, <1>7, <1>8, QuietStepKeeps

\* A manual shipment is posted: its order row is new, so it has no invoices and no clerk.
LEMMA PostKeeps ==
  ASSUME InvoiceInvariant, NEW s \in Shipments, NEW b \in Booked, NEW amount \in Amounts,
         NEW st \in {"shipped", "delivered"}, post_manual_shipment_invoice(s, b, st, amount),
         UNCHANGED pending
  PROVE  InvoiceInvariant' /\ PaidKept
<1> DEFINE row == [status |-> "confirmed", total |-> amount, packs |-> FALSE]
           new == [order |-> b, amount |-> amount, paid |-> 0, status |-> "unpaid"]
           sent == [shipment[s] EXCEPT !.status = st, !.order = b, !.amount = amount]
<1>1. b \in AllOrders /\ amount \in Nat
  BY OrderInvoicesAssumption DEF AllOrders
<1>2. order[b].status = "none" /\ order' = [order EXCEPT ![b] = row] /\ invoice' = Append(invoice, new)
  BY DEF post_manual_shipment_invoice, insert_order_invoice
<1>3. shipment' = [shipment EXCEPT ![s] = sent]
  BY DEF post_manual_shipment_invoice, InvoiceInvariant, TypeOK
<1>4. row \in OrderRow /\ row.status # "none"
  BY DEF OrderRow
<1>5. shipment[s] \in Shipment
  BY DEF InvoiceInvariant, TypeOK
<1>6. sent \in Shipment
  BY <1>1, <1>5 DEF Shipment
<1>7. new \in Invoice /\ new.order = b /\ Truthful(new)
  BY <1>1, UnpaidInvoice
<1>8. Active(b) = {}
  BY <1>1, <1>2 DEF Active, KnownOnly, InvoiceInvariant
<1> HIDE DEF row, new, sent
<1>9. InvoiceStep(b) /\ Single(b)'
  BY <1>1, <1>2, <1>7, <1>8, IssueStep
<1>10. /\ order' \in [AllOrders -> OrderRow] /\ SameRows(b) /\ order'[b] = row
       /\ shipment' \in [Shipments -> Shipment]
  BY <1>1, <1>2, <1>3, <1>4, <1>6, OrderChanged, ShipmentChanged
<1>11. TypeOK'
  BY <1>9, <1>10 DEF TypeOK, InvoiceInvariant, InvoiceStep
<1>12. KnownOnly(b)'
  BY <1>4, <1>10 DEF KnownOnly
<1>13. OthersGoOn(b)
  BY <1>2 DEF OthersGoOn, InvoiceInvariant, Looked, StillSo
<1> QED
  BY <1>1, <1>9, <1>10, <1>11, <1>12, <1>13, StepKeeps

LEMMA ManualKeeps ==
  ASSUME InvoiceInvariant, NEW s \in Shipments, NEW amount,
         \/ ShipManual(s, amount)
         \/ amount \in Amounts /\ review_shipment_amount(s, amount)
  PROVE  InvoiceInvariant' /\ PaidKept
<1>1. shipment[s] \in Shipment
  BY DEF InvoiceInvariant, TypeOK
<1>2. CASE amount \in Amounts /\ review_shipment_amount(s, amount)
  <2>1. shipment[s].status \in {"shipped", "delivered"} /\ UNCHANGED pending
    BY <1>2 DEF review_shipment_amount, Gone
  <2>2. PICK b \in Booked : post_manual_shipment_invoice(s, b, shipment[s].status, amount)
    BY <1>2 DEF review_shipment_amount
  <2>3. PICK st \in {"shipped", "delivered"} : st = shipment[s].status
    BY <2>1
  <2> QED
    BY <1>2, <2>1, <2>2, <2>3, PostKeeps
<1>3. CASE ShipManual(s, amount) /\ Postable(amount)
  <2>1. amount \in Amounts
    BY <1>3 DEF ShipManual, Postable, Prices
  <2>2. PICK b \in Booked : post_manual_shipment_invoice(s, b, "shipped", amount)
    BY <1>3 DEF ShipManual
  <2> QED
    BY <1>3, <2>1, <2>2, PostKeeps DEF ShipManual
<1>4. CASE ShipManual(s, amount) /\ ~Postable(amount)
  <2>1. [shipment[s] EXCEPT !.status = "shipped"] \in Shipment
    BY <1>1 DEF Shipment
  <2>2. /\ shipment' = [shipment EXCEPT ![s] = [shipment[s] EXCEPT !.status = "shipped"]]
        /\ UNCHANGED <<order, invoice, pending>>
    BY <1>4 DEF ShipManual, InvoiceInvariant, TypeOK
  <2> QED
    BY <2>1, <2>2, ShipmentOnlyKeeps
<1> QED
  BY <1>2, <1>3, <1>4

-----------------------------------------------------------------------------
(* Delivery and reversal                                                   *)

LEMMA DeliverKeeps ==
  ASSUME InvoiceInvariant, NEW c \in Clerks, invoice_for_frozen_delivery(c)
  PROVE  InvoiceInvariant' /\ PaidKept
<1>1. pending[c].kind = "deliver" /\ Finish(c) /\ UNCHANGED order
  BY DEF invoice_for_frozen_delivery
<1>2. /\ StillSo(pending[c]) /\ pending[c] \in Reading /\ pending' \in [Clerks -> Reading]
      /\ \A x : x = pending[c].order => OthersGoOn(x)
  BY <1>1, FinishFacts
<1>3. PICK o \in AllOrders, owed \in Nat : o = pending[c].order /\ owed = pending[c].amount
  BY <1>2 DEF StillSo, Reading
<1>4. /\ order[o].status # "none" /\ pending[c].found = Active(o)
      /\ OthersGoOn(o) /\ SameRows(o)
  BY <1>1, <1>2, <1>3 DEF StillSo, SameRows
<1>5. shipment' \in [Shipments -> Shipment]
  <2>1. \A s \in Shipments : [shipment[s] EXCEPT !.status = "delivered"] \in Shipment
    BY DEF Shipment, InvoiceInvariant, TypeOK
  <2>2. shipment' = [shipment EXCEPT ![pending[c].shipment].status = "delivered"]
    BY DEF invoice_for_frozen_delivery
  <2> QED
    BY <2>1, <2>2 DEF InvoiceInvariant, TypeOK
<1>6. CASE UNCHANGED invoice
  <2>1. InvoiceStep(NoOrder) /\ \A x \in AllOrders : SameInvoices(x)
    BY <1>6, UntouchedStep
  <2>2. TypeOK'
    BY <1>1, <1>2, <1>5, <2>1 DEF TypeOK, InvoiceInvariant, InvoiceStep
  <2> QED
    BY <1>1, <1>4, <2>1, <2>2, SettledStepKeeps
<1>7. CASE pending[c].found = {} /\ insert_order_invoice(o, owed, "unpaid")
  <2> DEFINE new == [order |-> o, amount |-> owed, paid |-> 0, status |-> "unpaid"]
  <2>1. new \in Invoice /\ new.order = o /\ Truthful(new)
    BY UnpaidInvoice
  <2>2. invoice' = Append(invoice, new)
    BY <1>7 DEF insert_order_invoice
  <2> HIDE DEF new
  <2>3. InvoiceStep(o) /\ Single(o)'
    BY <1>4, <1>7, <2>1, <2>2, IssueStep
  <2>4. TypeOK'
    BY <1>1, <1>2, <1>5, <2>3 DEF TypeOK, InvoiceInvariant, InvoiceStep
  <2>5. KnownOnly(o)'
    BY <1>1, <1>4 DEF KnownOnly
  <2> QED
    BY <1>4, <2>3, <2>4, <2>5, StepKeeps
<1>8. ASSUME NEW i \in pending[c].found, invoice[i].status = "unpaid", invoice[i].paid = 0,
             invoice' = [invoice EXCEPT ![i].amount = owed]
      PROVE  InvoiceInvariant' /\ PaidKept
  <2>1. PICK k \in DOMAIN invoice : k = i
    BY <1>4 DEF Active, InvoicesOf
  <2> DEFINE new == [invoice[k] EXCEPT !.amount = owed]
  <2>2. invoice[k] \in Invoice
    BY DEF InvoiceInvariant, TypeOK
  <2>3. /\ new \in Invoice /\ new.order = invoice[k].order
        /\ new.status = "unpaid" /\ new.paid = 0
    BY <1>8, <2>1, <2>2 DEF Invoice
  <2>4. Truthful(new)
    BY <2>3 DEF Truthful
  <2>5. invoice' = [invoice EXCEPT ![k] = new]
    BY <1>8, <2>1
  <2> HIDE DEF new
  <2>6. invoice[k].status # "void" /\ new.status # "void" /\ invoice[k].paid = 0
    BY <1>8, <2>1, <2>3
  <2>7. (invoice[k].paid > 0 => new.amount = invoice[k].amount) /\ new.paid >= invoice[k].paid
    BY <2>3, <2>6
  <2>8. InvoiceStep(NoOrder) /\ \A x \in AllOrders : SameInvoices(x)
    BY <2>3, <2>4, <2>5, <2>6, <2>7, ChangeStep
  <2>9. TypeOK'
    BY <1>1, <1>2, <1>5, <2>8 DEF TypeOK, InvoiceInvariant, InvoiceStep
  <2> QED
    BY <1>1, <1>4, <2>8, <2>9, SettledStepKeeps
<1> QED
  BY <1>3, <1>6, <1>7, <1>8 DEF invoice_for_frozen_delivery

LEMMA ReopenKeeps ==
  ASSUME InvoiceInvariant, NEW s \in Shipments, reopen_shipment(s)
  PROVE  InvoiceInvariant' /\ PaidKept
<1> DEFINE back == [shipment[s] EXCEPT !.status = "created", !.amount = Unpriced]
<1>1. shipment[s] \in Shipment
  BY DEF InvoiceInvariant, TypeOK
<1>2. back \in Shipment /\ [back EXCEPT !.order = NoOrder] \in Shipment
  BY <1>1 DEF Shipment
<1>3. CASE shipment[s].order = NoOrder
  <2>1. shipment' = [shipment EXCEPT ![s] = back] /\ UNCHANGED <<order, invoice, pending>>
    BY <1>3 DEF reopen_shipment
  <2> HIDE DEF back
  <2> QED
    BY <1>2, <2>1, ShipmentOnlyKeeps
<1>4. CASE shipment[s].order # NoOrder
  <2>1. PICK o \in AllOrders : o = shipment[s].order
    BY <1>1, <1>4 DEF Shipment
  <2>2. /\ lock_sales_order(o) /\ invoice' = Void(o) /\ UNCHANGED pending
        /\ \A i \in InvoicesOf(o) : invoice[i].paid = 0
    BY <1>4, <2>1 DEF reopen_shipment, Reversible
  <2>3. order[o] \in OrderRow
    BY DEF InvoiceInvariant, TypeOK
  <2>4. PICK row \in OrderRow : row.status # "none" /\ order' = [order EXCEPT ![o] = row]
    <3>1. /\ [order[o] EXCEPT !.status = "cancelled", !.total = 0] \in OrderRow
          /\ [order[o] EXCEPT !.status = "cancelled", !.total = 0].status # "none"
          /\ [order[o] EXCEPT !.status = "ready_to_ship"] \in OrderRow
          /\ [order[o] EXCEPT !.status = "ready_to_ship"].status # "none"
      BY <2>3 DEF OrderRow
    <3>2. \/ order' = [order EXCEPT ![o] = [order[o] EXCEPT !.status = "cancelled", !.total = 0]]
          \/ order' = [order EXCEPT ![o] = [order[o] EXCEPT !.status = "ready_to_ship"]]
      BY <1>4, <2>1 DEF reopen_shipment, InvoiceInvariant, TypeOK
    <3> QED
      BY <3>1, <3>2
  <2>5. order' \in [AllOrders -> OrderRow] /\ SameRows(o) /\ order'[o].status # "none"
    BY <2>4, OrderChanged
  <2>6. shipment' \in [Shipments -> Shipment]
    <3>1. \/ shipment' = [shipment EXCEPT ![s] = back]
          \/ shipment' = [shipment EXCEPT ![s] = [back EXCEPT !.order = NoOrder]]
      BY <1>4 DEF reopen_shipment
    <3> HIDE DEF back
    <3> QED
      BY <1>2, <3>1, ShipmentChanged
  <2>7. InvoiceStep(o) /\ InvoicesOf(o)' = InvoicesOf(o) /\ Active(o)' = {}
    BY <2>2, VoidStep
  <2>8. TypeOK'
    BY <2>2, <2>5, <2>6, <2>7 DEF TypeOK, InvoiceInvariant, InvoiceStep
  <2>9. OthersGoOn(o)
    BY <2>2 DEF OthersGoOn, lock_sales_order
  <2>10. Single(o)' /\ KnownOnly(o)'
    BY <2>5, <2>7 DEF Single, KnownOnly
  <2> QED
    BY <2>5, <2>7, <2>8, <2>9, <2>10, StepKeeps
<1> QED
  BY <1>3, <1>4

-----------------------------------------------------------------------------
(* Requests that begin or fail                                             *)

\* What is owed is a number: the sum of the amounts that went out.
LEMMA OwedIsNumber ==
  ASSUME InvoiceInvariant, NEW o, \A x \in On(o) : shipment[x].amount # Unpriced
  PROVE  SumOf([x \in On(o) |-> shipment[x].amount]) \in Nat
<1>1. IsFiniteSet(On(o))
  BY OrderInvoicesAssumption, FS_Subset DEF On
<1>2. \A x \in On(o) : shipment[x] \in Shipment
  BY DEF On, InvoiceInvariant, TypeOK
<1>3. \A x \in On(o) : shipment[x].amount \in Amounts
  BY <1>2 DEF Shipment
<1>4. Amounts \subseteq Nat
  BY OrderInvoicesAssumption
<1>5. [x \in On(o) |-> shipment[x].amount] \in [On(o) -> Nat]
  BY <1>3, <1>4
<1> QED
  BY <1>1, <1>5, UnitsFinite

LEMMA BeginDeliverKeeps ==
  ASSUME InvoiceInvariant, NEW c \in Clerks, NEW s \in Shipments, BeginDeliver(c, s)
  PROVE  InvoiceInvariant' /\ PaidKept
<1> DEFINE owed == SumOf([x \in On(shipment[s].order) |-> shipment[x].amount])
           reading == [Idle EXCEPT !.kind = "deliver", !.order = shipment[s].order, !.shipment = s,
                                   !.found = Active(shipment[s].order), !.amount = owed]
<1>1. shipment[s] \in Shipment /\ shipment[s].order # NoOrder /\ lock_sales_order(shipment[s].order)
  BY DEF BeginDeliver, InvoiceInvariant, TypeOK
<1>2. shipment[s].order \in AllOrders
  BY <1>1 DEF Shipment
<1>3. owed \in Nat
  BY OwedIsNumber DEF BeginDeliver
<1>4. Begin(c, reading)
  BY DEF BeginDeliver
<1>5. Active(shipment[s].order) \in SUBSET Nat
  BY DEF Active, InvoicesOf, InvoiceInvariant, TypeOK
<1> HIDE DEF owed
<1>6. /\ reading \in Reading /\ reading.order = shipment[s].order
      /\ reading.kind = "deliver" /\ reading.found = Active(shipment[s].order)
  BY <1>2, <1>3, <1>5 DEF Idle, Reading
<1> HIDE DEF reading
<1>7. PICK p \in Reading : p = reading
  BY <1>6
<1>8. StillSo(p)
  BY <1>1, <1>2, <1>6, <1>7 DEF StillSo, lock_sales_order
<1> QED
  BY <1>1, <1>2, <1>4, <1>6, <1>7, <1>8, BeginKeeps

LEMMA BeginMoneyKeeps ==
  ASSUME InvoiceInvariant, NEW c \in Clerks, NEW o \in AllOrders,
         \/ \E amount \in Amounts \cup {order[o].total} : BeginIssue(c, o, amount)
         \/ BeginGenerate(c, o)
         \/ \E n \in Receipts : BeginReceive(c, o, n)
  PROVE  InvoiceInvariant' /\ PaidKept
<1>1. order[o] \in OrderRow
  BY DEF InvoiceInvariant, TypeOK
<1>2. order[o].total \in Amounts \cup {0}
  BY <1>1 DEF OrderRow
<1>3. Amounts \subseteq Nat /\ Receipts \subseteq Nat
  BY OrderInvoicesAssumption
<1>4. InvoicesOf(o) \in SUBSET Nat
  BY DEF InvoicesOf, InvoiceInvariant, TypeOK
<1>5. ASSUME NEW kind \in {"issue", "generate"}, NEW amount \in Nat,
             lock_sales_order(o), InvoicesOf(o) = {},
             Begin(c, [Idle EXCEPT !.kind = kind, !.order = o, !.amount = amount])
      PROVE  InvoiceInvariant' /\ PaidKept
  <2> DEFINE p == [Idle EXCEPT !.kind = kind, !.order = o, !.amount = amount]
  <2>1. p \in Reading /\ p.order = o /\ p.kind = kind
    BY DEF Idle, Reading
  <2>2. Begin(c, p)
    BY <1>5
  <2> HIDE DEF p
  <2>3. StillSo(p)
    BY <1>5, <2>1 DEF StillSo, lock_sales_order
  <2> QED
    BY <1>5, <2>1, <2>2, <2>3, BeginKeeps
<1>6. ASSUME NEW amount \in Amounts \cup {order[o].total}, BeginIssue(c, o, amount)
      PROVE  InvoiceInvariant' /\ PaidKept
  <2>1. amount \in Nat
    BY <1>2, <1>3
  <2> QED
    BY <1>5, <1>6, <2>1 DEF BeginIssue
<1>7. ASSUME BeginGenerate(c, o)
      PROVE  InvoiceInvariant' /\ PaidKept
  <2>1. PICK amount \in Nat : amount = order[o].total
    BY <1>2, <1>3
  <2> QED
    BY <1>5, <1>7, <2>1 DEF BeginGenerate
<1>8. ASSUME NEW n \in Receipts, BeginReceive(c, o, n)
      PROVE  InvoiceInvariant' /\ PaidKept
  <2>1. PICK found \in SUBSET Nat : found = InvoicesOf(o)
    BY <1>4
  <2> DEFINE p == [Idle EXCEPT !.kind = "receive", !.order = o, !.amount = n, !.found = found]
  <2>2. n \in Nat
    BY <1>3
  <2>3. p \in Reading /\ p.order = o /\ p.kind = "receive" /\ p.found = found
    BY <2>2 DEF Idle, Reading
  <2>4. Begin(c, p) /\ lock_sales_order(o)
    BY <1>8, <2>1 DEF BeginReceive
  <2> HIDE DEF p
  <2>5. StillSo(p)
    BY <2>1, <2>3, <2>4 DEF StillSo, lock_sales_order
  <2> QED
    BY <2>3, <2>4, <2>5, BeginKeeps
<1> QED
  BY <1>6, <1>7, <1>8

LEMMA AbortKeeps ==
  ASSUME InvoiceInvariant, NEW c \in Clerks, Abort(c)
  PROVE  InvoiceInvariant' /\ PaidKept
<1>1. Finish(c) /\ UNCHANGED <<order, shipment, invoice>>
  BY DEF Abort
<1>2. pending \in [Clerks -> Reading]
  BY DEF InvoiceInvariant, TypeOK
<1>3. Idle \in Reading
  BY DEF Idle, Reading
<1>4. pending' \in [Clerks -> Reading] /\ \A d \in Clerks : pending'[d] = Idle \/ pending'[d] = pending[d]
  BY <1>1, <1>2, <1>3 DEF Finish
<1>5. InvoiceStep(NoOrder) /\ \A x \in AllOrders : SameInvoices(x)
  BY <1>1, UntouchedStep
<1>6. TypeOK' /\ SameRows(NoOrder)
  BY <1>1, <1>4, <1>5 DEF TypeOK, InvoiceInvariant, InvoiceStep, SameRows
<1>7. NoOrder \notin AllOrders
  BY OrderInvoicesAssumption
<1>8. OthersGoOn(NoOrder)
  BY <1>4, <1>7 DEF OthersGoOn, InvoiceInvariant, Looked, StillSo
<1>9. Exclusive' /\ Looked'
  BY <1>5, <1>6, <1>8, ReadingsKept
<1>10. \A x \in AllOrders : Single(x)' /\ KnownOnly(x)'
  BY <1>1 DEF InvoiceInvariant, Single, KnownOnly, InvoicesOf, Active
<1> QED
  BY <1>5, <1>6, <1>9, <1>10 DEF InvoiceInvariant, InvoiceStep

LEMMA StutterKeeps ==
  ASSUME InvoiceInvariant, UNCHANGED vars
  PROVE  InvoiceInvariant' /\ PaidKept
<1>1. UNCHANGED <<order, shipment, invoice, pending>>
  BY DEF vars
<1>2. InvoiceStep(NoOrder) /\ \A x \in AllOrders : SameInvoices(x)
  BY <1>1, UntouchedStep
<1>3. TypeOK' /\ SameRows(NoOrder)
  BY <1>1 DEF TypeOK, InvoiceInvariant, SameRows
<1> QED
  BY <1>1, <1>2, <1>3, QuietStepKeeps

-----------------------------------------------------------------------------
(* The theorems                                                            *)

LEMMA InitInvariant ==
  ASSUME Init
  PROVE  InvoiceInvariant
<1>1. order \in [AllOrders -> OrderRow] /\ shipment = [s \in Shipments |-> Absent]
      /\ invoice = <<>> /\ pending = [c \in Clerks |-> Idle]
  BY DEF Init
<1>2. Absent \in Shipment /\ Idle \in Reading
  BY DEF Absent, Shipment, Idle, Reading
<1>3. invoice \in Seq(Invoice) /\ DOMAIN invoice = {}
  BY <1>1
<1>4. TypeOK
  BY <1>1, <1>2, <1>3 DEF TypeOK
<1>5. \A c \in Clerks : pending[c].kind = "none" /\ pending[c].order = NoOrder
  BY <1>1 DEF Idle
<1>6. \A o \in AllOrders : InvoicesOf(o) = {} /\ Active(o) = {}
  BY <1>3 DEF InvoicesOf, Active
<1>7. \A o \in AllOrders : Single(o) /\ KnownOnly(o)
  BY <1>6 DEF Single, KnownOnly
<1> QED
  BY <1>3, <1>4, <1>5, <1>7 DEF InvoiceInvariant, Exclusive, Looked

LEMMA NextKeeps ==
  ASSUME InvoiceInvariant, [Next]_vars
  PROVE  InvoiceInvariant' /\ PaidKept
<1>1. CASE Sales
  BY <1>1, ConfirmKeeps, DeleteKeeps, DocumentsKeep DEF Sales
<1>2. CASE Money
  BY <1>2, BeginMoneyKeeps, CashierKeeps DEF Money
<1>3. CASE Warehouse
  <2>1. PICK s \in Shipments :
           \/ CreateManual(s) \/ delete_manual_shipment(s) \/ DeliverUnposted(s)
           \/ \E amount \in Amounts \cup {Unpriced} : ShipOrder(s, amount) \/ ShipManual(s, amount)
           \/ \E amount \in Amounts : review_shipment_amount(s, amount)
           \/ reopen_shipment(s)
           \/ \E c \in Clerks : BeginDeliver(c, s)
    BY <1>3 DEF Warehouse
  <2> QED
    BY <2>1, DocumentsKeep, ShipOrderKeeps, ManualKeeps, ReopenKeeps, BeginDeliverKeeps
<1>4. CASE Write
  BY <1>4, CreateKeeps, ReceiveKeeps, DeliverKeeps, AbortKeeps DEF Write
<1>5. CASE UNCHANGED vars
  BY <1>5, StutterKeeps
<1> QED
  BY <1>1, <1>2, <1>3, <1>4, <1>5 DEF Next

\* The locks keep what every request has read true until it writes.
THEOREM InvoiceInvariantHolds == Spec => []InvoiceInvariant
<1>1. Init => InvoiceInvariant
  BY InitInvariant
<1>2. InvoiceInvariant /\ [Next]_vars => InvoiceInvariant'
  BY NextKeeps
<1> QED
  BY <1>1, <1>2, PTL DEF Spec

\* Orders, shipments, invoices and readings are what the database can hold; what is owed
\* on a delivery is a number because nothing unpriced is delivered on an order.
THEOREM InvoiceTypes == Spec => []TypeOK
<1>1. InvoiceInvariant => TypeOK
  BY DEF InvoiceInvariant
<1> QED
  BY <1>1, InvoiceInvariantHolds, PTL

\* However the five places that issue invoices interleave, an order owes on one at most.
THEOREM AtMostOneLiveInvoice == Spec => []OneLiveInvoice
<1>1. ASSUME InvoiceInvariant, NEW o \in AllOrders
      PROVE  Cardinality(Active(o)) <= 1
  <2>1. \A i, j \in Active(o) : i = j
    BY <1>1 DEF InvoiceInvariant, Single
  <2>2. CASE Active(o) = {}
    <3>1. Cardinality(Active(o)) = 0
      BY <2>2, FS_EmptySet
    <3> QED
      BY <3>1
  <2>3. CASE Active(o) # {}
    <3>1. PICK i \in Active(o) : TRUE
      BY <2>3
    <3>2. Active(o) = {i}
      BY <2>1, <3>1
    <3>3. Cardinality({i}) = 1
      BY FS_Singleton
    <3> QED
      BY <3>2, <3>3
  <2> QED
    BY <2>2, <2>3
<1>2. InvoiceInvariant => OneLiveInvoice
  BY <1>1 DEF OneLiveInvoice
<1> QED
  BY <1>2, InvoiceInvariantHolds, PTL

\* The status of an invoice is what its amount and its receipts say.
THEOREM StatusAlwaysTruthful == Spec => []StatusTruthful
<1>1. ASSUME InvoiceInvariant
      PROVE  StatusTruthful
  <2>1. \A i \in DOMAIN invoice : Truthful(invoice[i]) /\ invoice[i] \in Invoice
    BY <1>1 DEF InvoiceInvariant, TypeOK
  <2>2. \A i \in DOMAIN invoice : invoice[i].status \in {"unpaid", "partially_paid", "paid", "void"}
    BY <2>1 DEF Invoice
  <2> QED
    BY ONLY <2>1, <2>2 DEF StatusTruthful, Truthful
<1> QED
  BY <1>1, InvoiceInvariantHolds, PTL

\* No delivery and no reversal changes what was paid for.
THEOREM SettledAlwaysKept == Spec => SettledKept
<1>1. InvoiceInvariant /\ [Next]_vars => [PaidKept]_vars
  BY NextKeeps
<1> QED
  BY <1>1, InvoiceInvariantHolds, PTL DEF Spec, SettledKept, PaidKept

-----------------------------------------------------------------------------
(* What is billed                                                          *)

\* A shipment with an order is under way, alone on it, and the order has its row.
Placed(s) ==
  shipment[s].order # NoOrder =>
    /\ Live(s) /\ order[shipment[s].order].status # "none"
    /\ \A t \in Shipments : shipment[t].order = shipment[s].order => t = s

\* A delivery that was begun owes what the document of its shipment says.
Owing(p) ==
  p.kind = "deliver" =>
    /\ p.shipment \in Shipments /\ shipment[p.shipment].status = "shipped"
    /\ shipment[p.shipment].order = p.order /\ shipment[p.shipment].amount = p.amount

BilledFor(o, amount) ==
  \E i \in InvoicesOf(o) : Active(o) = {i} /\ invoice[i].amount = amount

Billed(s) ==
  (shipment[s].status = "delivered" \/ shipment[s].manual) /\ shipment[s].order # NoOrder =>
     Gone(s) /\ BilledFor(shipment[s].order, shipment[s].amount)

\* A booked order was posted with an invoice, which lives while its goods are out.
PostedOnly(b) ==
  /\ order[b].status # "none" => InvoicesOf(b) # {}
  /\ Active(b) # {} => \E s \in Shipments : Gone(s) /\ shipment[s].order = b

Billing ==
  /\ \A s \in Shipments : Placed(s) /\ Billed(s)
  /\ \A c \in Clerks : Owing(pending[c])
  /\ \A b \in Booked : PostedOnly(b)

BillingInvariant == InvoiceInvariant /\ Billing

\* The order x has the invoices it had, of the same amounts.
SameBills(x) == SameInvoices(x) /\ \A i \in Active(x) : invoice'[i].amount = invoice[i].amount

SameRow(x) == order'[x].status = "none" <=> order[x].status = "none"

\* Where an order's invoices stand, what it is billed for stands.
LEMMA BillStands ==
  ASSUME NEW x, SameBills(x), NEW amount
  PROVE  BilledFor(x, amount) => BilledFor(x, amount)'
<1> SUFFICES ASSUME BilledFor(x, amount) PROVE BilledFor(x, amount)'
  OBVIOUS
<1>1. PICK i \in InvoicesOf(x) : Active(x) = {i} /\ invoice[i].amount = amount
  BY DEF BilledFor
<1>2. i \in InvoicesOf(x)' /\ Active(x)' = {i} /\ invoice'[i].amount = amount
  BY <1>1 DEF SameBills, SameInvoices
<1> QED
  BY <1>2 DEF BilledFor

\* A step that concerns the shipment s and its order o, if any, which no other shipment is of.
LEMMA DocumentStep ==
  ASSUME Billing, NEW s, NEW o, s \in Shipments => shipment[s].order \in {NoOrder, o},
         \A t \in Shipments : t # s => shipment'[t] = shipment[t] /\ (shipment[t].order # o \/ o = NoOrder),
         \A t \in Shipments : shipment[t].order \in AllOrders \cup {NoOrder},
         \A x \in AllOrders : x # o => SameBills(x) /\ SameRow(x),
         s \in Shipments => shipment'[s].order \in {NoOrder, o} /\ Placed(s)' /\ Billed(s)',
         o \in Booked => PostedOnly(o)',
         \A c \in Clerks : Owing(pending[c])'
  PROVE  Billing'
<1>1. ASSUME NEW t \in Shipments, t # s
      PROVE  Placed(t)' /\ Billed(t)'
  <2>1. shipment'[t] = shipment[t] /\ (shipment[t].order # o \/ o = NoOrder) /\ Placed(t) /\ Billed(t)
    BY <1>1 DEF Billing
  <2>2. CASE shipment[t].order = NoOrder
    BY <2>1, <2>2 DEF Placed, Billed
  <2>3. CASE shipment[t].order # NoOrder
    <3>1. PICK x \in AllOrders : x = shipment[t].order /\ x # o /\ x # NoOrder
      BY <2>1, <2>3
    <3>2. SameBills(x) /\ SameRow(x)
      BY <3>1
    <3>3. \A u \in Shipments : shipment'[u].order = x => shipment[u].order = x
      BY <3>1
    <3>4. Placed(t)'
      BY <2>1, <3>1, <3>2, <3>3 DEF Placed, SameRow, Live
    <3>5. Billed(t)'
      BY <2>1, <3>1, <3>2, BillStands DEF Billed, Gone
    <3> QED
      BY <3>4, <3>5
  <2> QED
    BY <2>2, <2>3
<1>2. ASSUME NEW b \in Booked, b # o
      PROVE  PostedOnly(b)'
  <2>1. PostedOnly(b) /\ b \in AllOrders /\ b # NoOrder
    BY <1>2, OrderInvoicesAssumption DEF Billing, AllOrders
  <2>2. SameBills(b) /\ SameRow(b)
    BY <1>2, <2>1
  <2>3. \A t \in Shipments : Gone(t) /\ shipment[t].order = b => Gone(t)' /\ shipment'[t].order = b
    BY <1>2, <2>1 DEF Gone
  <2> QED
    BY <2>1, <2>2, <2>3 DEF PostedOnly, SameBills, SameInvoices, SameRow
<1> QED
  BY <1>1, <1>2 DEF Billing

\* A step that leaves shipments and rows as they are, and the bills of every order but o.
LEMMA MoneyStep ==
  ASSUME Billing, NEW o, UNCHANGED shipment,
         \A t \in Shipments : shipment[t].order \in AllOrders \cup {NoOrder},
         \A x \in AllOrders : SameRow(x),
         \A x \in AllOrders : x # o => SameBills(x),
         \A t \in Shipments : shipment[t].order = o => Billed(t)',
         o \in Booked => PostedOnly(o)',
         \A c \in Clerks : Owing(pending[c])'
  PROVE  Billing'
<1>1. ASSUME NEW t \in Shipments
      PROVE  Placed(t)' /\ Billed(t)'
  <2>1. Placed(t) /\ Billed(t)
    BY DEF Billing
  <2>2. CASE shipment[t].order = NoOrder
    BY <2>1, <2>2 DEF Placed, Billed
  <2>3. CASE shipment[t].order # NoOrder
    <3>1. PICK x \in AllOrders : x = shipment[t].order
      BY <2>3
    <3>2. Placed(t)'
      BY <2>1, <3>1 DEF Placed, SameRow, Live
    <3>3. ASSUME x # o PROVE Billed(t)'
      BY <2>1, <3>1, <3>3, BillStands DEF Billed, Gone
    <3> QED
      BY <3>1, <3>2, <3>3
  <2> QED
    BY <2>2, <2>3
<1>2. ASSUME NEW b \in Booked, b # o
      PROVE  PostedOnly(b)'
  <2>1. PostedOnly(b) /\ b \in AllOrders
    BY <1>2 DEF Billing, AllOrders
  <2>2. SameBills(b) /\ SameRow(b)
    BY <1>2, <2>1
  <2> QED
    BY <2>1, <2>2 DEF PostedOnly, SameBills, SameInvoices, SameRow, Gone
<1> QED
  BY <1>1, <1>2 DEF Billing

\* What the documents of shipments are of.
LEMMA DocumentTypes ==
  ASSUME InvoiceInvariant
  PROVE  /\ \A t \in Shipments : shipment[t] \in Shipment /\ shipment[t].order \in AllOrders \cup {NoOrder}
         /\ NoOrder \notin AllOrders
  BY OrderInvoicesAssumption DEF InvoiceInvariant, TypeOK, Shipment

\* Nothing about invoices changes where the invoices do not.
LEMMA BillsUntouched ==
  ASSUME UNCHANGED invoice
  PROVE  \A x : SameBills(x)
  BY DEF SameBills, SameInvoices, InvoicesOf, Active

\* What a delivery owes stands while its shipment and its request do.
LEMMA OwingStands ==
  ASSUME UNCHANGED shipment
  PROVE  \A p : Owing(p) => Owing(p)'
  BY DEF Owing

\* Requests that begin, finish or fail without touching an invoice.
LEMMA ClerkStep ==
  ASSUME BillingInvariant, UNCHANGED <<order, shipment, invoice>>,
         \A c \in Clerks : Owing(pending'[c])
  PROVE  Billing'
<1>1. \A x : SameBills(x) /\ SameRow(x)
  BY BillsUntouched DEF SameRow
<1>2. \A c \in Clerks : Owing(pending[c])'
  BY OwingStands DEF Owing
<1>3. Billing /\ InvoiceInvariant /\ NoOrder \notin Booked
  BY OrderInvoicesAssumption DEF BillingInvariant, AllOrders
<1>4. \A t \in Shipments : shipment[t].order = NoOrder => Billed(t)'
  BY DEF Billed
<1> QED
  BY <1>1, <1>2, <1>3, <1>4, DocumentTypes, MoneyStep

\* A receipt changes what is paid and not what is asked for.
LEMMA ReceiptStep ==
  ASSUME BillingInvariant, UNCHANGED <<order, shipment>>, NEW k \in DOMAIN invoice, NEW new,
         invoice' = [invoice EXCEPT ![k] = new], new.amount = invoice[k].amount,
         new.order = invoice[k].order, new.status # "void", invoice[k].status # "void",
         \A c \in Clerks : Owing(pending'[c])
  PROVE  Billing'
<1>1. /\ DOMAIN invoice' = DOMAIN invoice /\ invoice'[k] = new
      /\ \A i \in DOMAIN invoice : i # k => invoice'[i] = invoice[i]
  BY DEF BillingInvariant, InvoiceInvariant, TypeOK
<1>2. \A x : SameBills(x)
  BY <1>1 DEF SameBills, SameInvoices, InvoicesOf, Active
<1>3. \A x : SameRow(x)
  BY DEF SameRow
<1>4. \A c \in Clerks : Owing(pending[c])'
  BY OwingStands DEF Owing
<1>5. Billing /\ InvoiceInvariant /\ NoOrder \notin Booked
  BY OrderInvoicesAssumption DEF BillingInvariant, AllOrders
<1>6. \A t \in Shipments : shipment[t].order = NoOrder => Billed(t)'
  BY DEF Billed
<1> QED
  BY <1>2, <1>3, <1>4, <1>5, <1>6, DocumentTypes, MoneyStep

\* The invoices after one was issued.
LEMMA Issued ==
  ASSUME InvoiceInvariant, NEW new, invoice' = Append(invoice, new), NEW o, new.order = o,
         new.status # "void"
  PROVE  /\ \A x : x # o => SameBills(x)
         /\ \E n \in InvoicesOf(o)' : Active(o)' = Active(o) \cup {n} /\ invoice'[n] = new
<1> DEFINE n == Len(invoice) + 1
<1>1. invoice \in Seq(Invoice) /\ Len(invoice) \in Nat
  BY DEF InvoiceInvariant, TypeOK
<1>2. /\ DOMAIN invoice = 1 .. Len(invoice) /\ DOMAIN invoice' = 1 .. n
      /\ \A i \in 1 .. Len(invoice) : invoice'[i] = invoice[i]
      /\ invoice'[n] = new
  BY <1>1
<1>3. /\ n \notin DOMAIN invoice /\ DOMAIN invoice' = DOMAIN invoice \cup {n}
      /\ \A i \in DOMAIN invoice : invoice'[i] = invoice[i]
  BY <1>1, <1>2
<1> HIDE DEF n
<1>4. \A x : x # o => SameBills(x)
  BY ONLY <1>2, <1>3, new.order = o DEF SameBills, SameInvoices, InvoicesOf, Active
<1>5. n \in InvoicesOf(o)' /\ Active(o)' = Active(o) \cup {n}
  BY ONLY <1>2, <1>3, new.order = o, new.status # "void" DEF InvoicesOf, Active
<1> QED
  BY <1>2, <1>4, <1>5

\* An invoice issued before anything went out: the order had none, so nothing was billed on it.
LEMMA EarlyIssue ==
  ASSUME BillingInvariant, UNCHANGED <<order, shipment>>, NEW o \in AllOrders, NEW new,
         invoice' = Append(invoice, new), new.order = o, new.status # "void",
         InvoicesOf(o) = {}, order[o].status # "none",
         \A c \in Clerks : Owing(pending'[c])
  PROVE  Billing'
<1>1. Billing /\ InvoiceInvariant
  BY DEF BillingInvariant
<1>2. \A x : x # o => SameBills(x)
  BY <1>1, Issued
<1>3. o \notin Booked
  BY <1>1 DEF Billing, PostedOnly
<1>4. \A t \in Shipments : shipment[t].order = o => Billed(t)'
  BY <1>1, OrderInvoicesAssumption DEF Billing, Billed, BilledFor
<1>5. \A x : SameRow(x)
  BY DEF SameRow
<1>6. \A c \in Clerks : Owing(pending[c])'
  BY OwingStands DEF Owing
<1> QED
  BY <1>1, <1>2, <1>3, <1>4, <1>5, <1>6, DocumentTypes, MoneyStep

\* Where no delivery begins, those that were begun still owe the same.
LEMMA OwingKept ==
  ASSUME Billing, UNCHANGED shipment, \A c \in Clerks : pending'[c] \in {Idle, pending[c]}
  PROVE  \A c \in Clerks : Owing(pending'[c])
  BY DEF Billing, Owing, Idle

\* A request that finishes leaves the others as they are.
LEMMA FinishLeaves ==
  ASSUME InvoiceInvariant, NEW c \in Clerks, Finish(c)
  PROVE  \A d \in Clerks : pending'[d] \in {Idle, pending[d]}
  BY DEF Finish, InvoiceInvariant, TypeOK

\* Finance and sales issue before anything is billed.
LEMMA CreateBills ==
  ASSUME BillingInvariant, NEW c \in Clerks,
         create_order_invoice(c) \/ generate_order_invoice(c)
  PROVE  Billing'
<1>1. /\ pending[c].kind \in {"issue", "generate"} /\ Finish(c)
      /\ UNCHANGED <<order, shipment>>
  BY DEF create_order_invoice, generate_order_invoice
<1>2. InvoiceInvariant /\ Billing
  BY DEF BillingInvariant
<1>3. StillSo(pending[c]) /\ pending[c].order \in AllOrders /\ pending[c].amount \in Nat
  BY <1>1, <1>2, FinishFacts DEF Reading, StillSo
<1>4. PICK o \in AllOrders : o = pending[c].order
  BY <1>3
<1>5. InvoicesOf(o) = {} /\ order[o].status # "none"
  BY <1>1, <1>3, <1>4 DEF StillSo
<1>6. \A d \in Clerks : Owing(pending'[d])
  BY <1>1, <1>2, FinishLeaves, OwingKept
<1>7. invoice_payment_status(pending[c].amount, 0) # "void"
  BY <1>3, StatusComputed
<1>8. PICK new : new.order = o /\ new.status # "void" /\ invoice' = Append(invoice, new)
  BY <1>4, <1>7 DEF create_order_invoice, generate_order_invoice, insert_order_invoice
<1> QED
  BY <1>1, <1>5, <1>6, <1>8, EarlyIssue

LEMMA CashierBills ==
  ASSUME BillingInvariant, NEW i \in DOMAIN invoice, NEW n \in Receipts, create_invoice_payment(i, n)
  PROVE  Billing'
<1> DEFINE new == Paid(invoice[i], n)
<1>1. InvoiceInvariant /\ Billing /\ n \in Nat
  BY OrderInvoicesAssumption DEF BillingInvariant
<1>2. invoice[i].status # "void" /\ UNCHANGED <<order, shipment, pending>>
  BY DEF create_invoice_payment
<1>3. invoice' = [invoice EXCEPT ![i] = new]
  BY DEF create_invoice_payment
<1>4. invoice[i] \in Invoice
  BY <1>1 DEF InvoiceInvariant, TypeOK
<1>5. new.amount = invoice[i].amount /\ new.order = invoice[i].order /\ new.status # "void"
  BY <1>1, <1>4, ReceiptEntered
<1>6. \A d \in Clerks : Owing(pending'[d])
  BY <1>1, <1>2 DEF Billing
<1> HIDE DEF new
<1> QED
  BY <1>2, <1>3, <1>5, <1>6, ReceiptStep

\* A customer's receipt pays what is asked for, or issues the first invoice of the order.
LEMMA ReceiveBills ==
  ASSUME BillingInvariant, NEW c \in Clerks, record_customer_payment(c)
  PROVE  Billing'
<1>1. pending[c].kind = "receive" /\ Finish(c) /\ UNCHANGED <<order, shipment>>
  BY DEF record_customer_payment
<1>2. InvoiceInvariant /\ Billing
  BY DEF BillingInvariant
<1>3. StillSo(pending[c]) /\ pending[c] \in Reading
  BY <1>1, <1>2, FinishFacts
<1>4. PICK o \in AllOrders, n \in Nat : o = pending[c].order /\ n = pending[c].amount
  BY <1>3 DEF StillSo, Reading
<1>5. order[o].status # "none" /\ pending[c].found = InvoicesOf(o)
  BY <1>1, <1>3, <1>4 DEF StillSo
<1>6. \A d \in Clerks : Owing(pending'[d])
  BY <1>1, <1>2, FinishLeaves, OwingKept
<1>7. PICK total \in Nat : total = order[o].total
  <2>1. order[o] \in OrderRow
    BY <1>2 DEF InvoiceInvariant, TypeOK
  <2>2. order[o].total \in Amounts \cup {0}
    BY <2>1 DEF OrderRow
  <2>3. Amounts \subseteq Nat
    BY OrderInvoicesAssumption
  <2> QED
    BY <2>2, <2>3
<1> DEFINE payable == _find_payable_invoice(InvoicesOf(o))
           first == CHOOSE j \in payable : \A k \in payable : j <= k
           new == [order |-> o, amount |-> total, paid |-> 0, status |-> "unpaid"]
<1>8. \A m \in Nat : Least(n, m) \in Nat
  BY DEF Least
<1>9. CASE payable # {} /\ invoice' = [invoice EXCEPT ![first] = Paid(@, Least(n, @.amount - @.paid))]
  <2>1. first \in payable
    BY <1>2, <1>9, PayableIsOne
  <2>2. PICK k \in payable : k = first
    BY <2>1
  <2>3. /\ k \in DOMAIN invoice /\ invoice[k].status # "void"
        /\ invoice[k] \in Invoice /\ invoice[k].amount > invoice[k].paid
    BY <1>2 DEF _find_payable_invoice, InvoicesOf, InvoiceInvariant, TypeOK
  <2>4. invoice[k].amount - invoice[k].paid \in Nat
    BY <2>3 DEF Invoice
  <2>5. PICK m \in Nat : m = Least(n, invoice[k].amount - invoice[k].paid)
    BY <1>8, <2>4
  <2> DEFINE paid == Paid(invoice[k], m)
  <2>6. paid.amount = invoice[k].amount /\ paid.order = invoice[k].order /\ paid.status # "void"
    BY <2>3, ReceiptEntered
  <2>7. invoice' = [invoice EXCEPT ![k] = paid]
    BY <1>9, <2>2, <2>3, <2>5
  <2> HIDE DEF paid, payable, first
  <2> QED
    BY <1>1, <1>6, <2>3, <2>6, <2>7, ReceiptStep
<1>10. CASE /\ pending[c].found = {}
            /\ invoice' = Append(invoice, IF new.amount = 0 THEN new ELSE Paid(new, Least(n, new.amount)))
  <2>1. new \in Invoice /\ new.order = o /\ new.status # "void" /\ new.amount \in Nat
    BY <1>7, UnpaidInvoice
  <2> HIDE DEF new
  <2>2. /\ Paid(new, Least(n, new.amount)).order = o
        /\ Paid(new, Least(n, new.amount)).status # "void"
    BY <1>8, <2>1, ReceiptEntered
  <2>3. PICK issued : issued.order = o /\ issued.status # "void" /\ invoice' = Append(invoice, issued)
    BY <1>10, <2>1, <2>2
  <2> QED
    BY <1>1, <1>5, <1>6, <1>10, <2>3, EarlyIssue
<1>11. CASE UNCHANGED invoice
  BY <1>1, <1>6, <1>11, ClerkStep
<1> QED
  BY <1>4, <1>5, <1>7, <1>9, <1>10, <1>11 DEF record_customer_payment

-----------------------------------------------------------------------------
(* Orders and shipments                                                    *)

\* Requests on shipments that are of no order, before and after.
LEMMA UnplacedStep ==
  ASSUME BillingInvariant, NEW s \in Shipments, UNCHANGED <<order, invoice, pending>>,
         \A t \in Shipments : t # s => shipment'[t] = shipment[t],
         shipment[s].order = NoOrder, shipment'[s].order = NoOrder
  PROVE  Billing'
<1>1. Billing /\ InvoiceInvariant
  BY DEF BillingInvariant
<1>2. NoOrder \notin Booked
  BY OrderInvoicesAssumption DEF AllOrders
<1>3. \A x : SameBills(x) /\ SameRow(x)
  BY BillsUntouched DEF SameRow
<1>4. Placed(s)' /\ Billed(s)'
  BY DEF Placed, Billed
<1>5. ASSUME NEW c \in Clerks PROVE Owing(pending[c])'
  <2>1. Owing(pending[c])
    BY <1>1 DEF Billing
  <2>2. pending[c].kind # "none" => pending[c].order \in AllOrders
    BY <1>1 DEF InvoiceInvariant, Looked, StillSo
  <2>3. NoOrder \notin AllOrders
    BY OrderInvoicesAssumption
  <2> QED
    BY <2>1, <2>2, <2>3 DEF Owing
<1>6. \A t \in Shipments : shipment[t].order \in AllOrders \cup {NoOrder}
  BY <1>1, DocumentTypes
<1>7. \A t \in Shipments : t # s => shipment'[t] = shipment[t] /\ (shipment[t].order # NoOrder \/ NoOrder = NoOrder)
  OBVIOUS
<1>8. shipment[s].order \in {NoOrder, NoOrder} /\ shipment'[s].order \in {NoOrder, NoOrder}
  OBVIOUS
<1> QED
  BY ONLY <1>1, <1>2, <1>3, <1>4, <1>5, <1>6, <1>7, <1>8, DocumentStep

\* Sales confirms an order, or deletes one that has neither a shipment nor an invoice.
LEMMA SalesBills ==
  ASSUME BillingInvariant, NEW o \in AllOrders, confirm_sales_order(o) \/ delete_sales_order(o)
  PROVE  Billing'
<1>1. Billing /\ InvoiceInvariant /\ order \in [AllOrders -> OrderRow] /\ o # NoOrder
  BY OrderInvoicesAssumption DEF BillingInvariant, InvoiceInvariant, TypeOK
<1>2. UNCHANGED <<shipment, invoice, pending>>
  BY DEF confirm_sales_order, delete_sales_order
<1>3. \A x : SameBills(x)
  BY <1>2, BillsUntouched
<1>4. \A c \in Clerks : Owing(pending[c])'
  BY <1>1, <1>2 DEF Billing, Owing
<1>5. \A x \in AllOrders : x # o => SameRow(x)
  BY <1>1 DEF confirm_sales_order, delete_sales_order, SameRow
<1>6. \A t \in Shipments : shipment[t].order \in AllOrders \cup {NoOrder}
  BY <1>1, DocumentTypes
<1>7. CASE confirm_sales_order(o)
  <2>1. \A x \in AllOrders : SameRow(x)
    BY <1>1, <1>5, <1>7 DEF confirm_sales_order, SameRow, OrderRow
  <2>2. \A t \in Shipments : shipment[t].order = NoOrder => Billed(t)'
    BY <1>2 DEF Billed
  <2>3. NoOrder \notin Booked
    BY OrderInvoicesAssumption DEF AllOrders
  <2> QED
    BY ONLY <1>1, <1>2, <1>3, <1>4, <1>6, <2>1, <2>2, <2>3, MoneyStep
<1>8. CASE delete_sales_order(o)
  <2>1. \A t \in Shipments : shipment[t].order # o
    BY <1>8 DEF delete_sales_order
  <2>2. order'[o].status = "none" /\ InvoicesOf(o)' = {}
    BY <1>1, <1>8 DEF delete_sales_order, NoRow, InvoicesOf
  <2>3. PostedOnly(o)'
    BY <2>2 DEF PostedOnly, Active
  <2>4. NoShipment \notin Shipments
    BY OrderInvoicesAssumption
  <2> QED
    BY ONLY <1>1, <1>2, <1>3, <1>4, <1>5, <1>6, <2>1, <2>3, <2>4, DocumentStep
<1> QED
  BY <1>7, <1>8

\* A shipment of an order is made where the order has none.
LEMMA NewShipmentBills ==
  ASSUME BillingInvariant, NEW s \in Shipments, NEW o \in AllOrders, create_shipment(s, o)
  PROVE  Billing'
<1>1. Billing /\ InvoiceInvariant /\ shipment \in [Shipments -> Shipment] /\ o # NoOrder
  BY OrderInvoicesAssumption DEF BillingInvariant, InvoiceInvariant, TypeOK
<1>2. UNCHANGED <<order, invoice, pending>> /\ order[o].status # "none" /\ shipment[s] = Absent
  BY DEF create_shipment, lock_sales_order
<1>3. /\ shipment'[s].status = "created" /\ shipment'[s].order = o /\ shipment'[s].manual = FALSE
      /\ \A t \in Shipments : t # s => shipment'[t] = shipment[t]
  BY <1>1 DEF create_shipment, Absent
<1>4. \A t \in Shipments : shipment[t].order # o
  <2> SUFFICES ASSUME NEW t \in Shipments, shipment[t].order = o PROVE FALSE
    OBVIOUS
  <2>1. Live(t)
    BY <1>1 DEF Billing, Placed
  <2> QED
    BY <2>1 DEF create_shipment, On
<1>5. \A x : SameBills(x) /\ SameRow(x)
  BY <1>2, BillsUntouched DEF SameRow
<1>6. Placed(s)' /\ Billed(s)'
  BY <1>1, <1>2, <1>3, <1>4 DEF Placed, Billed, Live
<1>7. ASSUME o \in Booked PROVE PostedOnly(o)'
  <2>1. PostedOnly(o) /\ SameBills(o)
    BY <1>1, <1>5, <1>7 DEF Billing
  <2> QED
    BY <1>2, <1>4, <2>1 DEF PostedOnly, SameBills, SameInvoices
<1>8. ASSUME NEW c \in Clerks PROVE Owing(pending[c])'
  <2>1. Owing(pending[c])
    BY <1>1 DEF Billing
  <2>2. shipment[s].status = "none"
    BY <1>2 DEF Absent
  <2> QED
    BY <1>2, <1>3, <2>1, <2>2 DEF Owing
<1>9. shipment[s].order \in {NoOrder, o}
  BY <1>2 DEF Absent
<1>10. \A t \in Shipments : shipment[t].order \in AllOrders \cup {NoOrder}
  BY <1>1, DocumentTypes
<1>11. s \in Shipments => shipment[s].order \in {NoOrder, o}
  BY <1>9
<1>12. s \in Shipments => shipment'[s].order \in {NoOrder, o} /\ Placed(s)' /\ Billed(s)'
  BY <1>3, <1>6
<1>13. \A t \in Shipments : t # s => shipment'[t] = shipment[t] /\ (shipment[t].order # o \/ o = NoOrder)
  BY <1>3, <1>4
<1>14. \A x \in AllOrders : x # o => SameBills(x) /\ SameRow(x)
  BY <1>5
<1>15. \A c \in Clerks : Owing(pending[c])'
  BY <1>8
<1> QED
  BY ONLY <1>1, <1>7, <1>10, <1>11, <1>12, <1>13, <1>14, <1>15, DocumentStep

\* Manual shipments before they are posted.
LEMMA UnpostedBills ==
  ASSUME BillingInvariant, NEW s \in Shipments,
         CreateManual(s) \/ delete_manual_shipment(s) \/ DeliverUnposted(s)
  PROVE  Billing'
<1>1. shipment \in [Shipments -> Shipment]
  BY DEF BillingInvariant, InvoiceInvariant, TypeOK
<1>2. \A t \in Shipments : t # s => shipment'[t] = shipment[t]
  BY <1>1 DEF CreateManual, delete_manual_shipment, DeliverUnposted
<1>3. shipment[s].order = NoOrder /\ shipment'[s].order = NoOrder
  <2>1. shipment[s] \in Shipment
    BY <1>1
  <2>2. CASE CreateManual(s)
    BY <1>1, <2>1, <2>2 DEF CreateManual, Absent, Shipment
  <2>3. CASE delete_manual_shipment(s)
    BY <1>1, <2>1, <2>3 DEF delete_manual_shipment, Shipment
  <2>4. CASE DeliverUnposted(s)
    BY <1>1, <2>1, <2>4 DEF DeliverUnposted, Shipment
  <2> QED
    BY <2>2, <2>3, <2>4
<1>4. UNCHANGED <<order, invoice, pending>>
  BY DEF CreateManual, delete_manual_shipment, DeliverUnposted
<1> QED
  BY <1>2, <1>3, <1>4, UnplacedStep

\* What goes out on an order was not billed before.
LEMMA ShipOrderBills ==
  ASSUME BillingInvariant, NEW s \in Shipments, NEW amount, ShipOrder(s, amount)
  PROVE  Billing'
<1>1. Billing /\ InvoiceInvariant /\ shipment \in [Shipments -> Shipment] /\ order \in [AllOrders -> OrderRow]
  BY DEF BillingInvariant, InvoiceInvariant, TypeOK
<1>2. /\ shipment[s].status = "created" /\ shipment[s].order # NoOrder
      /\ UNCHANGED <<invoice, pending>>
  BY DEF ShipOrder, Open
<1>3. PICK o \in AllOrders : o = shipment[s].order /\ o # NoOrder
  BY <1>1, <1>2, DocumentTypes
<1>4. Placed(s) /\ Billed(s)
  BY <1>1 DEF Billing
<1>5. shipment[s].manual = FALSE
  <2>1. ~shipment[s].manual /\ shipment[s] \in Shipment
    BY <1>1, <1>2, <1>4 DEF Billed, Gone
  <2> QED
    BY <2>1 DEF Shipment
<1>6. /\ shipment'[s].status = "shipped" /\ shipment'[s].order = o /\ shipment'[s].manual = FALSE
      /\ \A t \in Shipments : t # s => shipment'[t] = shipment[t]
  BY <1>1, <1>3, <1>5 DEF ShipOrder, Shipment
<1>7. \A t \in Shipments : shipment[t].order = o => t = s
  BY <1>3, <1>4 DEF Placed
<1>8. \A x : SameBills(x)
  BY <1>2, BillsUntouched
<1>9. \A x \in AllOrders : SameRow(x)
  <2>1. \/ order' = order
        \/ \E total \in Amounts : order' = [order EXCEPT ![o].total = total]
    BY <1>3 DEF ShipOrder
  <2>2. \A x \in AllOrders : order[x] \in OrderRow
    BY <1>1
  <2>3. \A x \in AllOrders : order'[x].status = order[x].status
    BY ONLY <1>1, <2>1, <2>2 DEF OrderRow
  <2> QED
    BY <2>3 DEF SameRow
<1>10. Placed(s)' /\ Billed(s)'
  <2>1. order'[o].status # "none"
    BY <1>3, <1>4, <1>9 DEF Placed, SameRow
  <2> QED
    BY <1>3, <1>6, <1>7, <2>1 DEF Placed, Billed, Live
<1>11. ASSUME o \in Booked PROVE PostedOnly(o)'
  <2>1. PostedOnly(o) /\ SameBills(o) /\ SameRow(o)
    BY <1>1, <1>8, <1>9, <1>11 DEF Billing
  <2>2. Gone(s)' /\ shipment'[s].order = o
    BY <1>6 DEF Gone
  <2> QED
    BY <2>1, <2>2 DEF PostedOnly, SameBills, SameInvoices, SameRow
<1>12. ASSUME NEW c \in Clerks PROVE Owing(pending[c])'
  <2>1. Owing(pending[c])
    BY <1>1 DEF Billing
  <2> QED
    BY <1>2, <1>6, <2>1 DEF Owing
<1>13. \A t \in Shipments : shipment[t].order \in AllOrders \cup {NoOrder}
  BY <1>1, DocumentTypes
<1>14. /\ Billing
       /\ shipment[s].order \in {NoOrder, o} /\ shipment'[s].order \in {NoOrder, o}
       /\ \A t \in Shipments : t # s => shipment'[t] = shipment[t] /\ (shipment[t].order # o \/ o = NoOrder)
       /\ o \in Booked => PostedOnly(o)'
       /\ \A x \in AllOrders : x # o => SameBills(x) /\ SameRow(x)
  BY <1>1, <1>3, <1>6, <1>7, <1>8, <1>9, <1>11
<1> QED
  BY ONLY <1>10, <1>12, <1>13, <1>14, DocumentStep

\* A manual shipment is posted with an order row and an invoice of its own.
LEMMA PostBills ==
  ASSUME BillingInvariant, NEW s \in Shipments, NEW b \in Booked, NEW amount,
         NEW st \in {"shipped", "delivered"}, post_manual_shipment_invoice(s, b, st, amount),
         shipment[s].order = NoOrder, UNCHANGED pending
  PROVE  Billing'
<1> DEFINE new == [order |-> b, amount |-> amount, paid |-> 0, status |-> "unpaid"]
<1>1. /\ Billing /\ InvoiceInvariant
      /\ shipment \in [Shipments -> Shipment] /\ order \in [AllOrders -> OrderRow]
      /\ b \in AllOrders /\ b # NoOrder
  BY OrderInvoicesAssumption DEF BillingInvariant, InvoiceInvariant, TypeOK, AllOrders
<1>2. order[b].status = "none" /\ invoice' = Append(invoice, new)
  BY DEF post_manual_shipment_invoice, insert_order_invoice
<1>3. /\ shipment'[s].status = st /\ shipment'[s].order = b /\ shipment'[s].amount = amount
      /\ \A t \in Shipments : t # s => shipment'[t] = shipment[t]
  BY <1>1 DEF post_manual_shipment_invoice, Shipment
<1>4. /\ order'[b].status = "confirmed"
      /\ \A x \in AllOrders : x # b => order'[x] = order[x]
  BY <1>1 DEF post_manual_shipment_invoice
<1>5. \A t \in Shipments : shipment[t].order # b
  BY <1>1, <1>2 DEF Billing, Placed
<1>6. Active(b) = {}
  BY <1>1, <1>2 DEF Active, KnownOnly, InvoiceInvariant
<1>7. /\ \A x : x # b => SameBills(x)
      /\ \E n \in InvoicesOf(b)' : Active(b)' = {n} /\ invoice'[n].amount = amount
  <2>1. new.order = b /\ new.amount = amount /\ new.status # "void"
    OBVIOUS
  <2> HIDE DEF new
  <2>2. /\ \A x : x # b => SameBills(x)
        /\ \E n \in InvoicesOf(b)' : Active(b)' = Active(b) \cup {n} /\ invoice'[n] = new
    BY <1>1, <1>2, <2>1, Issued
  <2> QED
    BY <1>6, <2>1, <2>2
<1>8. Gone(s)' /\ Live(s)'
  BY <1>3 DEF Gone, Live
<1>9. Placed(s)'
  BY <1>3, <1>4, <1>5, <1>8 DEF Placed
<1>10. Billed(s)'
  BY <1>3, <1>7, <1>8 DEF Billed, BilledFor
<1>11. PostedOnly(b)'
  BY <1>3, <1>7, <1>8 DEF PostedOnly
<1>12. ASSUME NEW c \in Clerks PROVE Owing(pending[c])'
  <2>1. Owing(pending[c])
    BY <1>1 DEF Billing
  <2>2. pending[c].kind # "none" => pending[c].order \in AllOrders
    BY <1>1 DEF InvoiceInvariant, Looked, StillSo
  <2>3. NoOrder \notin AllOrders
    BY OrderInvoicesAssumption
  <2> QED
    BY <1>3, <2>1, <2>2, <2>3 DEF Owing
<1>13. \A t \in Shipments : shipment[t].order \in AllOrders \cup {NoOrder}
  BY <1>1, DocumentTypes
<1>14. /\ Billing
       /\ shipment[s].order \in {NoOrder, b} /\ shipment'[s].order \in {NoOrder, b}
       /\ \A t \in Shipments : t # s => shipment'[t] = shipment[t] /\ (shipment[t].order # b \/ b = NoOrder)
       /\ b \in Booked => PostedOnly(b)'
       /\ \A x \in AllOrders : x # b => SameBills(x) /\ SameRow(x)
  BY <1>1, <1>3, <1>4, <1>5, <1>7, <1>11 DEF SameRow
<1> QED
  BY ONLY <1>9, <1>10, <1>12, <1>13, <1>14, DocumentStep

\* Manual shipments go out, or are priced after they went.
LEMMA ManualBills ==
  ASSUME BillingInvariant, NEW s \in Shipments, NEW amount,
         ShipManual(s, amount) \/ review_shipment_amount(s, amount)
  PROVE  Billing'
<1>1. shipment[s].order = NoOrder /\ UNCHANGED pending /\ shipment \in [Shipments -> Shipment]
  BY DEF ShipManual, review_shipment_amount, BillingInvariant, InvoiceInvariant, TypeOK
<1>2. CASE review_shipment_amount(s, amount)
  <2>1. PICK st \in {"shipped", "delivered"} : st = shipment[s].status
    BY <1>2 DEF review_shipment_amount, Gone
  <2>2. PICK b \in Booked : post_manual_shipment_invoice(s, b, st, amount)
    BY <1>2, <2>1 DEF review_shipment_amount
  <2> QED
    BY <1>1, <2>2, PostBills
<1>3. CASE ShipManual(s, amount) /\ Postable(amount)
  <2>1. PICK b \in Booked : post_manual_shipment_invoice(s, b, "shipped", amount)
    BY <1>3 DEF ShipManual
  <2> QED
    BY <1>1, <2>1, PostBills
<1>4. CASE ShipManual(s, amount) /\ ~Postable(amount)
  <2>1. /\ UNCHANGED <<order, invoice, pending>>
        /\ shipment' = [shipment EXCEPT ![s].status = "shipped"]
    BY <1>4 DEF ShipManual
  <2>2. /\ shipment'[s].order = NoOrder
        /\ \A t \in Shipments : t # s => shipment'[t] = shipment[t]
    BY <1>1, <2>1 DEF Shipment
  <2> QED
    BY <1>1, <2>1, <2>2, UnplacedStep
<1> QED
  BY <1>2, <1>3, <1>4

-----------------------------------------------------------------------------
(* Delivery and reversal                                                   *)

\* What a delivery that begins owes is what its one shipment took out.
LEMMA DeliveryOwes ==
  ASSUME BillingInvariant, NEW c \in Clerks, NEW s \in Shipments, BeginDeliver(c, s)
  PROVE  Billing'
<1> DEFINE o == shipment[s].order
           owed == SumOf([x \in On(o) |-> shipment[x].amount])
           reading == [Idle EXCEPT !.kind = "deliver", !.order = o, !.shipment = s,
                                   !.found = Active(o), !.amount = owed]
<1>1. /\ Billing /\ InvoiceInvariant /\ pending \in [Clerks -> Reading]
      /\ shipment[s].status = "shipped" /\ o # NoOrder /\ UNCHANGED <<order, shipment, invoice>>
      /\ \A x \in On(o) : shipment[x].amount # Unpriced
      /\ pending' = [pending EXCEPT ![c] = reading]
  BY DEF BillingInvariant, InvoiceInvariant, TypeOK, BeginDeliver, Begin
<1>2. On(o) = {s}
  <2>1. Placed(s)
    BY <1>1 DEF Billing
  <2> QED
    BY <1>1, <2>1 DEF Placed, On, Live
<1>3. shipment[s].amount \in Nat
  <2>1. shipment[s] \in Shipment /\ shipment[s].amount # Unpriced
    BY <1>1, <1>2, DocumentTypes
  <2>2. shipment[s].amount \in Amounts
    BY <2>1 DEF Shipment
  <2>3. Amounts \subseteq Nat
    BY OrderInvoicesAssumption
  <2> QED
    BY <2>2, <2>3
<1>4. owed = shipment[s].amount
  <2> DEFINE f == [x \in {s} |-> shipment[x].amount]
  <2>1. f \in [{s} -> Nat] /\ f[s] = shipment[s].amount /\ IsFiniteSet({s})
    BY <1>3, FS_Singleton
  <2>2. owed = SumOf(f)
    BY <1>2
  <2> HIDE DEF f
  <2>3. SumOf(f) = f[s]
    BY <2>1, SumSingle
  <2> QED
    BY <2>1, <2>2, <2>3
<1> HIDE DEF owed
<1>5. reading.kind = "deliver" /\ reading.shipment = s /\ reading.order = o /\ reading.amount = owed
  BY DEF Idle
<1>6. Owing(reading)
  BY <1>1, <1>4, <1>5 DEF Owing
<1> HIDE DEF reading
<1>7. \A d \in Clerks : Owing(pending'[d])
  BY <1>1, <1>6 DEF Billing
<1> QED
  BY <1>1, <1>7, ClerkStep

\* Requests that begin otherwise.
LEMMA BeginBills ==
  ASSUME BillingInvariant, NEW c \in Clerks, NEW o \in AllOrders,
         \/ \E amount \in Amounts \cup {order[o].total} : BeginIssue(c, o, amount)
         \/ BeginGenerate(c, o)
         \/ \E n \in Receipts : BeginReceive(c, o, n)
  PROVE  Billing'
<1>1. Billing /\ pending \in [Clerks -> Reading]
  BY DEF BillingInvariant, InvoiceInvariant, TypeOK
<1>2. PICK reading : reading.kind # "deliver" /\ Begin(c, reading)
  BY DEF BeginIssue, BeginGenerate, BeginReceive, Idle
<1>3. pending' = [pending EXCEPT ![c] = reading] /\ UNCHANGED <<order, shipment, invoice>>
  BY <1>2 DEF Begin
<1>4. \A d \in Clerks : Owing(pending'[d])
  BY <1>1, <1>2, <1>3 DEF Billing, Owing
<1> QED
  BY <1>3, <1>4, ClerkStep

LEMMA AbortBills ==
  ASSUME BillingInvariant, (\E c \in Clerks : Abort(c)) \/ UNCHANGED vars
  PROVE  Billing'
<1>1. UNCHANGED <<order, shipment, invoice>>
  BY DEF Abort, vars
<1>2. \A d \in Clerks : pending'[d] \in {Idle, pending[d]}
  BY FinishLeaves DEF Abort, vars, BillingInvariant
<1>3. \A d \in Clerks : Owing(pending'[d])
  BY <1>1, <1>2, OwingKept DEF BillingInvariant
<1> QED
  BY <1>1, <1>3, ClerkStep

\* A delivery leaves its order with one live invoice, of what it owes.
LEMMA DeliveryInvoiced ==
  ASSUME InvoiceInvariant, NEW c \in Clerks, NEW o \in AllOrders, NEW owed \in Nat,
         invoice_for_frozen_delivery(c), pending[c].order = o, pending[c].amount = owed
  PROVE  (\A x : x # o => SameBills(x)) /\ BilledFor(o, owed)'
<1>1. pending[c].kind = "deliver" /\ Finish(c)
  BY DEF invoice_for_frozen_delivery
<1>2. pending[c].found = Active(o)
  BY <1>1, FinishFacts DEF StillSo
<1>3. CASE Active(o) = {} /\ insert_order_invoice(o, owed, "unpaid")
  <2> DEFINE new == [order |-> o, amount |-> owed, paid |-> 0, status |-> "unpaid"]
  <2>1. new.order = o /\ new.amount = owed /\ new.status # "void"
    OBVIOUS
  <2>2. invoice' = Append(invoice, new)
    BY <1>3 DEF insert_order_invoice
  <2> HIDE DEF new
  <2>3. /\ \A x : x # o => SameBills(x)
        /\ \E n \in InvoicesOf(o)' : Active(o)' = Active(o) \cup {n} /\ invoice'[n] = new
    BY <2>1, <2>2, Issued
  <2> QED
    BY <1>3, <2>1, <2>3 DEF BilledFor
<1>4. ASSUME NEW i \in Active(o),
             \/ invoice[i].amount = owed /\ UNCHANGED invoice
             \/ invoice[i].status = "unpaid" /\ invoice' = [invoice EXCEPT ![i].amount = owed]
      PROVE  (\A x : x # o => SameBills(x)) /\ BilledFor(o, owed)'
  <2>1. Active(o) = {i}
    BY DEF InvoiceInvariant, Single
  <2>2. CASE invoice[i].amount = owed /\ UNCHANGED invoice
    <3>1. \A x : SameBills(x)
      BY <2>2, BillsUntouched
    <3>2. BilledFor(o, owed)
      BY <2>1, <2>2 DEF BilledFor, Active
    <3> QED
      BY <3>1, <3>2, BillStands
  <2>3. CASE invoice[i].status = "unpaid" /\ invoice' = [invoice EXCEPT ![i].amount = owed]
    <3>1. i \in DOMAIN invoice /\ invoice[i].order = o /\ invoice[i] \in Invoice
      BY DEF Active, InvoicesOf, InvoiceInvariant, TypeOK
    <3>2. /\ DOMAIN invoice' = DOMAIN invoice
          /\ invoice'[i].order = o /\ invoice'[i].status = "unpaid" /\ invoice'[i].amount = owed
          /\ \A j \in DOMAIN invoice : j # i => invoice'[j] = invoice[j]
      BY <2>3, <3>1 DEF Invoice, InvoiceInvariant, TypeOK
    <3>3. \A x : SameInvoices(x)
      BY ONLY <2>3, <3>1, <3>2 DEF SameInvoices, InvoicesOf, Active
    <3>4. \A x : x # o => \A j \in Active(x) : invoice'[j] = invoice[j]
      BY ONLY <3>1, <3>2 DEF InvoicesOf, Active
    <3>5. i \in InvoicesOf(o)' /\ Active(o)' = {i}
      BY <2>1, <3>3 DEF SameInvoices, Active
    <3> QED
      BY <3>2, <3>3, <3>4, <3>5 DEF SameBills, BilledFor
  <2> QED
    BY <1>4, <2>2, <2>3
<1> QED
  BY <1>2, <1>3, <1>4 DEF invoice_for_frozen_delivery, Agrees

\* The goods are delivered with the invoice of what went out.
LEMMA DeliverBills ==
  ASSUME BillingInvariant, NEW c \in Clerks, invoice_for_frozen_delivery(c)
  PROVE  Billing'
<1>1. /\ Billing /\ InvoiceInvariant /\ shipment \in [Shipments -> Shipment]
      /\ pending[c].kind = "deliver" /\ Finish(c) /\ UNCHANGED order
  BY DEF invoice_for_frozen_delivery, BillingInvariant, InvoiceInvariant, TypeOK
<1>2. StillSo(pending[c]) /\ pending[c] \in Reading
  BY <1>1, FinishFacts
<1>3. PICK o \in AllOrders, owed \in Nat : o = pending[c].order /\ owed = pending[c].amount
  BY <1>2 DEF StillSo, Reading
<1>4. PICK s \in Shipments : s = pending[c].shipment
  BY <1>1 DEF Billing, Owing
<1>5. shipment[s].status = "shipped" /\ shipment[s].order = o /\ shipment[s].amount = owed
  BY <1>1, <1>3, <1>4 DEF Billing, Owing
<1>6. o # NoOrder
  BY OrderInvoicesAssumption
<1>7. Placed(s)
  BY <1>1 DEF Billing
<1>8. /\ shipment'[s].status = "delivered" /\ shipment'[s].order = o /\ shipment'[s].amount = owed
      /\ \A t \in Shipments : t # s => shipment'[t] = shipment[t]
  <2>1. shipment' = [shipment EXCEPT ![s].status = "delivered"] /\ shipment[s] \in Shipment
    BY <1>1, <1>4 DEF invoice_for_frozen_delivery
  <2> QED
    BY ONLY <1>1, <1>5, <2>1 DEF Shipment
<1>9. (\A x : x # o => SameBills(x)) /\ BilledFor(o, owed)'
  BY <1>1, <1>3, DeliveryInvoiced
<1>10. \A t \in Shipments : shipment[t].order = o => t = s
  BY <1>5, <1>6, <1>7 DEF Placed
<1>11. Placed(s)'
  BY <1>1, <1>5, <1>6, <1>7, <1>8, <1>10 DEF Placed, Live
<1>12. Gone(s)' /\ Billed(s)'
  BY <1>8, <1>9 DEF Billed, Gone
<1>13. PostedOnly(o)'
  BY <1>8, <1>9, <1>12 DEF PostedOnly, BilledFor
<1>14. ASSUME NEW d \in Clerks PROVE Owing(pending[d])'
  <2>1. CASE d = c
    <3>1. pending'[d] = Idle
      BY <1>1, <2>1 DEF Finish, InvoiceInvariant, TypeOK
    <3> QED
      BY <3>1 DEF Owing, Idle
  <2>2. CASE d # c
    <3>1. pending'[d] = pending[d]
      BY <1>1, <2>2 DEF Finish, InvoiceInvariant, TypeOK
    <3>2. pending[d].order # o
      BY <1>1, <1>3, <1>6, <2>2 DEF InvoiceInvariant, Exclusive
    <3>3. Owing(pending[d])
      BY <1>1 DEF Billing
    <3> QED
      BY <1>5, <1>8, <3>1, <3>2, <3>3 DEF Owing
  <2> QED
    BY <2>1, <2>2
<1>15. \A t \in Shipments : shipment[t].order \in AllOrders \cup {NoOrder}
  BY <1>1, DocumentTypes
<1>16. /\ Billing
       /\ shipment[s].order \in {NoOrder, o} /\ shipment'[s].order \in {NoOrder, o}
       /\ \A t \in Shipments : t # s => shipment'[t] = shipment[t] /\ (shipment[t].order # o \/ o = NoOrder)
       /\ o \in Booked => PostedOnly(o)'
       /\ \A x \in AllOrders : x # o => SameBills(x) /\ SameRow(x)
  BY <1>1, <1>5, <1>8, <1>9, <1>10, <1>13 DEF SameRow
<1> QED
  BY ONLY <1>11, <1>12, <1>14, <1>15, <1>16, DocumentStep

\* A reversal leaves the order of the shipment without a live invoice.
LEMMA ReopenBills ==
  ASSUME BillingInvariant, NEW s \in Shipments, reopen_shipment(s)
  PROVE  Billing'
<1>1. /\ Billing /\ InvoiceInvariant /\ shipment \in [Shipments -> Shipment]
      /\ order \in [AllOrders -> OrderRow] /\ shipment[s] \in Shipment
      /\ Unlocked(s) /\ UNCHANGED pending
  BY DEF reopen_shipment, BillingInvariant, InvoiceInvariant, TypeOK
<1>2. CASE shipment[s].order = NoOrder
  <2>1. /\ UNCHANGED <<order, invoice>>
        /\ shipment' = [shipment EXCEPT ![s] = [shipment[s] EXCEPT !.status = "created", !.amount = Unpriced]]
    BY <1>2 DEF reopen_shipment
  <2>2. /\ shipment'[s].order = NoOrder
        /\ \A t \in Shipments : t # s => shipment'[t] = shipment[t]
    BY ONLY <1>1, <1>2, <2>1 DEF Shipment
  <2> QED
    BY <1>1, <1>2, <2>1, <2>2, UnplacedStep
<1>3. CASE shipment[s].order # NoOrder
  <2>1. PICK o \in AllOrders : o = shipment[s].order /\ o # NoOrder
    BY <1>1, <1>3, DocumentTypes
  <2>2. lock_sales_order(o) /\ invoice' = Void(o) /\ \A i \in InvoicesOf(o) : invoice[i].paid = 0
    BY <1>3, <2>1 DEF reopen_shipment, Reversible
  <2> DEFINE back == [shipment[s] EXCEPT !.status = "created", !.amount = Unpriced]
  <2>3. shipment' = [shipment EXCEPT ![s] = IF shipment[s].manual THEN [back EXCEPT !.order = NoOrder] ELSE back]
    BY <1>3 DEF reopen_shipment
  <2>4. /\ \A t \in Shipments : t # s => shipment'[t] = shipment[t]
        /\ shipment[s].manual => shipment'[s].order = NoOrder
        /\ ~shipment[s].manual =>
             /\ shipment'[s].order = o /\ shipment'[s].status = "created" /\ ~shipment'[s].manual
    BY ONLY <1>1, <2>1, <2>3 DEF Shipment
  <2> HIDE DEF back
  <2>5. /\ order'[o].status # "none"
        /\ \A x \in AllOrders : x # o => order'[x] = order[x]
    <3>1. order[o] \in OrderRow
      BY <1>1
    <3>2. \/ order' = [order EXCEPT ![o] = [order[o] EXCEPT !.status = "cancelled", !.total = 0]]
          \/ order' = [order EXCEPT ![o] = [order[o] EXCEPT !.status = "ready_to_ship"]]
      BY <1>1, <1>3, <2>1 DEF reopen_shipment
    <3> QED
      BY ONLY <1>1, <3>1, <3>2 DEF OrderRow
  <2>6. InvoicesOf(o)' = InvoicesOf(o) /\ Active(o)' = {} /\ \A x \in AllOrders : x # o => SameInvoices(x)
    BY <1>1, <2>2, VoidStep DEF InvoiceStep
  <2>7. \A x \in AllOrders : x # o => SameBills(x)
    <3>1. \A i \in DOMAIN invoice : invoice[i].order # o => invoice'[i] = invoice[i]
      BY <2>2 DEF Void
    <3> QED
      BY <2>6, <3>1 DEF SameBills, Active, InvoicesOf
  <2>8. \A t \in Shipments : shipment[t].order = o => t = s
    BY <1>1, <2>1 DEF Billing, Placed
  <2>9. Placed(s)' /\ Billed(s)'
    BY <2>1, <2>4, <2>5, <2>8 DEF Placed, Billed, Live
  <2>10. ASSUME o \in Booked PROVE PostedOnly(o)'
    <3>1. InvoicesOf(o) # {}
      BY <1>1, <2>2, <2>10 DEF Billing, PostedOnly, lock_sales_order
    <3> QED
      BY <2>6, <3>1 DEF PostedOnly
  <2>11. ASSUME NEW d \in Clerks PROVE Owing(pending[d])'
    <3>1. pending'[d] = pending[d] /\ Owing(pending[d]) /\ pending[d].shipment # s
      BY <1>1 DEF Billing, Unlocked
    <3> QED
      BY <2>4, <3>1 DEF Owing
  <2>12. \A t \in Shipments : shipment[t].order \in AllOrders \cup {NoOrder}
    BY <1>1, DocumentTypes
  <2>13. /\ Billing
         /\ shipment[s].order \in {NoOrder, o} /\ shipment'[s].order \in {NoOrder, o}
         /\ \A t \in Shipments : t # s => shipment'[t] = shipment[t] /\ (shipment[t].order # o \/ o = NoOrder)
         /\ o \in Booked => PostedOnly(o)'
         /\ \A x \in AllOrders : x # o => SameBills(x) /\ SameRow(x)
    BY <1>1, <2>1, <2>4, <2>5, <2>7, <2>8, <2>10 DEF SameRow
  <2> QED
    BY ONLY <2>9, <2>11, <2>12, <2>13, DocumentStep
<1> QED
  BY <1>2, <1>3

-----------------------------------------------------------------------------
(* The theorems about bills                                                *)

\* Nothing is placed or billed at first.
LEMMA InitBills == Init => Billing
<1> SUFFICES ASSUME Init PROVE Billing
  OBVIOUS
<1>1. \A s \in Shipments : shipment[s].order = NoOrder
  BY DEF Init, Absent
<1>2. \A c \in Clerks : pending[c].kind = "none"
  BY DEF Init, Idle
<1>3. \A b \in Booked : order[b].status = "none" /\ Active(b) = {}
  BY DEF Init, NoRow, Active, InvoicesOf
<1> QED
  BY <1>1, <1>2, <1>3 DEF Billing, Placed, Billed, Owing, PostedOnly

\* Every step keeps what shipments are billed for.
LEMMA NextBills == BillingInvariant /\ [Next]_vars => Billing'
<1> SUFFICES ASSUME BillingInvariant, [Next]_vars PROVE Billing'
  OBVIOUS
<1>1. CASE Sales
  BY <1>1, SalesBills, NewShipmentBills DEF Sales
<1>2. CASE Money
  BY <1>2, BeginBills, CashierBills DEF Money
<1>3. CASE Warehouse
  <2>1. PICK s \in Shipments :
           \/ CreateManual(s) \/ delete_manual_shipment(s) \/ DeliverUnposted(s)
           \/ \E amount \in Amounts \cup {Unpriced} : ShipOrder(s, amount) \/ ShipManual(s, amount)
           \/ \E amount \in Amounts : review_shipment_amount(s, amount)
           \/ reopen_shipment(s)
           \/ \E c \in Clerks : BeginDeliver(c, s)
    BY <1>3 DEF Warehouse
  <2> QED
    BY <2>1, UnpostedBills, ShipOrderBills, ManualBills, ReopenBills, DeliveryOwes
<1>4. CASE Write
  BY <1>4, CreateBills, ReceiveBills, DeliverBills, AbortBills DEF Write
<1>5. CASE UNCHANGED vars
  BY <1>5, AbortBills
<1> QED
  BY <1>1, <1>2, <1>3, <1>4, <1>5 DEF Next

\* A shipment is alone on its order, and what went out of it is what is asked for.
THEOREM BillingInvariantHolds == Spec => []BillingInvariant
<1>1. Init => BillingInvariant
  BY InitInvariant, InitBills DEF BillingInvariant
<1>2. BillingInvariant /\ [Next]_vars => BillingInvariant'
  BY NextKeeps, NextBills DEF BillingInvariant
<1> QED
  BY <1>1, <1>2, PTL DEF Spec

\* The order of a delivered shipment owes what went out, on one invoice.
THEOREM DeliveredAlwaysBilled == Spec => []DeliveredBilled
<1>1. BillingInvariant => DeliveredBilled
  BY DEF BillingInvariant, Billing, Billed, BilledFor, DeliveredBilled
<1> QED
  BY <1>1, BillingInvariantHolds, PTL

\* A manual shipment has its invoice while its posting stands, and none after its reversal.
THEOREM ManualAlwaysBilled == Spec => []ManualBilled
<1>1. BillingInvariant => ManualBilled
  BY DEF BillingInvariant, Billing, Billed, BilledFor, PostedOnly, ManualBilled
<1> QED
  BY <1>1, BillingInvariantHolds, PTL
=============================================================================
