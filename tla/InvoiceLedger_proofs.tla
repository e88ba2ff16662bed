------------------------ MODULE InvoiceLedger_proofs ------------------------
(***************************************************************************)
(* Proofs about InvoiceLedger, for any clients, endpoints and amounts.     *)
(***************************************************************************)
EXTENDS InvoiceLedger, TLAPS

\* What a request holds is determined by where it is: one fact per kind of request.
LEMMA RequestShapes ==
  ASSUME NEW r \in Request
  PROVE  /\ r.at = "updateInvoice" => r.inv \in Invoices /\ r.lines \in Subtotals \cup {Keep}
                                      /\ r.total \in Nat
         /\ r.at \in {"issue", "cancel", "deleteInvoice", "syncRead"} => r.inv \in Invoices
         /\ r.at = "syncWrite" => r.inv \in Invoices /\ r.status \in {"sent", "partial", "paid"}
         /\ r.at = "pay" => r.inv \in Invoices \cup {NoInvoice} /\ r.amount \in Amounts
                            /\ r.status \in PaymentStatuses
         /\ r.at = "updatePayment" => r.pay \in Payments /\ r.amount \in Amounts \cup {Keep}
                                      /\ r.status \in PaymentStatuses \cup {Keep}
         /\ r.at \in {"reconcile", "deletePayment"} => r.pay \in Payments
  BY DEF Request, Idle

LEMMA IdleIsRequest == Idle \in Request
  BY DEF Request

-----------------------------------------------------------------------------
(* Type correctness *)

\* Finishing, or giving up, keeps the types.
LEMMA FinishTyped ==
  ASSUME TypeOK, NEW c \in Clients, Finish(c)
  PROVE  req' \in [Clients -> Request]
  BY IdleIsRequest DEF TypeOK, Finish

\* A row of the invoices table may be replaced by any well-formed row.
LEMMA InvoiceTyped ==
  ASSUME TypeOK, NEW i \in Invoices, NEW row \in InvoiceRow
  PROVE  [invoice EXCEPT ![i] = row] \in [Invoices -> InvoiceRow]
  BY DEF TypeOK

\* What syncInvoiceStatus makes of a well-formed row is well formed.
LEMMA SyncedTyped ==
  ASSUME NEW row \in InvoiceRow
  PROVE  Synced(row) \in InvoiceRow
  BY DEF Synced, StatusFor, InvoiceRow, InvoiceStatuses

\* The trigger stores a sum the CHECK accepted, hence a number within the total.
LEMMA RecomputedTyped ==
  ASSUME TypeOK, NEW pays, NEW i \in Invoices,
         PaidFits(Recomputed(pays, i)[i].paid, Recomputed(pays, i)[i].total)
  PROVE  /\ Recomputed(pays, i) \in [Invoices -> InvoiceRow]
         /\ Recomputed(pays, i)[i].paid \in Nat
  <1>1. invoice[i].total \in Nat
    BY DEF TypeOK, InvoiceRow
  <1>2. /\ Recomputed(pays, i)[i].paid = ContributingSum(pays, i)
        /\ Recomputed(pays, i)[i].total = invoice[i].total
    BY DEF TypeOK, InvoiceRow, Recomputed
  <1>3. ContributingSum(pays, i) \in Nat
    BY <1>1, <1>2 DEF PaidFits
  <1>4. Recomputed(pays, i) \in [Invoices -> InvoiceRow]
    BY <1>3 DEF TypeOK, InvoiceRow, Recomputed
  <1> QED
    BY <1>2, <1>3, <1>4

\* Writing a well-formed payment keeps the types, whether its CHECK holds or not.
LEMMA CommitPaymentTyped ==
  ASSUME TypeOK, NEW c \in Clients, NEW p \in Payments, NEW row \in PaymentRow,
         CommitPayment(c, p, row)
  PROVE  TypeOK'
  <1> DEFINE pays == [payment EXCEPT ![p] = row]
  <1> DEFINE i == row.inv
  <1> DEFINE invs == Recomputed(pays, i)
  <1>1. pays \in [Payments -> PaymentRow]
    BY DEF TypeOK
  <1>2. i \in Invoices \cup {NoInvoice}
    BY DEF PaymentRow
  <1>3. Finish(c)
    BY DEF CommitPayment, Abort
  <1>4. req' \in [Clients -> Request]
    BY <1>3, FinishTyped
  <1>5. CASE i = NoInvoice
    BY <1>1, <1>4, <1>5 DEF CommitPayment, TypeOK
  <1>6. CASE i # NoInvoice /\ PaidFits(invs[i].paid, invs[i].total)
    <2>1. payment' = pays /\ invoice' = [invs EXCEPT ![i] = Synced(@)]
      BY <1>6 DEF CommitPayment
    <2>2. invs \in [Invoices -> InvoiceRow]
      BY <1>2, <1>6, RecomputedTyped
    <2>3. invoice' \in [Invoices -> InvoiceRow]
      BY <1>2, <1>6, <2>1, <2>2, SyncedTyped
    <2> QED
      BY <1>1, <1>4, <2>1, <2>3 DEF TypeOK
  <1>7. CASE i # NoInvoice /\ ~PaidFits(invs[i].paid, invs[i].total)
    BY <1>4, <1>7 DEF CommitPayment, Abort, TypeOK
  <1> QED
    BY <1>5, <1>6, <1>7

\* The same for the autocommitted write, which leaves the synchronisation to do.
LEMMA WritePaymentTyped ==
  ASSUME TypeOK, NEW c \in Clients, NEW p \in Payments, NEW row \in PaymentRow,
         WritePayment(c, p, row)
  PROVE  TypeOK'
  <1> DEFINE pays == [payment EXCEPT ![p] = row]
  <1> DEFINE i == row.inv
  <1> DEFINE invs == Recomputed(pays, i)
  <1>1. pays \in [Payments -> PaymentRow]
    BY DEF TypeOK
  <1>2. i \in Invoices \cup {NoInvoice}
    BY DEF PaymentRow
  <1>3. CASE i = NoInvoice
    BY <1>1, <1>3, FinishTyped DEF WritePayment, TypeOK
  <1>4. CASE i # NoInvoice /\ PaidFits(invs[i].paid, invs[i].total)
    <2>1. payment' = pays /\ invoice' = invs
          /\ req' = [req EXCEPT ![c] = [at |-> "syncRead", inv |-> i]]
      BY <1>4 DEF WritePayment
    <2>2. invs \in [Invoices -> InvoiceRow]
      BY <1>2, <1>4, RecomputedTyped
    <2>3. [at |-> "syncRead", inv |-> i] \in Request
      BY <1>2, <1>4 DEF Request
    <2> QED
      BY <1>1, <2>1, <2>2, <2>3 DEF TypeOK
  <1>5. CASE i # NoInvoice /\ ~PaidFits(invs[i].paid, invs[i].total)
    BY <1>5, FinishTyped DEF WritePayment, Abort, TypeOK
  <1> QED
    BY <1>3, <1>4, <1>5

\* Every step of InvoiceService keeps the types.
LEMMA InvoiceStepTyped ==
  ASSUME TypeOK, NEW c \in Clients, InvoiceStep(c)
  PROVE  TypeOK'
  <1> USE ConstantsAssumption
  <1>0. req[c] \in Request
    BY DEF TypeOK
  <1>1. ASSUME NEW i \in Invoices, NEW lines \in Subtotals, CreateInvoice(c, i, lines)
        PROVE  TypeOK'
    <2>1. [NoInvoiceRow EXCEPT !.status = "draft", !.lines = lines, !.total = lines] \in InvoiceRow
      BY DEF NoInvoiceRow, InvoiceRow, InvoiceStatuses
    <2> QED
      BY <1>1, <2>1, InvoiceTyped DEF CreateInvoice, TypeOK
  <1>2. ASSUME NEW i \in Invoices, NEW lines \in Subtotals \cup {Keep},
               BeginUpdateInvoice(c, i, lines)
        PROVE  TypeOK'
    <2>1. Patched(lines, invoice[i].lines) \in Nat
      BY DEF Patched, TypeOK, InvoiceRow
    <2>2. [at |-> "updateInvoice", inv |-> i, lines |-> lines,
           total |-> Patched(lines, invoice[i].lines)] \in Request
      BY <2>1 DEF Request
    <2> QED
      BY <1>2, <2>2 DEF BeginUpdateInvoice, Start, TypeOK
  <1>3. ASSUME NEW i \in Invoices, BeginIssue(c, i) \/ BeginCancel(c, i) \/ BeginDeleteInvoice(c, i)
        PROVE  TypeOK'
    <2>1. \A at \in {"issue", "cancel", "deleteInvoice"}: [at |-> at, inv |-> i] \in Request
      BY DEF Request
    <2> QED
      BY <1>3, <2>1 DEF BeginIssue, BeginCancel, BeginDeleteInvoice, Start, TypeOK
  <1>4. CASE CommitUpdateInvoice(c)
    <2> DEFINE r == req[c]
    <2>1. r.inv \in Invoices /\ r.lines \in Subtotals \cup {Keep} /\ r.total \in Nat
      BY <1>0, <1>4, RequestShapes DEF CommitUpdateInvoice
    <2>2. Patched(r.lines, invoice[r.inv].lines) \in Nat
      BY <2>1 DEF Patched, TypeOK, InvoiceRow
    <2>3. CASE PaidFits(invoice[r.inv].paid, r.total)
      <3>1. invoice' = [invoice EXCEPT ![r.inv].total = r.total,
                                       ![r.inv].lines = Patched(r.lines, @)]
            /\ Finish(c) /\ UNCHANGED payment
        BY <1>4, <2>3 DEF CommitUpdateInvoice
      <3>2. invoice' \in [Invoices -> InvoiceRow]
        BY <2>1, <2>2, <3>1 DEF TypeOK, InvoiceRow
      <3> QED
        BY <3>1, <3>2, FinishTyped DEF TypeOK
    <2>4. CASE ~PaidFits(invoice[r.inv].paid, r.total)
      BY <1>4, <2>4, FinishTyped DEF CommitUpdateInvoice, Abort, TypeOK
    <2> QED
      BY <2>3, <2>4
  <1>5. CASE CommitIssue(c) \/ CommitCancel(c) \/ CommitDeleteInvoice(c)
    <2>1. req[c].inv \in Invoices
      BY <1>0, <1>5, RequestShapes DEF CommitIssue, CommitCancel, CommitDeleteInvoice
    <2> DEFINE row == invoice[req[c].inv]
    <2>0. row \in InvoiceRow
      BY <2>1 DEF TypeOK
    <2>2. \A status \in InvoiceStatuses:
            [invoice EXCEPT ![req[c].inv].status = status] \in [Invoices -> InvoiceRow]
      <3>1. \A status \in InvoiceStatuses: [row EXCEPT !.status = status] \in InvoiceRow
        BY <2>0 DEF InvoiceRow
      <3> QED
        BY <2>1, <3>1, InvoiceTyped
    <2>3. [invoice EXCEPT ![req[c].inv].deleted = TRUE] \in [Invoices -> InvoiceRow]
      <3>1. [row EXCEPT !.deleted = TRUE] \in InvoiceRow
        BY <2>0 DEF InvoiceRow
      <3> QED
        BY <2>1, <3>1, InvoiceTyped
    <2>4. "sent" \in InvoiceStatuses /\ "cancelled" \in InvoiceStatuses
      BY DEF InvoiceStatuses
    <2>5. invoice' \in [Invoices -> InvoiceRow]
      BY <1>5, <2>2, <2>3, <2>4 DEF CommitIssue, CommitCancel, CommitDeleteInvoice
    <2> QED
      BY <1>5, <2>5, FinishTyped DEF CommitIssue, CommitCancel, CommitDeleteInvoice, TypeOK
  <1> QED
    BY <1>1, <1>2, <1>3, <1>4, <1>5 DEF InvoiceStep

\* Every step of PaymentService keeps the types.
LEMMA PaymentStepTyped ==
  ASSUME TypeOK, NEW c \in Clients, PaymentStep(c)
  PROVE  TypeOK'
  <1> USE ConstantsAssumption
  <1>0. req[c] \in Request
    BY DEF TypeOK
  <1>1. ASSUME NEW i \in Invoices \cup {NoInvoice}, NEW amount \in Amounts,
               NEW status \in BodyStatuses, BeginPay(c, i, amount, status)
        PROVE  TypeOK'
    <2>1. [at |-> "pay", inv |-> i, amount |-> amount, status |-> status] \in Request
      BY DEF Request, PaymentStatuses
    <2> QED
      BY <1>1, <2>1 DEF BeginPay, Start, TypeOK
  <1>2. ASSUME NEW p \in Payments, CommitPay(c, p)
        PROVE  TypeOK'
    <2> DEFINE row == [status |-> req[c].status, amount |-> req[c].amount, inv |-> req[c].inv,
                       deleted |-> FALSE]
    <2>1. row \in PaymentRow
      BY <1>0, <1>2, RequestShapes DEF CommitPay, PaymentRow
    <2>2. CommitPayment(c, p, row)
      BY <1>2 DEF CommitPay
    <2> QED
      BY <2>1, <2>2, CommitPaymentTyped
  <1>3. ASSUME NEW p \in Payments, NEW amount \in Amounts \cup {Keep},
               NEW status \in BodyStatuses \cup {Keep}, BeginUpdatePayment(c, p, amount, status)
        PROVE  TypeOK'
    <2>1. [at |-> "updatePayment", pay |-> p, amount |-> amount, status |-> status] \in Request
      BY DEF Request, PaymentStatuses
    <2> QED
      BY <1>3, <2>1 DEF BeginUpdatePayment, Start, TypeOK
  <1>4. ASSUME NEW p \in Payments, BeginReconcile(c, p) \/ BeginDeletePayment(c, p)
        PROVE  TypeOK'
    <2>1. \A at \in {"reconcile", "deletePayment"}: [at |-> at, pay |-> p] \in Request
      BY DEF Request
    <2> QED
      BY <1>4, <2>1 DEF BeginReconcile, BeginDeletePayment, Start, TypeOK
  <1>5. CASE AbortPay(c)
    BY <1>5, FinishTyped DEF AbortPay, Abort, TypeOK
  <1>6. CASE CommitUpdatePayment(c)
    <2> DEFINE r == req[c]
    <2> DEFINE row == [payment[r.pay] EXCEPT !.amount = Patched(r.amount, @),
                                             !.status = Patched(r.status, @)]
    <2>1. /\ r.pay \in Payments
          /\ r.amount \in Amounts \cup {Keep}
          /\ r.status \in PaymentStatuses \cup {Keep}
      BY <1>0, <1>6, RequestShapes DEF CommitUpdatePayment
    <2>2. payment[r.pay] \in PaymentRow
      BY <2>1 DEF TypeOK
    <2>3. row \in PaymentRow
      BY <2>1, <2>2 DEF Patched, PaymentRow
    <2>4. CommitPayment(c, r.pay, row)
      BY <1>6 DEF CommitUpdatePayment
    <2> QED
      BY <2>1, <2>3, <2>4, CommitPaymentTyped
  <1>7. CASE WriteReconcile(c) \/ WriteDeletePayment(c)
    <2> DEFINE p == req[c].pay
    <2> DEFINE reconciled == [payment[p] EXCEPT !.status = "reconciled"]
    <2> DEFINE cancelled == [payment[p] EXCEPT !.status = "cancelled", !.deleted = TRUE]
    <2>1. p \in Payments
      BY <1>0, <1>7, RequestShapes DEF WriteReconcile, WriteDeletePayment
    <2>2. payment[p] \in PaymentRow
      BY <2>1 DEF TypeOK
    <2>3. reconciled \in PaymentRow /\ cancelled \in PaymentRow
      BY <2>2 DEF PaymentRow, PaymentStatuses
    <2>4. WritePayment(c, p, reconciled) \/ WritePayment(c, p, cancelled)
      BY <1>7 DEF WriteReconcile, WriteDeletePayment
    <2> QED
      BY <2>1, <2>3, <2>4, WritePaymentTyped
  <1>8. CASE SyncRead(c)
    <2>1. req[c].inv \in Invoices
      BY <1>0, <1>8, RequestShapes DEF SyncRead
    <2> DEFINE next == StatusFor(invoice[req[c].inv].paid, invoice[req[c].inv].total)
    <2>2. [at |-> "syncWrite", inv |-> req[c].inv, status |-> next] \in Request
      BY <2>1 DEF Request, StatusFor
    <2> QED
      BY <1>8, <2>2, FinishTyped DEF SyncRead, TypeOK
  <1>9. CASE SyncWrite(c)
    <2>1. req[c].inv \in Invoices /\ req[c].status \in InvoiceStatuses
      BY <1>0, <1>9, RequestShapes DEF SyncWrite, InvoiceStatuses
    <2>2. invoice' \in [Invoices -> InvoiceRow]
      BY <1>9, <2>1 DEF SyncWrite, TypeOK, InvoiceRow
    <2> QED
      BY <1>9, <2>2, FinishTyped DEF SyncWrite, TypeOK
  <1> QED
    BY <1>1, <1>2, <1>3, <1>4, <1>5, <1>6, <1>7, <1>8, <1>9 DEF PaymentStep

LEMMA InitTyped == Init => TypeOK
  BY DEF Init, TypeOK, NoInvoiceRow, InvoiceRow, NoPaymentRow, PaymentRow, Request

LEMMA NextTyped == TypeOK /\ [Next]_vars => TypeOK'
  <1> SUFFICES ASSUME TypeOK, [Next]_vars PROVE TypeOK'
    OBVIOUS
  <1>1. CASE Next
    BY <1>1, InvoiceStepTyped, PaymentStepTyped DEF Next
  <1>2. CASE UNCHANGED vars
    BY <1>2 DEF vars, TypeOK
  <1> QED
    BY <1>1, <1>2

\* The two tables and the requests in flight are always well formed; in particular what
\* the trigger stores is a number.
THEOREM LedgerTyped == Spec => []TypeOK
  BY InitTyped, NextTyped, PTL DEF Spec

-----------------------------------------------------------------------------
(* No payment is attached to a draft, whatever requests overlap *)

Started(i) == invoice[i].status \notin {"none", "draft"}

\* NoPaymentOnDraft is not inductive: a payment is inserted a transaction after the
\* invoice was looked at.  What makes it hold is that an invoice never goes back to a
\* draft, so that what the request saw is still true when it writes.
PaymentsStarted ==
  /\ NoPaymentOnDraft
  /\ \A c \in Clients: (req[c].at = "pay" /\ req[c].inv # NoInvoice) => Started(req[c].inv)

\* Synchronising or recomputing an invoice does not make it a draft.
LEMMA CommitPaymentKeepsStarted ==
  ASSUME TypeOK, NEW c \in Clients, NEW p \in Payments, NEW row \in PaymentRow,
         CommitPayment(c, p, row), NEW i \in Invoices, Started(i)
  PROVE  Started(i)'
  <1> DEFINE j == row.inv
  <1> DEFINE invs == Recomputed([payment EXCEPT ![p] = row], j)
  <1>1. CASE UNCHANGED invoice
    BY <1>1 DEF Started
  <1>2. CASE j \in Invoices /\ invoice' = [invs EXCEPT ![j] = Synced(@)]
    <2>1. invs[i].status = invoice[i].status
      BY <1>2 DEF Recomputed, TypeOK, InvoiceRow
    <2>2. Synced(invs[i]).status \notin {"none", "draft"}
      BY <2>1 DEF Synced, StatusFor, Started, Recomputed, TypeOK, InvoiceRow
    <2>3. invoice'[i] = IF i = j THEN Synced(invs[i]) ELSE invs[i]
      BY <1>2 DEF Recomputed, TypeOK
    <2> QED
      BY <2>1, <2>2, <2>3 DEF Started
  <1>3. j \in Invoices \cup {NoInvoice}
    BY DEF PaymentRow
  <1> QED
    BY <1>1, <1>2, <1>3 DEF CommitPayment, Abort

LEMMA WritePaymentKeepsStarted ==
  ASSUME TypeOK, NEW c \in Clients, NEW p \in Payments, NEW row \in PaymentRow,
         WritePayment(c, p, row), NEW i \in Invoices, Started(i)
  PROVE  Started(i)'
  <1>1. CASE UNCHANGED invoice
    BY <1>1 DEF Started
  <1>2. CASE invoice' = Recomputed([payment EXCEPT ![p] = row], row.inv)
    BY <1>2 DEF Recomputed, Started, TypeOK, InvoiceRow
  <1> QED
    BY <1>1, <1>2 DEF WritePayment, Abort

\* The handlers of a payment write rows that keep the invoice of the payment.
LEMMA PaymentWrites ==
  ASSUME TypeOK, NEW c \in Clients,
         \/ \E p \in Payments: CommitPay(c, p)
         \/ CommitUpdatePayment(c) \/ WriteReconcile(c) \/ WriteDeletePayment(c)
  PROVE  \E p \in Payments, row \in PaymentRow:
              /\ \/ CommitPayment(c, p, row) /\ req[c].at \in {"pay", "updatePayment"}
                 \/ WritePayment(c, p, row) /\ req[c].at \in {"reconcile", "deletePayment"}
              /\ \/ row.inv = payment[p].inv
                 \/ /\ CommitPayment(c, p, row)
                    /\ req[c].at = "pay"
                    /\ row.inv = req[c].inv
  <1>0. req[c] \in Request /\ ConstantsAssumption
    BY ConstantsAssumption DEF TypeOK
  <1>1. ASSUME NEW p \in Payments, CommitPay(c, p)
        PROVE  \E row \in PaymentRow: CommitPayment(c, p, row) /\ req[c].at = "pay"
                                      /\ row.inv = req[c].inv
    <2> DEFINE row == [status |-> req[c].status, amount |-> req[c].amount, inv |-> req[c].inv,
                       deleted |-> FALSE]
    <2>1. row \in PaymentRow
      BY <1>0, <1>1, RequestShapes DEF CommitPay, PaymentRow, ConstantsAssumption
    <2>2. CommitPayment(c, p, row) /\ req[c].at = "pay" /\ row.inv = req[c].inv
      BY <1>1 DEF CommitPay
    <2> QED
      BY <2>1, <2>2
  <1>2. CASE CommitUpdatePayment(c)
    <2> DEFINE r == req[c]
    <2> DEFINE row == [payment[r.pay] EXCEPT !.amount = Patched(r.amount, @),
                                             !.status = Patched(r.status, @)]
    <2>1. /\ r.pay \in Payments
          /\ r.amount \in Amounts \cup {Keep}
          /\ r.status \in PaymentStatuses \cup {Keep}
      BY <1>0, <1>2, RequestShapes DEF CommitUpdatePayment
    <2>2. payment[r.pay] \in PaymentRow
      BY <2>1 DEF TypeOK
    <2>3. row \in PaymentRow /\ row.inv = payment[r.pay].inv
      BY <1>0, <2>1, <2>2 DEF Patched, PaymentRow, ConstantsAssumption
    <2>4. CommitPayment(c, r.pay, row) /\ req[c].at = "updatePayment"
      BY <1>2 DEF CommitUpdatePayment
    <2> HIDE DEF row
    <2> QED
      BY <2>1, <2>3, <2>4
  <1>3. CASE WriteReconcile(c) \/ WriteDeletePayment(c)
    <2> DEFINE p == req[c].pay
    <2> DEFINE reconciled == [payment[p] EXCEPT !.status = "reconciled"]
    <2> DEFINE cancelled == [payment[p] EXCEPT !.status = "cancelled", !.deleted = TRUE]
    <2>1. p \in Payments
      BY <1>0, <1>3, RequestShapes DEF WriteReconcile, WriteDeletePayment
    <2>2. payment[p] \in PaymentRow
      BY <2>1 DEF TypeOK
    <2>3. /\ reconciled \in PaymentRow /\ reconciled.inv = payment[p].inv
          /\ cancelled \in PaymentRow /\ cancelled.inv = payment[p].inv
      BY <2>2 DEF PaymentRow, PaymentStatuses
    <2>4. /\ WritePayment(c, p, reconciled) \/ WritePayment(c, p, cancelled)
          /\ req[c].at \in {"reconcile", "deletePayment"}
      BY <1>3 DEF WriteReconcile, WriteDeletePayment
    <2> HIDE DEF p, reconciled, cancelled
    <2> QED
      BY <2>1, <2>3, <2>4
  <1> QED
    BY <1>1, <1>2, <1>3

\* Its other steps write neither payments nor invoices, but for syncInvoiceStatus.
LEMMA PaymentRowsWritten ==
  ASSUME TypeOK, NEW c \in Clients, PaymentStep(c)
  PROVE  \/ UNCHANGED payment /\ UNCHANGED invoice
         \/ UNCHANGED payment /\ SyncWrite(c)
         \/ \E p \in Payments, row \in PaymentRow:
              /\ \/ CommitPayment(c, p, row) /\ req[c].at \in {"pay", "updatePayment"}
                 \/ WritePayment(c, p, row) /\ req[c].at \in {"reconcile", "deletePayment"}
              /\ \/ row.inv = payment[p].inv
                 \/ /\ CommitPayment(c, p, row)
                    /\ req[c].at = "pay"
                    /\ row.inv = req[c].inv
  <1>4. CASE SyncWrite(c)
    BY <1>4 DEF SyncWrite
  <1>5. ASSUME NEW p \in Payments, NEW amount \in Amounts \cup {Keep},
               NEW status \in BodyStatuses \cup {Keep},
               BeginUpdatePayment(c, p, amount, status) \/ BeginReconcile(c, p)
                 \/ BeginDeletePayment(c, p) \/ AbortPay(c) \/ SyncRead(c)
        PROVE  UNCHANGED payment /\ UNCHANGED invoice
    BY <1>5 DEF BeginUpdatePayment, BeginReconcile, BeginDeletePayment, AbortPay, Abort,
                SyncRead, Start
  <1>6. ASSUME NEW i \in Invoices \cup {NoInvoice}, NEW amount \in Amounts,
               NEW status \in BodyStatuses, BeginPay(c, i, amount, status)
        PROVE  UNCHANGED payment /\ UNCHANGED invoice
    BY <1>6 DEF BeginPay, Start
  <1>7. (AbortPay(c) \/ SyncRead(c)) => UNCHANGED payment /\ UNCHANGED invoice
    BY DEF AbortPay, Abort, SyncRead
  <1>8. \A p \in Payments: BeginReconcile(c, p) \/ BeginDeletePayment(c, p)
                             => UNCHANGED payment /\ UNCHANGED invoice
    BY DEF BeginReconcile, BeginDeletePayment, Start
  <1> QED
    BY <1>4, <1>5, <1>6, <1>7, <1>8, PaymentWrites DEF PaymentStep

\* What a step that does not make issued invoices drafts has to show: every payment it
\* leaves, and every payment request, names an invoice that was started before it.
LEMMA KeepsPaymentsStarted ==
  ASSUME \A i \in Invoices: Started(i) => Started(i)',
         \A p \in Payments: payment'[p].inv # NoInvoice =>
            payment'[p].inv \in Invoices /\ Started(payment'[p].inv),
         \A c \in Clients: (req'[c].at = "pay" /\ req'[c].inv # NoInvoice) =>
            req'[c].inv \in Invoices /\ Started(req'[c].inv)
  PROVE  PaymentsStarted'
  BY DEF PaymentsStarted, NoPaymentOnDraft, Started

\* What holds before any step, said in the form the lemma above asks for.
LEMMA StartedBefore ==
  ASSUME TypeOK, PaymentsStarted
  PROVE  /\ \A p \in Payments: payment[p].inv # NoInvoice =>
              payment[p].inv \in Invoices /\ Started(payment[p].inv)
         /\ \A c \in Clients: (req[c].at = "pay" /\ req[c].inv # NoInvoice) =>
              req[c].inv \in Invoices /\ Started(req[c].inv)
  <1>1. \A p \in Payments: payment[p].inv \in Invoices \cup {NoInvoice}
    BY DEF TypeOK, PaymentRow
  <1>2. \A c \in Clients: req[c].at = "pay" => req[c].inv \in Invoices \cup {NoInvoice}
    BY RequestShapes DEF TypeOK
  <1> QED
    BY <1>1, <1>2 DEF PaymentsStarted, NoPaymentOnDraft, Started

\* A request that does something else than a payment next leaves the requests alone.
LEMMA OtherRequests ==
  ASSUME TypeOK, PaymentsStarted, NEW c \in Clients, NEW r,
         req' = [req EXCEPT ![c] = r], r.at # "pay"
  PROVE  \A d \in Clients: (req'[d].at = "pay" /\ req'[d].inv # NoInvoice) =>
           req'[d].inv \in Invoices /\ Started(req'[d].inv)
  <1>1. \A d \in Clients: req'[d] = IF d = c THEN r ELSE req[d]
    BY DEF TypeOK
  <1> QED
    BY <1>1, StartedBefore

\* The first half of a handler of InvoiceService only keeps what it read.
InvoiceBegins(c) ==
  \E i \in Invoices:
    \/ \E lines \in Subtotals \cup {Keep}: BeginUpdateInvoice(c, i, lines)
    \/ BeginIssue(c, i)
    \/ BeginCancel(c, i)
    \/ BeginDeleteInvoice(c, i)

LEMMA InvoiceBegun ==
  ASSUME TypeOK, NEW c \in Clients, InvoiceBegins(c)
  PROVE  /\ UNCHANGED <<invoice, payment>>
         /\ req[c] = Idle
         /\ req'[c].at \in {"updateInvoice", "issue", "cancel", "deleteInvoice"} \cap Calls[c]
         /\ req' = [req EXCEPT ![c] = req'[c]]
  <1> DEFINE Begun == /\ UNCHANGED <<invoice, payment>>
                      /\ req[c] = Idle
                      /\ req'[c].at \in {"updateInvoice", "issue", "cancel", "deleteInvoice"} \cap Calls[c]
                      /\ req' = [req EXCEPT ![c] = req'[c]]
  <1>1. ASSUME NEW i \in Invoices, NEW lines \in Subtotals \cup {Keep},
               BeginUpdateInvoice(c, i, lines)
        PROVE  Begun
    BY <1>1 DEF BeginUpdateInvoice, Start, TypeOK
  <1>2. ASSUME NEW i \in Invoices, BeginIssue(c, i) PROVE Begun
    BY <1>2 DEF BeginIssue, Start, TypeOK
  <1>3. ASSUME NEW i \in Invoices, BeginCancel(c, i) PROVE Begun
    BY <1>3 DEF BeginCancel, Start, TypeOK
  <1>4. ASSUME NEW i \in Invoices, BeginDeleteInvoice(c, i) PROVE Begun
    BY <1>4 DEF BeginDeleteInvoice, Start, TypeOK
  <1> HIDE DEF Begun
  <1>5. Begun
    BY <1>1, <1>2, <1>3, <1>4 DEF InvoiceBegins
  <1> QED
    BY <1>5 DEF Begun

\* InvoiceService never puts an invoice back to a draft.
LEMMA InvoiceStepKeepsPaymentsStarted ==
  ASSUME TypeOK, PaymentsStarted, NEW c \in Clients, InvoiceStep(c)
  PROVE  PaymentsStarted'
  <1>0. req[c] \in Request
    BY DEF TypeOK
  <1>1. /\ UNCHANGED payment
        /\ UNCHANGED req \/ \E r: r.at # "pay" /\ req' = [req EXCEPT ![c] = r]
    <2>1. CASE \E i \in Invoices, lines \in Subtotals: CreateInvoice(c, i, lines)
      BY <2>1 DEF CreateInvoice
    <2>2. CASE InvoiceBegins(c)
      BY <2>2, InvoiceBegun
    <2>3. CASE CommitUpdateInvoice(c)
      BY <2>3 DEF CommitUpdateInvoice, Abort, Finish, Idle
    <2>4. CASE CommitIssue(c) \/ CommitCancel(c) \/ CommitDeleteInvoice(c)
      BY <2>4 DEF CommitIssue, CommitCancel, CommitDeleteInvoice, Finish, Idle
    <2> QED
      BY <2>1, <2>2, <2>3, <2>4 DEF InvoiceStep, InvoiceBegins
  <1>2. \A i \in Invoices: Started(i) => Started(i)'
    <2>1. ASSUME NEW i \in Invoices, NEW lines \in Subtotals, CreateInvoice(c, i, lines)
          PROVE  \A j \in Invoices: Started(j) => Started(j)'
      BY <2>1 DEF CreateInvoice, Started, TypeOK
    <2>2. CASE CommitUpdateInvoice(c)
      <3>1. req[c].inv \in Invoices
        BY <1>0, <2>2, RequestShapes DEF CommitUpdateInvoice
      <3> QED
        BY <2>2, <3>1 DEF CommitUpdateInvoice, Abort, Started, TypeOK, InvoiceRow
    <2>3. CASE CommitIssue(c) \/ CommitCancel(c) \/ CommitDeleteInvoice(c)
      <3>1. req[c].inv \in Invoices
        BY <1>0, <2>3, RequestShapes DEF CommitIssue, CommitCancel, CommitDeleteInvoice
      <3> QED
        BY <2>3, <3>1 DEF CommitIssue, CommitCancel, CommitDeleteInvoice, Started, TypeOK,
                          InvoiceRow
    <2>4. CASE UNCHANGED invoice
      BY <2>4 DEF Started
    <2> QED
      BY <2>1, <2>2, <2>3, <2>4, InvoiceBegun DEF InvoiceStep, InvoiceBegins
  <1>4. \A d \in Clients: (req'[d].at = "pay" /\ req'[d].inv # NoInvoice) =>
          req'[d].inv \in Invoices /\ Started(req'[d].inv)
    BY <1>1, OtherRequests, StartedBefore
  <1> QED
    BY <1>1, <1>2, <1>4, StartedBefore, KeepsPaymentsStarted

\* Of PaymentService only create starts a payment.
LEMMA OnlyCreatePays ==
  ASSUME TypeOK, NEW c \in Clients, PaymentStep(c)
  PROVE  \/ \E i \in Invoices \cup {NoInvoice}, amount \in Amounts, status \in BodyStatuses:
              BeginPay(c, i, amount, status)
         \/ \E r: r.at # "pay" /\ req' = [req EXCEPT ![c] = r]
  <1>2. \A p \in Payments: \A row: CommitPayment(c, p, row) => Finish(c)
    BY DEF CommitPayment, Abort
  <1>3. \A p \in Payments: \A row: WritePayment(c, p, row) =>
          \E r: r.at # "pay" /\ req' = [req EXCEPT ![c] = r]
    BY DEF WritePayment, Abort, Finish, Idle
  <1>5. Finish(c) => \E r: r.at # "pay" /\ req' = [req EXCEPT ![c] = r]
    BY DEF Finish, Idle
  <1>6. CASE \E p \in Payments: CommitPay(c, p)
    BY <1>2, <1>5, <1>6 DEF CommitPay
  <1>7. CASE CommitUpdatePayment(c)
    <2>1. req[c].pay \in Payments
      BY <1>7, RequestShapes DEF CommitUpdatePayment, TypeOK
    <2> QED
      BY <1>2, <1>5, <1>7, <2>1 DEF CommitUpdatePayment
  <1>8. CASE WriteReconcile(c) \/ WriteDeletePayment(c)
    <2>1. req[c].pay \in Payments
      BY <1>8, RequestShapes DEF WriteReconcile, WriteDeletePayment, TypeOK
    <2> QED
      BY <1>3, <1>8, <2>1 DEF WriteReconcile, WriteDeletePayment
  <1>9. CASE AbortPay(c) \/ SyncRead(c) \/ SyncWrite(c)
    BY <1>5, <1>9 DEF AbortPay, Abort, SyncRead, SyncWrite
  <1>10. ASSUME NEW p \in Payments, NEW amount \in Amounts \cup {Keep},
                NEW status \in BodyStatuses \cup {Keep},
                BeginUpdatePayment(c, p, amount, status)
         PROVE  \E r: r.at # "pay" /\ req' = [req EXCEPT ![c] = r]
    BY <1>10 DEF BeginUpdatePayment, Start
  <1>11. \A p \in Payments: BeginReconcile(c, p) \/ BeginDeletePayment(c, p) =>
           \E r: r.at # "pay" /\ req' = [req EXCEPT ![c] = r]
    BY DEF BeginReconcile, BeginDeletePayment, Start
  <1> QED
    BY <1>6, <1>7, <1>8, <1>9, <1>10, <1>11 DEF PaymentStep

\* A payment is started for no invoice, or for one that was started.
LEMMA PaymentRequests ==
  ASSUME TypeOK, PaymentsStarted, NEW c \in Clients, PaymentStep(c)
  PROVE  \A d \in Clients: (req'[d].at = "pay" /\ req'[d].inv # NoInvoice) =>
           req'[d].inv \in Invoices /\ Started(req'[d].inv)
  <1>1. ASSUME NEW i \in Invoices \cup {NoInvoice}, NEW amount \in Amounts,
               NEW status \in BodyStatuses, BeginPay(c, i, amount, status)
        PROVE  \A d \in Clients: (req'[d].at = "pay" /\ req'[d].inv # NoInvoice) =>
                 req'[d].inv \in Invoices /\ Started(req'[d].inv)
    <2> DEFINE r == [at |-> "pay", inv |-> i, amount |-> amount, status |-> status]
    <2>1. /\ i # NoInvoice => MayPay(i, amount)
          /\ req' = [req EXCEPT ![c] = r]
      BY <1>1 DEF BeginPay, Start
    <2>2. \A d \in Clients: req'[d] = IF d = c THEN r ELSE req[d]
      BY <2>1 DEF TypeOK
    <2>3. i # NoInvoice => i \in Invoices /\ Started(i)
      BY <2>1 DEF MayPay, Found, Started
    <2> QED
      BY <2>2, <2>3, StartedBefore
  <1>2. CASE \E r: r.at # "pay" /\ req' = [req EXCEPT ![c] = r]
    BY <1>2, OtherRequests
  <1> QED
    BY <1>1, <1>2, OnlyCreatePays

\* Synchronising an invoice on its own writes one of the statuses of an issued invoice.
LEMMA SyncWriteKeepsStarted ==
  ASSUME TypeOK, NEW c \in Clients, SyncWrite(c), NEW i \in Invoices, Started(i)
  PROVE  Started(i)'
  <1>1. req[c].inv \in Invoices /\ req[c].status \in {"sent", "partial", "paid"}
    BY RequestShapes DEF SyncWrite, TypeOK
  <1> QED
    BY <1>1 DEF SyncWrite, Started, TypeOK, InvoiceRow

LEMMA PaymentStepKeepsPaymentsStarted ==
  ASSUME TypeOK, PaymentsStarted, NEW c \in Clients, PaymentStep(c)
  PROVE  PaymentsStarted'
  <1>1. CASE UNCHANGED payment /\ UNCHANGED invoice
    BY <1>1, PaymentRequests, StartedBefore, KeepsPaymentsStarted DEF Started
  <1>2. CASE UNCHANGED payment /\ SyncWrite(c)
    BY <1>2, PaymentRequests, StartedBefore, KeepsPaymentsStarted, SyncWriteKeepsStarted
  <1>3. ASSUME NEW p \in Payments, NEW row \in PaymentRow,
               CommitPayment(c, p, row) \/ WritePayment(c, p, row),
               \/ row.inv = payment[p].inv
               \/ /\ CommitPayment(c, p, row)
                  /\ req[c].at = "pay"
                  /\ row.inv = req[c].inv
        PROVE  PaymentsStarted'
    <2>1. \A i \in Invoices: Started(i) => Started(i)'
      BY <1>3, CommitPaymentKeepsStarted, WritePaymentKeepsStarted
    <2>2. row.inv # NoInvoice => row.inv \in Invoices /\ Started(row.inv)
      BY <1>3, StartedBefore
    <2>3. payment' = payment \/ payment' = [payment EXCEPT ![p] = row]
      BY <1>3 DEF CommitPayment, WritePayment, Abort
    <2>4. \A q \in Payments: payment'[q] = payment[q] \/ payment'[q] = row
      BY <2>3 DEF TypeOK
    <2>5. \A q \in Payments: payment'[q].inv # NoInvoice =>
            payment'[q].inv \in Invoices /\ Started(payment'[q].inv)
      BY <2>2, <2>4, StartedBefore
    <2> QED
      BY <2>1, <2>5, PaymentRequests, KeepsPaymentsStarted
  <1> QED
    BY <1>1, <1>2, <1>3, PaymentRowsWritten

LEMMA InitPaymentsStarted == Init => PaymentsStarted
  BY DEF Init, PaymentsStarted, NoPaymentOnDraft, NoPaymentRow, Idle

LEMMA NextPaymentsStarted ==
  TypeOK /\ PaymentsStarted /\ [Next]_vars => PaymentsStarted'
  <1> SUFFICES ASSUME TypeOK, PaymentsStarted, [Next]_vars PROVE PaymentsStarted'
    OBVIOUS
  <1>1. CASE Next
    BY <1>1, InvoiceStepKeepsPaymentsStarted, PaymentStepKeepsPaymentsStarted DEF Next
  <1>2. CASE UNCHANGED vars
    BY <1>2 DEF vars, PaymentsStarted, NoPaymentOnDraft, Started
  <1> QED
    BY <1>1, <1>2

\* However the requests of any number of clients overlap, a payment is attached to an
\* issued invoice, or one cancelled since: create's guard still holds when it inserts.
THEOREM PaymentsOnlyOnIssued == Spec => []NoPaymentOnDraft
  <1>1. PaymentsStarted => NoPaymentOnDraft
    BY DEF PaymentsStarted
  <1> QED
    BY InitTyped, NextTyped, InitPaymentsStarted, NextPaymentsStarted, <1>1, PTL DEF Spec
-----------------------------------------------------------------------------
(* Who may write an invoice at the same time *)

\* Requests are served one after the other ...
OneClient == \A c, d \in Clients: c = d

\* ... or overlap, but one clerk keeps the invoices, the others only take and correct
\* payments, and nobody reconciles or deletes one.
TellerCalls == {"pay", "updatePayment"}
OneClerk ==
  \E clerk \in Clients:
    /\ \A c \in Clients \ {clerk}: Calls[c] \subseteq TellerCalls
    /\ Calls[clerk] \cap {"reconcile", "deletePayment"} = {}

\* A request is in flight on an endpoint its client uses.
InFlightAllowed ==
  \A c \in Clients:
    /\ req[c].at \in Endpoints => req[c].at \in Calls[c]
    /\ req[c].at \in {"syncRead", "syncWrite"}
         => Calls[c] \cap {"reconcile", "deletePayment"} # {}

\* The invoice a request names.
Row(c) == invoice[req[c].inv]

\* What a row satisfies in every state.
Sound(row) ==
  /\ row.status = "none" => ~row.deleted
  /\ row.status \in {"none", "draft"} => row.paid = 0
  /\ row.paid <= row.total
  /\ row.total = row.lines

\* What a request in flight read and relies on.
ReadsHold(c) ==
  LET r == req[c]
  IN  /\ r.at = "updateInvoice" => /\ Row(c).status = "draft"
                                   /\ r.total = Patched(r.lines, Row(c).lines)
      /\ r.at = "issue" => Row(c).status = "draft" /\ ~Row(c).deleted
      /\ r.at = "cancel" => Row(c).status \notin {"none", "cancelled"} /\ ~Row(c).deleted
      /\ r.at = "deleteInvoice" => Row(c).status \in {"draft", "cancelled"}
      /\ r.at = "syncRead" => Row(c).status \notin {"none", "draft"}
      /\ r.at = "syncWrite" => /\ Row(c).status \in Issued
                               /\ r.status = StatusFor(Row(c).paid, Row(c).total)

\* The inductive invariant, under either of the two rules above.
LedgerInv ==
  /\ \A i \in Invoices: Sound(invoice[i])
  /\ StatusFollowsPayments
  /\ \A c \in Clients: ReadsHold(c)

\* The steps of a payment, seen from the invoices: money comes in or is corrected and the
\* status follows at once, ...
Received(c, i, n) ==
  /\ Started(i)
  /\ n \in 0..invoice[i].total
  /\ Finish(c)
  /\ invoice' = [invoice EXCEPT ![i] = Synced([@ EXCEPT !.paid = n])]

\* ... or will when the client's request goes on.
ReceivedFirst(c, i, n) ==
  /\ Started(i)
  /\ n \in 0..invoice[i].total
  /\ req[c].at \in {"reconcile", "deletePayment"}
  /\ req' = [req EXCEPT ![c] = [at |-> "syncRead", inv |-> i]]
  /\ invoice' = [invoice EXCEPT ![i].paid = n]

LEMMA CommitPaymentReceives ==
  ASSUME TypeOK, NEW c \in Clients, NEW p \in Payments, NEW row \in PaymentRow,
         CommitPayment(c, p, row), row.inv # NoInvoice => Started(row.inv)
  PROVE  \/ UNCHANGED invoice /\ Finish(c)
         \/ \E i \in Invoices, n \in Nat: Received(c, i, n)
  <1> DEFINE i == row.inv
             pays == [payment EXCEPT ![p] = row]
             invs == Recomputed(pays, i)
             n == ContributingSum(pays, i)
  <1>1. CASE i # NoInvoice /\ PaidFits(invs[i].paid, invs[i].total)
    <2>1. i \in Invoices
      BY <1>1 DEF PaymentRow
    <2>2. Finish(c) /\ invoice' = [invs EXCEPT ![i] = Synced(@)]
      BY <1>1 DEF CommitPayment
    <2>3. invs = [invoice EXCEPT ![i].paid = n]
      BY DEF Recomputed
    <2> HIDE DEF n, pays
    <2>4. invs[i] = [invoice[i] EXCEPT !.paid = n] /\ invoice[i] \in InvoiceRow
      BY <2>1, <2>3 DEF TypeOK
    <2>5. invs[i].paid = n /\ invs[i].total = invoice[i].total
      BY <2>4 DEF InvoiceRow
    <2>6. n \in 0..invoice[i].total /\ invoice[i].total \in Nat
      BY <1>1, <2>4, <2>5 DEF PaidFits, InvoiceRow
    <2>7. invoice' = [invoice EXCEPT ![i] = Synced([@ EXCEPT !.paid = n])]
      BY <2>1, <2>2, <2>3 DEF TypeOK
    <2> QED
      BY <1>1, <2>1, <2>2, <2>6, <2>7 DEF Received
  <1>2. CASE ~(i # NoInvoice /\ PaidFits(invs[i].paid, invs[i].total))
    BY <1>2 DEF CommitPayment, Abort
  <1> QED
    BY <1>1, <1>2

LEMMA WritePaymentReceives ==
  ASSUME TypeOK, NEW c \in Clients, NEW p \in Payments, NEW row \in PaymentRow,
         WritePayment(c, p, row), row.inv # NoInvoice => Started(row.inv),
         req[c].at \in {"reconcile", "deletePayment"}
  PROVE  \/ UNCHANGED invoice /\ Finish(c)
         \/ \E i \in Invoices, n \in Nat: ReceivedFirst(c, i, n)
  <1> DEFINE i == row.inv
             pays == [payment EXCEPT ![p] = row]
             invs == Recomputed(pays, i)
             n == ContributingSum(pays, i)
  <1>1. CASE i # NoInvoice /\ PaidFits(invs[i].paid, invs[i].total)
    <2>1. i \in Invoices
      BY <1>1 DEF PaymentRow
    <2>2. invoice' = invs /\ req' = [req EXCEPT ![c] = [at |-> "syncRead", inv |-> i]]
      BY <1>1 DEF WritePayment
    <2>3. invs = [invoice EXCEPT ![i].paid = n]
      BY DEF Recomputed
    <2> HIDE DEF n, pays
    <2>4. invs[i].paid = n /\ invs[i].total = invoice[i].total /\ invoice[i].total \in Nat
      BY <2>1, <2>3 DEF TypeOK, InvoiceRow
    <2>5. n \in 0..invoice[i].total
      BY <1>1, <2>4 DEF PaidFits
    <2>6. invoice' = [invoice EXCEPT ![i].paid = n]
      BY <2>2, <2>3
    <2>7. ReceivedFirst(c, i, n)
      BY <1>1, <2>2, <2>5, <2>6 DEF ReceivedFirst
    <2>8. n \in Nat
      BY <2>4, <2>5
    <2> QED
      BY <2>1, <2>7, <2>8
  <1>2. CASE ~(i # NoInvoice /\ PaidFits(invs[i].paid, invs[i].total))
    BY <1>2 DEF WritePayment, Abort
  <1> QED
    BY <1>1, <1>2

\* Everything a step of PaymentService may do to the invoices and to its request.
LEMMA PaymentEffects ==
  ASSUME TypeOK, PaymentsStarted, NEW c \in Clients, PaymentStep(c)
  PROVE  \/ /\ UNCHANGED invoice
            /\ req[c] = Idle
            /\ req'[c].at \in {"pay", "updatePayment", "reconcile", "deletePayment"} \cap Calls[c]
            /\ req' = [req EXCEPT ![c] = req'[c]]
         \/ /\ UNCHANGED invoice
            /\ req[c].at \in {"pay", "updatePayment", "reconcile", "deletePayment"}
            /\ Finish(c)
         \/ /\ req[c].at \in TellerCalls
            /\ \E i \in Invoices, n \in Nat: Received(c, i, n)
         \/ \E i \in Invoices, n \in Nat: ReceivedFirst(c, i, n)
         \/ SyncRead(c)
         \/ SyncWrite(c)
  <1>1. CASE \/ \E i \in Invoices \cup {NoInvoice}, amount \in Amounts, status \in BodyStatuses:
                  BeginPay(c, i, amount, status)
             \/ \E p \in Payments:
                  \/ \E amount \in Amounts \cup {Keep}, status \in BodyStatuses \cup {Keep}:
                       BeginUpdatePayment(c, p, amount, status)
                  \/ BeginReconcile(c, p)
                  \/ BeginDeletePayment(c, p)
    <2> DEFINE Goal == /\ UNCHANGED invoice
                       /\ req[c] = Idle
                       /\ req'[c].at \in {"pay", "updatePayment", "reconcile", "deletePayment"}
                                           \cap Calls[c]
                       /\ req' = [req EXCEPT ![c] = req'[c]]
    <2>1. ASSUME NEW i \in Invoices \cup {NoInvoice}, NEW amount \in Amounts,
                 NEW status \in BodyStatuses, BeginPay(c, i, amount, status)
          PROVE  Goal
      BY <2>1 DEF BeginPay, Start, TypeOK
    <2>2. ASSUME NEW p \in Payments, NEW amount \in Amounts \cup {Keep},
                 NEW status \in BodyStatuses \cup {Keep},
                 BeginUpdatePayment(c, p, amount, status)
          PROVE  Goal
      BY <2>2 DEF BeginUpdatePayment, Start, TypeOK
    <2>3. ASSUME NEW p \in Payments, BeginReconcile(c, p) \/ BeginDeletePayment(c, p)
          PROVE  Goal
      BY <2>3 DEF BeginReconcile, BeginDeletePayment, Start, TypeOK
    <2> QED
      BY <1>1, <2>1, <2>2, <2>3
  <1>2. CASE AbortPay(c)
    BY <1>2 DEF AbortPay, Abort
  <1>3. ASSUME NEW p \in Payments, NEW row \in PaymentRow,
               \/ CommitPayment(c, p, row) /\ req[c].at \in {"pay", "updatePayment"}
               \/ WritePayment(c, p, row) /\ req[c].at \in {"reconcile", "deletePayment"},
               \/ row.inv = payment[p].inv
               \/ /\ CommitPayment(c, p, row)
                  /\ req[c].at = "pay"
                  /\ row.inv = req[c].inv
        PROVE  \/ /\ UNCHANGED invoice
                  /\ req[c].at \in {"pay", "updatePayment", "reconcile", "deletePayment"}
                  /\ Finish(c)
               \/ /\ req[c].at \in TellerCalls
                  /\ \E i \in Invoices, n \in Nat: Received(c, i, n)
               \/ \E i \in Invoices, n \in Nat: ReceivedFirst(c, i, n)
    <2>1. row.inv # NoInvoice => Started(row.inv)
      BY <1>3, StartedBefore
    <2>2. CASE CommitPayment(c, p, row) /\ req[c].at \in {"pay", "updatePayment"}
      BY <2>1, <2>2, CommitPaymentReceives DEF TellerCalls
    <2>3. CASE WritePayment(c, p, row) /\ req[c].at \in {"reconcile", "deletePayment"}
      BY <2>1, <2>3, WritePaymentReceives
    <2> QED
      BY <1>3, <2>2, <2>3
  <1>4. CASE \E p \in Payments, row \in PaymentRow:
               /\ \/ CommitPayment(c, p, row) /\ req[c].at \in {"pay", "updatePayment"}
                  \/ WritePayment(c, p, row) /\ req[c].at \in {"reconcile", "deletePayment"}
               /\ \/ row.inv = payment[p].inv
                  \/ /\ CommitPayment(c, p, row)
                     /\ req[c].at = "pay"
                     /\ row.inv = req[c].inv
    BY <1>3, <1>4
  <1> QED
    BY <1>1, <1>2, <1>4, PaymentWrites DEF PaymentStep
\* The same for a step of InvoiceService.
LEMMA InvoiceEffects ==
  ASSUME NEW c \in Clients, InvoiceStep(c)
  PROVE  \/ \E i \in Invoices, lines \in Subtotals: CreateInvoice(c, i, lines)
         \/ InvoiceBegins(c)
         \/ CommitUpdateInvoice(c)
         \/ CommitIssue(c)
         \/ CommitCancel(c)
         \/ CommitDeleteInvoice(c)
  BY DEF InvoiceStep, InvoiceBegins

\* A step leaves the requests of the other clients alone.
LEMMA OthersStay ==
  ASSUME TypeOK, PaymentsStarted, NEW c \in Clients, InvoiceStep(c) \/ PaymentStep(c)
  PROVE  \A d \in Clients \ {c}: req'[d] = req[d]
  <1>1. CASE InvoiceStep(c)
    <2>1. CASE \E i \in Invoices, lines \in Subtotals: CreateInvoice(c, i, lines)
      BY <2>1 DEF CreateInvoice
    <2>2. CASE InvoiceBegins(c)
      BY <2>2, InvoiceBegun DEF TypeOK
    <2>3. CASE CommitUpdateInvoice(c)
      BY <2>3 DEF CommitUpdateInvoice, Abort, Finish, TypeOK
    <2>4. CASE CommitIssue(c) \/ CommitCancel(c) \/ CommitDeleteInvoice(c)
      BY <2>4 DEF CommitIssue, CommitCancel, CommitDeleteInvoice, Finish, TypeOK
    <2> QED
      BY <1>1, <2>1, <2>2, <2>3, <2>4, InvoiceEffects
  <1>2. CASE PaymentStep(c)
    <2>1. CASE req' = [req EXCEPT ![c] = req'[c]]
      BY <2>1 DEF TypeOK
    <2>2. CASE Finish(c)
      BY <2>2 DEF Finish, TypeOK
    <2>3. CASE \E i \in Invoices, n \in Nat: Received(c, i, n) \/ ReceivedFirst(c, i, n)
      BY <2>2, <2>3 DEF Received, ReceivedFirst, TypeOK
    <2>4. CASE SyncRead(c) \/ SyncWrite(c)
      BY <2>4 DEF SyncRead, SyncWrite, Finish, TypeOK
    <2> QED
      BY <1>2, <2>1, <2>2, <2>3, <2>4, PaymentEffects
  <1> QED
    BY <1>1, <1>2

LEMMA KeepsAllowed ==
  ASSUME TypeOK, PaymentsStarted, InFlightAllowed, NEW c \in Clients,
         InvoiceStep(c) \/ PaymentStep(c)
  PROVE  InFlightAllowed'
  <1> DEFINE Allowed == /\ req'[c].at \in Endpoints => req'[c].at \in Calls[c]
                        /\ req'[c].at \in {"syncRead", "syncWrite"}
                             => Calls[c] \cap {"reconcile", "deletePayment"} # {}
  <1> SUFFICES Allowed
    BY OthersStay DEF InFlightAllowed
  <1>1. CASE Finish(c)
    <2>1. req'[c] = Idle
      BY <1>1 DEF Finish, TypeOK
    <2> QED
      BY <2>1 DEF Idle, Endpoints
  <1>2. CASE UNCHANGED req
    BY <1>2 DEF InFlightAllowed
  <1>3. CASE req'[c].at \in Endpoints \cap Calls[c]
    BY <1>3 DEF Endpoints
  <1>4. CASE InvoiceStep(c)
    <2>1. CASE InvoiceBegins(c)
      BY <1>3, <2>1, InvoiceBegun DEF Endpoints
    <2>2. \A i \in Invoices, lines \in Subtotals: CreateInvoice(c, i, lines) => UNCHANGED req
      BY DEF CreateInvoice
    <2>3. CommitUpdateInvoice(c) \/ CommitIssue(c) \/ CommitCancel(c) \/ CommitDeleteInvoice(c)
            => Finish(c)
      BY DEF CommitUpdateInvoice, CommitIssue, CommitCancel, CommitDeleteInvoice, Abort
    <2> QED
      BY <1>1, <1>2, <1>4, <2>1, <2>2, <2>3, InvoiceEffects
  <1>5. CASE PaymentStep(c)
    <2>1. CASE req'[c].at \in {"pay", "updatePayment", "reconcile", "deletePayment"} \cap Calls[c]
      BY <1>3, <2>1 DEF Endpoints
    <2>2. ASSUME NEW i \in Invoices, NEW n \in Nat, ReceivedFirst(c, i, n) PROVE Allowed
      <3>1. req'[c].at = "syncRead" /\ req[c].at \in Calls[c]
        BY <2>2 DEF ReceivedFirst, TypeOK, InFlightAllowed, Endpoints
      <3> QED
        BY <2>2, <3>1 DEF ReceivedFirst, Endpoints
    <2>3. CASE SyncRead(c)
      <3>1. Finish(c) \/ req'[c].at = "syncWrite"
        BY <2>3 DEF SyncRead, TypeOK
      <3>2. Calls[c] \cap {"reconcile", "deletePayment"} # {}
        BY <2>3 DEF SyncRead, InFlightAllowed
      <3> QED
        BY <1>1, <3>1, <3>2 DEF Endpoints
    <2>4. CASE SyncWrite(c)
      BY <1>1, <2>4 DEF SyncWrite
    <2>5. \A i \in Invoices, n \in Nat: Received(c, i, n) => Finish(c)
      BY DEF Received
    <2> QED
      BY <1>1, <1>5, <2>1, <2>2, <2>3, <2>4, <2>5, PaymentEffects
  <1> QED
    BY <1>4, <1>5

\* When a client takes a step, another one relies on nothing it read, or the first is a
\* teller and the second does not synchronise a status.
LEMMA Writers ==
  ASSUME InFlightAllowed, OneClient \/ OneClerk, NEW c \in Clients, NEW d \in Clients, c # d
  PROVE  \/ req[d].at \notin {"updateInvoice", "issue", "cancel", "deleteInvoice",
                              "syncRead", "syncWrite"}
         \/ Calls[c] \subseteq TellerCalls /\ req[d].at \notin {"syncRead", "syncWrite"}
  <1>1. PICK clerk \in Clients:
          /\ \A e \in Clients \ {clerk}: Calls[e] \subseteq TellerCalls
          /\ Calls[clerk] \cap {"reconcile", "deletePayment"} = {}
    BY DEF OneClient, OneClerk
  <1>2. CASE d = clerk
    BY <1>1, <1>2 DEF InFlightAllowed
  <1>3. CASE d # clerk
    BY <1>1, <1>3 DEF InFlightAllowed, TellerCalls, Endpoints
  <1> QED
    BY <1>2, <1>3

\* A teller only brings money in.
LEMMA TellerEffects ==
  ASSUME TypeOK, PaymentsStarted, InFlightAllowed, NEW c \in Clients,
         InvoiceStep(c) \/ PaymentStep(c), Calls[c] \subseteq TellerCalls
  PROVE  UNCHANGED invoice \/ \E i \in Invoices, n \in Nat: Received(c, i, n)
  <1>0. /\ req[c].at \in Endpoints => req[c].at \in TellerCalls
        /\ req[c].at \notin {"syncRead", "syncWrite"}
    BY DEF InFlightAllowed, TellerCalls
  <1>1. ~InvoiceStep(c)
    <2>1. ~InvoiceBegins(c)
      BY InvoiceBegun DEF TellerCalls
    <2>2. \A i \in Invoices, lines \in Subtotals: ~CreateInvoice(c, i, lines)
      BY DEF CreateInvoice, TellerCalls
    <2>3. ~CommitUpdateInvoice(c) /\ ~CommitIssue(c) /\ ~CommitCancel(c) /\ ~CommitDeleteInvoice(c)
      BY <1>0 DEF CommitUpdateInvoice, CommitIssue, CommitCancel, CommitDeleteInvoice, TellerCalls,
                  Endpoints
    <2> QED
      BY <2>1, <2>2, <2>3, InvoiceEffects
  <1>2. ~SyncRead(c) /\ ~SyncWrite(c)
    BY <1>0 DEF SyncRead, SyncWrite
  <1>3. \A i \in Invoices, n \in Nat: ~ReceivedFirst(c, i, n)
    BY <1>0 DEF ReceivedFirst, TellerCalls, Endpoints
  <1> QED
    BY <1>1, <1>2, <1>3, PaymentEffects

\* Money that comes in leaves the row as it was, but for what was paid and a status that
\* follows it unless the invoice is cancelled.
LEMMA SyncedRow ==
  ASSUME NEW row \in InvoiceRow, row.status \notin {"none", "draft"}, NEW n \in 0..row.total,
         NEW new, new = Synced([row EXCEPT !.paid = n])
  PROVE  /\ new.paid = n
         /\ new.total = row.total
         /\ new.lines = row.lines
         /\ new.deleted = row.deleted
         /\ row.status = "cancelled" => new.status = "cancelled"
         /\ row.status # "cancelled" => /\ new.status \in Issued
                                        /\ new.status = StatusFor(n, row.total)
  BY DEF Synced, StatusFor, InvoiceRow, Issued
-----------------------------------------------------------------------------
(* The invariant of the ledger *)

\* The status of one row follows its payments, unless a request is to see to it.
Follows(i) ==
  (/\ invoice[i].status \in Issued
   /\ \A c \in Clients: req[c].at \in {"syncRead", "syncWrite"} => req[c].inv # i)
    => invoice[i].status = StatusFor(invoice[i].paid, invoice[i].total)

Syncs(c, i) == req[c].at \in {"syncRead", "syncWrite"} /\ req[c].inv = i

LEMMA RowStaysFollowed ==
  ASSUME StatusFollowsPayments, NEW c \in Clients, NEW i \in Invoices,
         \A d \in Clients \ {c}: req'[d] = req[d],
         invoice'[i] = invoice[i],
         Syncs(c, i) => Syncs(c, i)'
  PROVE  Follows(i)'
  BY DEF StatusFollowsPayments, Follows, Syncs

\* What a client relies on survives the steps of the others.
LEMMA OthersHold ==
  ASSUME TypeOK, PaymentsStarted, InFlightAllowed, OneClient \/ OneClerk,
         NEW c \in Clients, InvoiceStep(c) \/ PaymentStep(c),
         NEW d \in Clients \ {c}, ReadsHold(d)
  PROVE  ReadsHold(d)'
  <1> DEFINE j == req[d].inv
  <1>0. req'[d] = req[d] /\ req[d] \in Request
    BY OthersStay DEF TypeOK
  <1>1. CASE req[d].at \notin {"updateInvoice", "issue", "cancel", "deleteInvoice",
                               "syncRead", "syncWrite"}
    BY <1>0, <1>1 DEF ReadsHold
  <1>2. CASE UNCHANGED invoice
    BY <1>0, <1>2 DEF ReadsHold, Row
  <1>3. ASSUME Calls[c] \subseteq TellerCalls, req[d].at \notin {"syncRead", "syncWrite"},
               req[d].at \in {"updateInvoice", "issue", "cancel", "deleteInvoice"}
        PROVE  ReadsHold(d)'
    <2>1. j \in Invoices
      BY <1>0, <1>3, RequestShapes
    <2>2. ASSUME NEW i \in Invoices, NEW n \in Nat, Received(c, i, n)
          PROVE  ReadsHold(d)'
      <3>1. CASE i # j
        <4>1. invoice'[j] = invoice[j]
          BY <2>1, <2>2, <3>1 DEF Received, TypeOK
        <4> QED
          BY <1>0, <4>1 DEF ReadsHold, Row
      <3>2. CASE i = j
        <4>1. invoice'[j] = Synced([invoice[j] EXCEPT !.paid = n]) /\ invoice[j] \in InvoiceRow
          BY <2>1, <2>2, <3>2 DEF Received, TypeOK
        <4>2. invoice[j].status \notin {"none", "draft"} /\ n \in 0..invoice[j].total
          BY <2>2, <3>2 DEF Received, Started
        <4>3. /\ invoice'[j].deleted = invoice[j].deleted
              /\ invoice[j].status = "cancelled" => invoice'[j].status = "cancelled"
              /\ invoice[j].status # "cancelled" => invoice'[j].status \in Issued
          BY <4>1, <4>2, SyncedRow
        <4> QED
          BY <1>0, <1>3, <4>2, <4>3 DEF ReadsHold, Row, Issued
      <3> QED
        BY <3>1, <3>2
    <2> QED
      BY <1>2, <1>3, <2>2, TellerEffects
  <1> QED
    BY <1>1, <1>3, Writers

\* What a request that starts keeps is what it sees.
LEMMA InvoiceBeginsHold ==
  ASSUME TypeOK, NEW c \in Clients, InvoiceBegins(c)
  PROVE  ReadsHold(c)'
  <1>1. ASSUME NEW i \in Invoices, NEW lines \in Subtotals \cup {Keep},
               BeginUpdateInvoice(c, i, lines)
        PROVE  ReadsHold(c)'
    <2>1. /\ req'[c] = [at |-> "updateInvoice", inv |-> i, lines |-> lines,
                        total |-> Patched(lines, invoice[i].lines)]
          /\ UNCHANGED invoice
          /\ invoice[i].status = "draft"
      BY <1>1 DEF BeginUpdateInvoice, Start, TypeOK
    <2> QED
      BY <2>1 DEF ReadsHold, Row
  <1>2. ASSUME NEW i \in Invoices, BeginIssue(c, i) PROVE ReadsHold(c)'
    <2>1. req'[c] = [at |-> "issue", inv |-> i] /\ UNCHANGED invoice
      BY <1>2 DEF BeginIssue, Start, TypeOK
    <2> QED
      BY <1>2, <2>1 DEF ReadsHold, Row, BeginIssue, Visible
  <1>3. ASSUME NEW i \in Invoices, BeginCancel(c, i) PROVE ReadsHold(c)'
    <2>1. req'[c] = [at |-> "cancel", inv |-> i] /\ UNCHANGED invoice
      BY <1>3 DEF BeginCancel, Start, TypeOK
    <2> QED
      BY <1>3, <2>1 DEF ReadsHold, Row, BeginCancel, Visible
  <1>4. ASSUME NEW i \in Invoices, BeginDeleteInvoice(c, i) PROVE ReadsHold(c)'
    <2>1. req'[c] = [at |-> "deleteInvoice", inv |-> i] /\ UNCHANGED invoice
      BY <1>4 DEF BeginDeleteInvoice, Start, TypeOK
    <2> QED
      BY <1>4, <2>1 DEF ReadsHold, Row, BeginDeleteInvoice
  <1> QED
    BY <1>1, <1>2, <1>3, <1>4 DEF InvoiceBegins

LEMMA IdleHolds ==
  ASSUME TypeOK, NEW c \in Clients, Finish(c)
  PROVE  req'[c] = Idle /\ ReadsHold(c)'
  BY DEF Finish, TypeOK, ReadsHold, Idle

\* One step on one row: it has to stay sound and followed, the other rows are as they were.
LEMMA OneRowChanges ==
  ASSUME TypeOK, StatusFollowsPayments, \A k \in Invoices: Sound(invoice[k]),
         NEW c \in Clients, \A d \in Clients \ {c}: req'[d] = req[d],
         NEW i \in Invoices, NEW row, invoice' = [invoice EXCEPT ![i] = row],
         Sound(row), Follows(i)',
         \A k \in Invoices \ {i}: Syncs(c, k) => Syncs(c, k)'
  PROVE  (\A k \in Invoices: Sound(invoice[k]))' /\ (\A k \in Invoices: Follows(k))'
  <1>1. invoice'[i] = row /\ \A k \in Invoices \ {i}: invoice'[k] = invoice[k]
    BY DEF TypeOK
  <1>2. \A k \in Invoices \ {i}: Follows(k)'
    BY <1>1, RowStaysFollowed
  <1> QED
    BY <1>1, <1>2

\* Every step of InvoiceService keeps the rows sound and their status right.
LEMMA InvoiceStepKeepsRows ==
  ASSUME TypeOK, PaymentsStarted, LedgerInv, NEW c \in Clients, InvoiceStep(c)
  PROVE  /\ (\A i \in Invoices: Sound(invoice[i]))'
         /\ (\A i \in Invoices: Follows(i))'
         /\ ReadsHold(c)'
  <1> USE DEF LedgerInv
  <1>0. \A d \in Clients \ {c}: req'[d] = req[d]
    BY OthersStay
  <1>1. ASSUME NEW i \in Invoices, NEW lines \in Subtotals, CreateInvoice(c, i, lines)
        PROVE  /\ (\A k \in Invoices: Sound(invoice[k]))'
               /\ (\A k \in Invoices: Follows(k))'
               /\ ReadsHold(c)'
    <2> DEFINE row == [NoInvoiceRow EXCEPT !.status = "draft", !.lines = lines, !.total = lines]
    <2>1. /\ req[c] = Idle /\ UNCHANGED req
          /\ invoice' = [invoice EXCEPT ![i] = row]
      BY <1>1 DEF CreateInvoice
    <2>2. /\ Sound(row)
          /\ row.status = "draft"
      BY ConstantsAssumption DEF Sound, NoInvoiceRow
    <2> HIDE DEF row
    <2>3. Follows(i)'
      BY <2>1, <2>2 DEF Follows, TypeOK, Issued
    <2>4. \A k \in Invoices: ~Syncs(c, k)
      BY <2>1 DEF Syncs, Idle
    <2>5. ReadsHold(c)'
      BY <2>1 DEF ReadsHold, Idle
    <2> QED
      BY <1>0, <2>1, <2>2, <2>3, <2>4, <2>5, OneRowChanges
  <1>2. CASE InvoiceBegins(c)
    <2>1. UNCHANGED invoice /\ req[c] = Idle
      BY <1>2, InvoiceBegun
    <2>2. \A k \in Invoices: ~Syncs(c, k)
      BY <2>1 DEF Syncs, Idle
    <2> QED
      BY <1>0, <1>2, <2>1, <2>2, InvoiceBeginsHold, RowStaysFollowed
  <1>3. CASE CommitUpdateInvoice(c)
    <2> DEFINE r == req[c]
    <2>0. PICK i \in Invoices: i = r.inv
      BY <1>3, RequestShapes DEF CommitUpdateInvoice, TypeOK
    <2> DEFINE row == [invoice[i] EXCEPT !.total = r.total, !.lines = Patched(r.lines, @)]
    <2>1. r.inv = i /\ r.at = "updateInvoice" /\ r.total \in Nat
      BY <1>3, <2>0, RequestShapes DEF CommitUpdateInvoice, TypeOK
    <2>2. invoice[i].status = "draft" /\ r.total = Patched(r.lines, invoice[i].lines)
      BY <2>1 DEF ReadsHold, Row
    <2>3. Finish(c) /\ \A k \in Invoices: ~Syncs(c, k)
      BY <1>3, <2>1 DEF CommitUpdateInvoice, Abort, Syncs
    <2>4. CASE PaidFits(invoice[i].paid, r.total)
      <3>1. invoice' = [invoice EXCEPT ![i] = row]
        BY <1>3, <2>1, <2>4 DEF CommitUpdateInvoice, TypeOK, InvoiceRow
      <3>2. invoice[i] \in InvoiceRow /\ Sound(invoice[i])
        BY <2>1 DEF TypeOK
      <3>3. /\ row.status = "draft" /\ row.paid = 0 /\ row.total = r.total
            /\ row.lines = Patched(r.lines, invoice[i].lines)
        BY <2>2, <3>2 DEF InvoiceRow, Sound
      <3>4. Sound(row)
        BY <2>1, <2>2, <3>3 DEF Sound
      <3> HIDE DEF row
      <3>5. Follows(i)'
        BY <2>1, <3>1, <3>3 DEF Follows, TypeOK, Issued
      <3> QED
        BY <1>0, <2>1, <2>3, <3>1, <3>4, <3>5, OneRowChanges, IdleHolds
    <2>5. CASE ~PaidFits(invoice[i].paid, r.total)
      <3>1. UNCHANGED invoice
        BY <1>3, <2>1, <2>5 DEF CommitUpdateInvoice, Abort
      <3> QED
        BY <1>0, <2>3, <3>1, RowStaysFollowed, IdleHolds
    <2> QED
      BY <2>4, <2>5
  <1>4. CASE CommitIssue(c) \/ CommitCancel(c) \/ CommitDeleteInvoice(c)
    <2>0. PICK i \in Invoices: i = req[c].inv
      BY <1>4, RequestShapes DEF CommitIssue, CommitCancel, CommitDeleteInvoice, TypeOK
    <2>1. req[c].inv = i /\ Finish(c) /\ \A k \in Invoices: ~Syncs(c, k)
      BY <1>4, <2>0 DEF CommitIssue, CommitCancel, CommitDeleteInvoice, Syncs
    <2>2. invoice[i] \in InvoiceRow /\ Sound(invoice[i])
      BY <2>1 DEF TypeOK
    <2>3. ASSUME NEW row, invoice' = [invoice EXCEPT ![i] = row], Sound(row),
                 row.status \in Issued => row.status = StatusFor(row.paid, row.total)
          PROVE  /\ (\A k \in Invoices: Sound(invoice[k]))'
                 /\ (\A k \in Invoices: Follows(k))'
                 /\ ReadsHold(c)'
      <3>1. Follows(i)'
        BY <2>1, <2>3 DEF Follows, TypeOK
      <3> QED
        BY <1>0, <2>1, <2>3, <3>1, OneRowChanges, IdleHolds
    <2>4. CASE CommitIssue(c)
      <3> DEFINE row == [invoice[i] EXCEPT !.status = "sent"]
      <3>1. invoice[i].status = "draft" /\ ~invoice[i].deleted
        BY <2>1, <2>4 DEF CommitIssue, ReadsHold, Row
      <3>2. /\ row.status = "sent" /\ row.paid = 0 /\ row.total = invoice[i].total
            /\ row.lines = invoice[i].lines /\ invoice[i].total \in Nat
        BY <2>2, <3>1 DEF InvoiceRow, Sound
      <3>3. Sound(row) /\ row.status = StatusFor(row.paid, row.total)
        BY <2>2, <3>2 DEF Sound, StatusFor
      <3>4. invoice' = [invoice EXCEPT ![i] = row]
        BY <2>1, <2>4 DEF CommitIssue
      <3> HIDE DEF row
      <3> QED
        BY <2>3, <3>3, <3>4
    <2>5. CASE CommitCancel(c)
      <3> DEFINE row == [invoice[i] EXCEPT !.status = "cancelled"]
      <3>1. Sound(row) /\ row.status \notin Issued
        BY <2>2 DEF InvoiceRow, Sound, Issued
      <3>2. invoice' = [invoice EXCEPT ![i] = row]
        BY <2>1, <2>5 DEF CommitCancel
      <3> HIDE DEF row
      <3> QED
        BY <2>3, <3>1, <3>2
    <2>6. CASE CommitDeleteInvoice(c)
      <3> DEFINE row == [invoice[i] EXCEPT !.deleted = TRUE]
      <3>1. invoice[i].status \in {"draft", "cancelled"}
        BY <2>1, <2>6 DEF CommitDeleteInvoice, ReadsHold, Row
      <3>2. Sound(row) /\ row.status \notin Issued
        BY <2>2, <3>1 DEF InvoiceRow, Sound, Issued
      <3>3. invoice' = [invoice EXCEPT ![i] = row]
        BY <2>1, <2>6 DEF CommitDeleteInvoice
      <3> HIDE DEF row
      <3> QED
        BY <2>3, <3>2, <3>3
    <2> QED
      BY <1>4, <2>4, <2>5, <2>6
  <1> QED
    BY <1>1, <1>2, <1>3, <1>4, InvoiceEffects

\* So does every step of PaymentService.
LEMMA PaymentStepKeepsRows ==
  ASSUME TypeOK, PaymentsStarted, LedgerInv, NEW c \in Clients, PaymentStep(c)
  PROVE  /\ (\A i \in Invoices: Sound(invoice[i]))'
         /\ (\A i \in Invoices: Follows(i))'
         /\ ReadsHold(c)'
  <1> DEFINE Goal == /\ (\A i \in Invoices: Sound(invoice[i]))'
                     /\ (\A i \in Invoices: Follows(i))'
                     /\ ReadsHold(c)'
  <1> USE DEF LedgerInv
  <1>0. \A d \in Clients \ {c}: req'[d] = req[d]
    BY OthersStay
  <1>1. ASSUME UNCHANGED invoice, req[c].at \notin {"syncRead", "syncWrite"},
               req'[c].at \in {"idle", "pay", "updatePayment", "reconcile", "deletePayment"}
        PROVE  Goal
    <2>1. \A k \in Invoices: ~Syncs(c, k)
      BY <1>1 DEF Syncs
    <2>2. ReadsHold(c)'
      BY <1>1 DEF ReadsHold
    <2> QED
      BY <1>0, <1>1, <2>1, <2>2, RowStaysFollowed
  <1>2. ASSUME NEW i \in Invoices, NEW n \in Nat, Received(c, i, n), req[c].at \in TellerCalls
        PROVE  Goal
    <2> DEFINE row == Synced([invoice[i] EXCEPT !.paid = n])
    <2>1. /\ invoice[i] \in InvoiceRow /\ Sound(invoice[i])
          /\ invoice[i].status \notin {"none", "draft"} /\ n \in 0..invoice[i].total
          /\ invoice[i].total \in Nat
      BY <1>2 DEF Received, Started, TypeOK, InvoiceRow
    <2>2. /\ row.paid = n /\ row.total = invoice[i].total /\ row.lines = invoice[i].lines
          /\ row.deleted = invoice[i].deleted
          /\ row.status \in Issued => row.status = StatusFor(n, invoice[i].total)
          /\ row.status \notin {"none", "draft"}
      BY <2>1, SyncedRow DEF Issued
    <2>3. Sound(row)
      BY <2>1, <2>2 DEF Sound
    <2>4. invoice' = [invoice EXCEPT ![i] = row] /\ Finish(c)
      BY <1>2 DEF Received
    <2> HIDE DEF row
    <2>5. Follows(i)'
      BY <2>2, <2>4 DEF Follows, TypeOK
    <2>6. \A k \in Invoices: ~Syncs(c, k)
      BY <1>2 DEF Syncs, TellerCalls
    <2> QED
      BY <1>0, <2>3, <2>4, <2>5, <2>6, OneRowChanges, IdleHolds
  <1>3. ASSUME NEW i \in Invoices, NEW n \in Nat, ReceivedFirst(c, i, n)
        PROVE  Goal
    <2> DEFINE row == [invoice[i] EXCEPT !.paid = n]
    <2>1. /\ invoice[i] \in InvoiceRow /\ Sound(invoice[i])
          /\ invoice[i].status \notin {"none", "draft"} /\ n \in 0..invoice[i].total
          /\ invoice[i].total \in Nat
      BY <1>3 DEF ReceivedFirst, Started, TypeOK, InvoiceRow
    <2>2. Sound(row)
      BY <2>1 DEF Sound, InvoiceRow
    <2>3. invoice' = [invoice EXCEPT ![i] = row] /\ req'[c] = [at |-> "syncRead", inv |-> i]
      BY <1>3 DEF ReceivedFirst, TypeOK
    <2> HIDE DEF row
    <2>4. Follows(i)'
      BY <2>3 DEF Follows
    <2>5. \A k \in Invoices: ~Syncs(c, k)
      BY <1>3 DEF Syncs, ReceivedFirst
    <2>6. ReadsHold(c)'
      <3>1. invoice'[i].status = invoice[i].status
        BY <2>1, <2>3 DEF row, TypeOK, InvoiceRow
      <3> QED
        BY <2>1, <2>3, <3>1 DEF ReadsHold, Row
    <2> QED
      BY <1>0, <2>2, <2>3, <2>4, <2>5, <2>6, OneRowChanges
  <1>4. CASE SyncRead(c)
    <2>0. PICK i \in Invoices: i = req[c].inv
      BY <1>4, RequestShapes DEF SyncRead, TypeOK
    <2> DEFINE next == StatusFor(invoice[i].paid, invoice[i].total)
    <2>1. req[c].inv = i /\ req[c].at = "syncRead" /\ UNCHANGED invoice
      BY <1>4, <2>0 DEF SyncRead
    <2>2. invoice[i] \in InvoiceRow
      BY <2>1 DEF TypeOK
    <2>3. CASE Synced(invoice[i]) = invoice[i]
      <3>1. Finish(c)
        BY <1>4, <2>1, <2>3 DEF SyncRead
      <3>2. invoice[i].status \in Issued => invoice[i].status = next
        BY <2>2, <2>3 DEF Synced, Issued, InvoiceRow
      <3>3. Follows(i)'
        BY <2>1, <3>2 DEF Follows
      <3>4. \A k \in Invoices \ {i}: ~Syncs(c, k)
        BY <2>1 DEF Syncs
      <3>5. \A k \in Invoices: Follows(k)'
        BY <1>0, <2>1, <3>3, <3>4, RowStaysFollowed
      <3> QED
        BY <2>1, <3>1, <3>5, IdleHolds
    <2>4. CASE Synced(invoice[i]) # invoice[i]
      <3>1. req'[c] = [at |-> "syncWrite", inv |-> i, status |-> next]
        BY <1>4, <2>1, <2>4 DEF SyncRead, TypeOK
      <3>2. invoice[i].status \notin {"draft", "cancelled"}
        BY <2>4 DEF Synced
      <3>3. invoice[i].status \in Issued
        <4>1. invoice[i].status \notin {"none", "draft"}
          BY <2>1 DEF ReadsHold, Row
        <4> QED
          BY <2>2, <3>2, <4>1 DEF InvoiceRow, InvoiceStatuses, Issued
      <3>4. ReadsHold(c)'
        BY <2>1, <3>1, <3>3 DEF ReadsHold, Row
      <3>5. \A k \in Invoices: Syncs(c, k) => Syncs(c, k)'
        BY <2>1, <3>1 DEF Syncs
      <3> QED
        BY <1>0, <2>1, <3>4, <3>5, RowStaysFollowed
    <2> QED
      BY <2>3, <2>4
  <1>5. CASE SyncWrite(c)
    <2>0. PICK i \in Invoices: i = req[c].inv
      BY <1>5, RequestShapes DEF SyncWrite, TypeOK
    <2> DEFINE row == [invoice[i] EXCEPT !.status = req[c].status]
    <2>1. req[c].inv = i /\ req[c].at = "syncWrite" /\ Finish(c)
      BY <1>5, <2>0 DEF SyncWrite
    <2>2. /\ invoice[i] \in InvoiceRow /\ Sound(invoice[i])
          /\ invoice[i].status \in Issued
          /\ req[c].status = StatusFor(invoice[i].paid, invoice[i].total)
      BY <2>1 DEF TypeOK, ReadsHold, Row
    <2>3. /\ row.status = StatusFor(invoice[i].paid, invoice[i].total)
          /\ row.paid = invoice[i].paid /\ row.total = invoice[i].total
          /\ row.lines = invoice[i].lines /\ row.deleted = invoice[i].deleted
      BY <2>2 DEF InvoiceRow
    <2>4. row.status \notin {"none", "draft"}
      BY <2>3 DEF StatusFor
    <2>5. Sound(row)
      BY <2>2, <2>3, <2>4 DEF Sound
    <2>6. invoice' = [invoice EXCEPT ![i] = row]
      BY <1>5, <2>1 DEF SyncWrite
    <2> HIDE DEF row
    <2>7. Follows(i)'
      BY <2>1, <2>3, <2>6 DEF Follows, TypeOK
    <2>8. \A k \in Invoices \ {i}: ~Syncs(c, k)
      BY <2>1 DEF Syncs
    <2> QED
      BY <1>0, <2>1, <2>5, <2>6, <2>7, <2>8, OneRowChanges, IdleHolds
  <1>6. ASSUME Finish(c), UNCHANGED invoice, req[c].at \notin {"syncRead", "syncWrite"}
        PROVE  Goal
    <2>1. req'[c].at = "idle"
      BY <1>6 DEF Finish, TypeOK, Idle
    <2> QED
      BY <1>1, <1>6, <2>1
  <1>7. CASE UNCHANGED invoice /\ req[c] = Idle
             /\ req'[c].at \in {"pay", "updatePayment", "reconcile", "deletePayment"} \cap Calls[c]
    BY <1>1, <1>7 DEF Idle
  <1> QED
    BY <1>2, <1>3, <1>4, <1>5, <1>6, <1>7, PaymentEffects

LEMMA InitLedger == Init => LedgerInv /\ InFlightAllowed
  BY DEF Init, LedgerInv, InFlightAllowed, Sound, StatusFollowsPayments, ReadsHold, NoInvoiceRow,
         Idle, Issued, Endpoints

LEMMA NextLedger ==
  ASSUME OneClient \/ OneClerk, TypeOK, PaymentsStarted, InFlightAllowed, LedgerInv, [Next]_vars
  PROVE  LedgerInv' /\ InFlightAllowed'
  <1>1. ASSUME NEW c \in Clients, InvoiceStep(c) \/ PaymentStep(c)
        PROVE  LedgerInv' /\ InFlightAllowed'
    <2>1. /\ (\A i \in Invoices: Sound(invoice[i]))'
          /\ (\A i \in Invoices: Follows(i))'
          /\ ReadsHold(c)'
      BY <1>1, InvoiceStepKeepsRows, PaymentStepKeepsRows
    <2>2. \A d \in Clients \ {c}: ReadsHold(d)'
      BY <1>1, OthersHold DEF LedgerInv
    <2>3. StatusFollowsPayments'
      BY <2>1 DEF StatusFollowsPayments, Follows
    <2>4. InFlightAllowed'
      BY <1>1, KeepsAllowed
    <2> QED
      BY <2>1, <2>2, <2>3, <2>4 DEF LedgerInv
  <1>2. CASE UNCHANGED vars
    BY <1>2 DEF vars, LedgerInv, InFlightAllowed, Sound, StatusFollowsPayments, ReadsHold, Row
  <1> QED
    BY <1>1, <1>2 DEF Next

\* Every state reached under one of the two rules.
LedgerHolds == TypeOK /\ PaymentsStarted /\ InFlightAllowed /\ LedgerInv

LEMMA LedgerInvariant ==
  ASSUME OneClient \/ OneClerk
  PROVE  Spec => []LedgerHolds
  <1>1. Init => LedgerHolds
    BY InitTyped, InitPaymentsStarted, InitLedger DEF LedgerHolds
  <1>2. LedgerHolds /\ [Next]_vars => LedgerHolds'
    BY NextTyped, NextPaymentsStarted, NextLedger DEF LedgerHolds
  <1> QED
    BY <1>1, <1>2, PTL DEF Spec

\* With requests one after the other, or with one clerk and any number of tellers, an
\* issued invoice has the status its payments call for, except while syncInvoiceStatus
\* is still to run: no payment taken meanwhile is missed.
THEOREM StatusesFollowPayments ==
  ASSUME OneClient \/ OneClerk
  PROVE  Spec => []StatusFollowsPayments
  <1>1. LedgerHolds => StatusFollowsPayments
    BY DEF LedgerHolds, LedgerInv
  <1> QED
    BY <1>1, LedgerInvariant, PTL

\* Under the same rules the total of an invoice is that of its stored lines: update
\* recomputes it from lines nobody else replaced since it read them.
THEOREM TotalsMatchLines ==
  ASSUME OneClient \/ OneClerk
  PROVE  Spec => []TotalMatchesLines
  <1>1. LedgerHolds => TotalMatchesLines
    BY DEF LedgerHolds, LedgerInv, Sound, TotalMatchesLines
  <1> QED
    BY <1>1, LedgerInvariant, PTL

\* Under the same rules no request that read an invoice before it was cancelled brings it
\* back: neither an issue, nor a payment, nor a status synchronised late.
THEOREM CancellationIsFinal ==
  ASSUME OneClient \/ OneClerk
  PROVE  Spec => CancelledIsFinal
  <1> DEFINE Final == \A i \in Invoices: invoice[i].status = "cancelled" =>
                        invoice'[i].status = "cancelled"
  <1>1. ASSUME LedgerHolds, NEW c \in Clients, InvoiceStep(c) \/ PaymentStep(c),
               NEW i \in Invoices, invoice[i].status = "cancelled"
        PROVE  invoice'[i].status = "cancelled"
    <2> USE <1>1 DEF LedgerHolds, LedgerInv
    <2>0. invoice[i] \in InvoiceRow /\ req[c] \in Request
      BY DEF TypeOK
    <2>1. CASE UNCHANGED invoice
      BY <2>1
    <2>2. ASSUME NEW j \in Invoices, NEW lines \in Subtotals, CreateInvoice(c, j, lines)
          PROVE  invoice'[i] = invoice[i]
      BY <2>2 DEF CreateInvoice, TypeOK
    <2>3. CASE CommitUpdateInvoice(c)
      BY <2>0, <2>3, RequestShapes DEF CommitUpdateInvoice, Abort, ReadsHold, Row, TypeOK
    <2>4. CASE CommitIssue(c)
      BY <2>0, <2>4, RequestShapes DEF CommitIssue, ReadsHold, Row, TypeOK
    <2>5. CASE CommitCancel(c) \/ CommitDeleteInvoice(c)
      <3>1. req[c].inv \in Invoices
        BY <2>0, <2>5, RequestShapes DEF CommitCancel, CommitDeleteInvoice
      <3> QED
        BY <2>0, <2>5, <3>1 DEF CommitCancel, CommitDeleteInvoice, TypeOK, InvoiceRow
    <2>6. CASE SyncWrite(c)
      BY <2>0, <2>6, RequestShapes DEF SyncWrite, ReadsHold, Row, Issued, TypeOK
    <2>7. ASSUME NEW j \in Invoices, NEW n \in Nat, Received(c, j, n)
          PROVE  invoice'[i].status = "cancelled"
      <3>1. CASE i = j
        <4>1. invoice'[i] = Synced([invoice[i] EXCEPT !.paid = n]) /\ n \in 0..invoice[i].total
          BY <2>7, <3>1 DEF Received, TypeOK
        <4> QED
          BY <2>0, <4>1, SyncedRow
      <3>2. CASE i # j
        BY <2>7, <3>2 DEF Received, TypeOK
      <3> QED
        BY <3>1, <3>2
    <2>8. ASSUME NEW j \in Invoices, NEW n \in Nat, ReceivedFirst(c, j, n)
          PROVE  invoice'[i].status = "cancelled"
      BY <2>0, <2>8 DEF ReceivedFirst, TypeOK, InvoiceRow
    <2>9. CASE InvoiceStep(c)
      BY <2>1, <2>2, <2>3, <2>4, <2>5, <2>9, InvoiceEffects, InvoiceBegun
    <2>10. CASE PaymentStep(c)
      <3>1. SyncRead(c) => UNCHANGED invoice
        BY DEF SyncRead
      <3> QED
        BY <2>1, <2>6, <2>7, <2>8, <2>10, <3>1, PaymentEffects
    <2> QED
      BY <2>9, <2>10
  <1>2. LedgerHolds /\ [Next]_vars => [Final]_vars
    BY <1>1 DEF Next
  <1> HIDE DEF Final
  <1>3. Spec => [][Final]_vars
    BY <1>2, LedgerInvariant, PTL DEF Spec
  <1> QED
    BY <1>3 DEF Final, CancelledIsFinal
-----------------------------------------------------------------------------
(* Requests served one after the other *)

\* What the client's cancellation saw is still so when it is written.
SerialInv == \A c \in Clients: req[c].at = "cancel" => Row(c).status # "paid"

LEMMA InitSerial == Init => SerialInv
  BY DEF Init, SerialInv, Idle

\* A handler that keeps what it read has just checked it.
LEMMA BegunAsRead ==
  ASSUME TypeOK, NEW c \in Clients, InvoiceBegins(c)
  PROVE  req'[c].at = "cancel" => invoice[req'[c].inv].status # "paid"
  <1>1. ASSUME NEW i \in Invoices, BeginCancel(c, i)
        PROVE  req'[c].at = "cancel" => invoice[req'[c].inv].status # "paid"
    BY <1>1 DEF BeginCancel, Start, TypeOK
  <1>2. ASSUME NEW i \in Invoices, NEW lines \in Subtotals \cup {Keep},
               BeginUpdateInvoice(c, i, lines)
        PROVE  req'[c].at # "cancel"
    BY <1>2 DEF BeginUpdateInvoice, Start, TypeOK
  <1>3. ASSUME NEW i \in Invoices, BeginIssue(c, i) \/ BeginDeleteInvoice(c, i)
        PROVE  req'[c].at # "cancel"
    BY <1>3 DEF BeginIssue, BeginDeleteInvoice, Start, TypeOK
  <1> QED
    BY <1>1, <1>2, <1>3 DEF InvoiceBegins

LEMMA NextSerial ==
  ASSUME OneClient, TypeOK, PaymentsStarted, SerialInv, [Next]_vars
  PROVE  SerialInv'
  <1>1. ASSUME NEW c \in Clients, InvoiceStep(c) \/ PaymentStep(c)
        PROVE  SerialInv'
    <2> SUFFICES req'[c].at = "cancel" => Row(c)'.status # "paid"
      BY DEF OneClient, SerialInv
    <2>1. CASE Finish(c)
      BY <2>1 DEF Finish, TypeOK, Idle
    <2>2. CASE InvoiceStep(c)
      <3>1. ASSUME NEW i \in Invoices, NEW lines \in Subtotals, CreateInvoice(c, i, lines)
            PROVE  req'[c].at # "cancel"
        BY <3>1 DEF CreateInvoice, Idle
      <3>2. CASE InvoiceBegins(c)
        BY <3>2, InvoiceBegun, BegunAsRead DEF Row
      <3>3. CommitUpdateInvoice(c) \/ CommitIssue(c) \/ CommitCancel(c) \/ CommitDeleteInvoice(c)
              => Finish(c)
        BY DEF CommitUpdateInvoice, CommitIssue, CommitCancel, CommitDeleteInvoice, Abort
      <3> QED
        BY <2>1, <2>2, <3>1, <3>2, <3>3, InvoiceEffects
    <2>3. CASE PaymentStep(c)
      <3>1. SyncRead(c) \/ SyncWrite(c) => req'[c].at # "cancel"
        BY DEF SyncRead, SyncWrite, Finish, TypeOK, Idle
      <3>2. \A i \in Invoices, n \in Nat: Received(c, i, n) \/ ReceivedFirst(c, i, n)
              => req'[c].at # "cancel"
        BY DEF Received, ReceivedFirst, Finish, TypeOK, Idle
      <3> QED
        BY <2>1, <2>3, <3>1, <3>2, PaymentEffects
    <2> QED
      BY <1>1, <2>2, <2>3
  <1>2. CASE UNCHANGED vars
    BY <1>2 DEF vars, SerialInv, Row
  <1> QED
    BY <1>1, <1>2 DEF Next

LEMMA SerialLedger ==
  ASSUME OneClient
  PROVE  Spec => [](LedgerHolds /\ SerialInv)
  <1>1. LedgerHolds /\ SerialInv /\ [Next]_vars => SerialInv'
    BY NextSerial DEF LedgerHolds
  <1> QED
    BY <1>1, InitSerial, LedgerInvariant, PTL DEF Spec

-----------------------------------------------------------------------------
(* The promised life of an invoice *)

\* What InvoiceLifecycle sees of the ledger.
Stages == [i \in Invoices |-> StageOf(invoice[i].status)]
Totals == [i \in Invoices |-> invoice[i].total]
Paids == [i \in Invoices |-> invoice[i].paid]
Deletions == [i \in Invoices |-> invoice[i].deleted]

LEMMA LifecycleInit == Init => Lifecycle!Init
  BY DEF Init, Lifecycle!Init, NoInvoiceRow, StageOf, Issued

LEMMA SeenAt ==
  ASSUME NEW i \in Invoices
  PROVE  /\ Stages[i] = StageOf(invoice[i].status)
         /\ Totals[i] = invoice[i].total
         /\ Paids[i] = invoice[i].paid
         /\ Deletions[i] = invoice[i].deleted
  BY DEF Stages, Totals, Paids, Deletions

LEMMA ChangesAtOne ==
  ASSUME NEW S, NEW f, NEW g, NEW i \in S, f = [x \in S |-> f[x]], g = [x \in S |-> g[x]],
         \A x \in S \ {i}: g[x] = f[x]
  PROVE  g = [f EXCEPT ![i] = g[i]]
  OBVIOUS

\* One row changes, and so does what is seen of it.
LEMMA RowSeen ==
  ASSUME NEW i \in Invoices, NEW row, TypeOK, invoice' = [invoice EXCEPT ![i] = row]
  PROVE  /\ Stages' = [Stages EXCEPT ![i] = StageOf(row.status)]
         /\ Totals' = [Totals EXCEPT ![i] = Totals'[i]]
         /\ Paids' = [Paids EXCEPT ![i] = Paids'[i]]
         /\ Deletions' = [Deletions EXCEPT ![i] = row.deleted]
         /\ Totals'[i] = row.total /\ Paids'[i] = row.paid
  <1>1. \A j \in Invoices: invoice'[j] = IF j = i THEN row ELSE invoice[j]
    BY DEF TypeOK
  <1>2. Stages' = [Stages EXCEPT ![i] = Stages'[i]] /\ Stages'[i] = StageOf(row.status)
    <2>1. /\ Stages = [x \in Invoices |-> Stages[x]]
          /\ Stages' = [x \in Invoices |-> Stages'[x]]
          /\ \A x \in Invoices \ {i}: Stages'[x] = Stages[x]
          /\ Stages'[i] = StageOf(row.status)
      BY <1>1 DEF Stages
    <2> QED
      BY <2>1, ChangesAtOne
  <1>3. Totals' = [Totals EXCEPT ![i] = Totals'[i]] /\ Totals'[i] = row.total
    <2>1. /\ Totals = [x \in Invoices |-> Totals[x]]
          /\ Totals' = [x \in Invoices |-> Totals'[x]]
          /\ \A x \in Invoices \ {i}: Totals'[x] = Totals[x]
          /\ Totals'[i] = row.total
      BY <1>1 DEF Totals
    <2> QED
      BY <2>1, ChangesAtOne
  <1>4. Paids' = [Paids EXCEPT ![i] = Paids'[i]] /\ Paids'[i] = row.paid
    <2>1. /\ Paids = [x \in Invoices |-> Paids[x]]
          /\ Paids' = [x \in Invoices |-> Paids'[x]]
          /\ \A x \in Invoices \ {i}: Paids'[x] = Paids[x]
          /\ Paids'[i] = row.paid
      BY <1>1 DEF Paids
    <2> QED
      BY <2>1, ChangesAtOne
  <1>5. Deletions' = [Deletions EXCEPT ![i] = Deletions'[i]] /\ Deletions'[i] = row.deleted
    <2>1. /\ Deletions = [x \in Invoices |-> Deletions[x]]
          /\ Deletions' = [x \in Invoices |-> Deletions'[x]]
          /\ \A x \in Invoices \ {i}: Deletions'[x] = Deletions[x]
          /\ Deletions'[i] = row.deleted
      BY <1>1 DEF Deletions
    <2> QED
      BY <2>1, ChangesAtOne
  <1> QED
    BY <1>2, <1>3, <1>4, <1>5

\* A field the new row shares with the old one is seen unchanged.
LEMMA SeenUnchanged ==
  ASSUME NEW i \in Invoices, NEW row, TypeOK, invoice' = [invoice EXCEPT ![i] = row]
  PROVE  /\ StageOf(row.status) = StageOf(invoice[i].status) => Stages' = Stages
         /\ row.total = invoice[i].total => Totals' = Totals
         /\ row.paid = invoice[i].paid => Paids' = Paids
         /\ row.deleted = invoice[i].deleted => Deletions' = Deletions
  <1>1. \A j \in Invoices: invoice'[j] = IF j = i THEN row ELSE invoice[j]
    BY DEF TypeOK
  <1> QED
    BY <1>1 DEF Stages, Totals, Paids, Deletions

LEMMA LedgerSteps ==
  ASSUME OneClient, LedgerHolds, SerialInv, NEW c \in Clients, InvoiceStep(c) \/ PaymentStep(c)
  PROVE  [Lifecycle!Next]_(Lifecycle!vars)
  <1> DEFINE Seen == [Lifecycle!Next]_(Lifecycle!vars)
  <1> USE DEF LedgerHolds, LedgerInv
  <1>0. req[c] \in Request
    BY DEF TypeOK
  <1>1. CASE UNCHANGED invoice
    BY <1>1 DEF Lifecycle!vars
  <1>2. ASSUME NEW i \in Invoices, NEW lines \in Subtotals, CreateInvoice(c, i, lines)
        PROVE  Seen
    <2> DEFINE row == [NoInvoiceRow EXCEPT !.status = "draft", !.lines = lines, !.total = lines]
    <2>1. invoice' = [invoice EXCEPT ![i] = row] /\ invoice[i].status = "none"
      BY <1>2 DEF CreateInvoice
    <2>2. /\ row.status = "draft" /\ row.total = lines
          /\ row.paid = invoice[i].paid /\ row.deleted = invoice[i].deleted
      <3>1. invoice[i] \in InvoiceRow /\ Sound(invoice[i])
        BY DEF TypeOK
      <3> QED
        BY <2>1, <3>1 DEF NoInvoiceRow, Sound, InvoiceRow
    <2> HIDE DEF row
    <2>3. Lifecycle!Draft(i)
      <3>0. Stages[i] = "none"
        BY <2>1, SeenAt DEF StageOf, Issued
      <3>1. /\ Stages[i] = "none"
            /\ Stages' = [Stages EXCEPT ![i] = "draft"]
            /\ Totals' = [Totals EXCEPT ![i] = Totals'[i]]
            /\ Paids' = Paids /\ Deletions' = Deletions
        <4>1. StageOf(row.status) = "draft"
          BY <2>2 DEF StageOf, Issued
        <4>2. /\ Stages' = [Stages EXCEPT ![i] = StageOf(row.status)]
              /\ Totals' = [Totals EXCEPT ![i] = Totals'[i]]
          BY <2>1, RowSeen
        <4>3. Paids' = Paids /\ Deletions' = Deletions
          BY <2>1, <2>2, SeenUnchanged
        <4> QED
          BY <3>0, <4>1, <4>2, <4>3
      <3> QED
        BY <3>1 DEF Lifecycle!Draft, Lifecycle!ChangesAt, Stages, Totals, Paids, Deletions
    <2> QED
      BY <2>3 DEF Lifecycle!Next
  <1>3. CASE CommitUpdateInvoice(c)
    <2>0. PICK i \in Invoices: i = req[c].inv
      BY <1>0, <1>3, RequestShapes DEF CommitUpdateInvoice
    <2> DEFINE r == req[c]
               row == [invoice[i] EXCEPT !.total = r.total, !.lines = Patched(r.lines, @)]
    <2>1. invoice[i] \in InvoiceRow /\ invoice[i].status = "draft"
      BY <1>3, <2>0 DEF CommitUpdateInvoice, TypeOK, ReadsHold, Row
    <2>2. CASE PaidFits(invoice[i].paid, r.total)
      <3>1. invoice' = [invoice EXCEPT ![i] = row]
        BY <1>3, <2>0, <2>1, <2>2 DEF CommitUpdateInvoice, TypeOK, InvoiceRow
      <3>2. /\ row.status = invoice[i].status /\ row.total = r.total
            /\ row.paid = invoice[i].paid /\ row.deleted = invoice[i].deleted
        BY <2>1 DEF InvoiceRow
      <3> HIDE DEF row, r
      <3>3. /\ Stages[i] = "draft" /\ Stages' = Stages
            /\ Totals' = [Totals EXCEPT ![i] = Totals'[i]]
            /\ Paids' = Paids /\ Deletions' = Deletions
        <4>1. Stages[i] = "draft"
          BY <2>1, SeenAt DEF StageOf, Issued
        <4> QED
          BY <3>1, <3>2, <4>1, RowSeen, SeenUnchanged
      <3>4. Lifecycle!Amend(i)
        BY <3>3 DEF Lifecycle!Amend, Lifecycle!ChangesAt, Stages, Totals, Paids, Deletions
      <3> QED
        BY <3>4 DEF Lifecycle!Next
    <2>3. CASE ~PaidFits(invoice[i].paid, r.total)
      BY <1>1, <1>3, <2>0, <2>3 DEF CommitUpdateInvoice, Abort
    <2> QED
      BY <2>2, <2>3
  <1>4. CASE CommitIssue(c)
    <2>0. PICK i \in Invoices: i = req[c].inv
      BY <1>0, <1>4, RequestShapes DEF CommitIssue
    <2> DEFINE row == [invoice[i] EXCEPT !.status = "sent"]
    <2>1. /\ invoice[i] \in InvoiceRow /\ invoice[i].status = "draft" /\ ~invoice[i].deleted
          /\ invoice' = [invoice EXCEPT ![i] = row]
      BY <1>4, <2>0 DEF CommitIssue, TypeOK, ReadsHold, Row
    <2>2. /\ row.status = "sent" /\ row.total = invoice[i].total
          /\ row.paid = invoice[i].paid /\ row.deleted = invoice[i].deleted
      BY <2>1 DEF InvoiceRow
    <2> HIDE DEF row
    <2>3. /\ Stages[i] = "draft" /\ ~Deletions[i]
          /\ Stages' = [Stages EXCEPT ![i] = "issued"]
          /\ Totals' = Totals /\ Paids' = Paids /\ Deletions' = Deletions
      BY <2>1, <2>2, RowSeen, SeenUnchanged, SeenAt DEF StageOf, Issued
    <2>4. Lifecycle!Issue(i)
      BY <2>3 DEF Lifecycle!Issue, Stages, Totals, Paids, Deletions
    <2> QED
      BY <2>4 DEF Lifecycle!Next
  <1>5. CASE CommitCancel(c)
    <2>0. PICK i \in Invoices: i = req[c].inv
      BY <1>0, <1>5, RequestShapes DEF CommitCancel
    <2> DEFINE row == [invoice[i] EXCEPT !.status = "cancelled"]
    <2>1. /\ invoice[i] \in InvoiceRow /\ Sound(invoice[i])
          /\ invoice[i].status \notin {"none", "cancelled", "paid"} /\ ~invoice[i].deleted
          /\ invoice' = [invoice EXCEPT ![i] = row]
      BY <1>5, <2>0 DEF CommitCancel, TypeOK, ReadsHold, SerialInv, Row
    <2>2. /\ row.status = "cancelled" /\ row.total = invoice[i].total
          /\ row.paid = invoice[i].paid /\ row.deleted = invoice[i].deleted
      BY <2>1 DEF InvoiceRow
    <2> HIDE DEF row
    <2>3. invoice[i].status \in Issued =>
            invoice[i].status = StatusFor(invoice[i].paid, invoice[i].total)
      <3>1. \A d \in Clients: req[d].at = "cancel"
        BY <1>5 DEF CommitCancel, OneClient
      <3> QED
        BY <3>1 DEF StatusFollowsPayments
    <2>4. ~(invoice[i].total > 0 /\ invoice[i].paid = invoice[i].total)
      <3>1. invoice[i].total \in Nat /\ invoice[i].paid \in Nat
            /\ invoice[i].status \in {"draft", "sent", "partial"}
        BY <2>1 DEF InvoiceRow, InvoiceStatuses
      <3> QED
        BY <2>1, <2>3, <3>1 DEF StatusFor, Sound, Issued
    <2>5. /\ Stages[i] \in {"draft", "issued"} /\ ~Deletions[i]
          /\ Stages' = [Stages EXCEPT ![i] = "cancelled"]
          /\ Totals' = Totals /\ Paids' = Paids /\ Deletions' = Deletions
      <3>1. Stages[i] \in {"draft", "issued"} /\ ~Deletions[i]
        BY <2>1, SeenAt DEF StageOf, Issued, InvoiceRow, InvoiceStatuses
      <3>2. StageOf(row.status) = "cancelled"
        BY <2>2 DEF StageOf, Issued
      <3>3. Stages' = [Stages EXCEPT ![i] = StageOf(row.status)]
        BY <2>1, RowSeen
      <3>4. Totals' = Totals /\ Paids' = Paids /\ Deletions' = Deletions
        BY <2>1, <2>2, SeenUnchanged
      <3> QED
        BY <3>1, <3>2, <3>3, <3>4
    <2>6. Lifecycle!Cancel(i)
      BY <2>4, <2>5 DEF Lifecycle!Cancel, Lifecycle!Settled, Stages, Totals, Paids, Deletions
    <2> QED
      BY <2>6 DEF Lifecycle!Next
  <1>6. CASE CommitDeleteInvoice(c)
    <2>0. PICK i \in Invoices: i = req[c].inv
      BY <1>0, <1>6, RequestShapes DEF CommitDeleteInvoice
    <2> DEFINE row == [invoice[i] EXCEPT !.deleted = TRUE]
    <2>1. /\ invoice[i] \in InvoiceRow /\ invoice[i].status \in {"draft", "cancelled"}
          /\ invoice' = [invoice EXCEPT ![i] = row]
      BY <1>6, <2>0 DEF CommitDeleteInvoice, TypeOK, ReadsHold, Row
    <2>2. /\ row.status = invoice[i].status /\ row.total = invoice[i].total
          /\ row.paid = invoice[i].paid /\ row.deleted = TRUE
      BY <2>1 DEF InvoiceRow
    <2> HIDE DEF row
    <2>3. /\ Stages[i] \in {"draft", "cancelled"}
          /\ Deletions' = [Deletions EXCEPT ![i] = TRUE]
          /\ Stages' = Stages /\ Totals' = Totals /\ Paids' = Paids
      <3>1. Stages[i] \in {"draft", "cancelled"}
        BY <2>1, SeenAt DEF StageOf, Issued
      <3> QED
        BY <2>1, <2>2, <3>1, RowSeen, SeenUnchanged
    <2>4. Lifecycle!Delete(i)
      BY <2>3 DEF Lifecycle!Delete, Stages, Totals, Paids, Deletions
    <2> QED
      BY <2>4 DEF Lifecycle!Next
  <1>7. ASSUME NEW i \in Invoices, NEW row, invoice' = [invoice EXCEPT ![i] = row],
               invoice[i].status \notin {"none", "draft"},
               StageOf(row.status) = StageOf(invoice[i].status),
               row.total = invoice[i].total, row.deleted = invoice[i].deleted,
               row.paid \in 0..invoice[i].total
        PROVE  Seen
    <2>1. invoice[i] \in InvoiceRow
      BY DEF TypeOK
    <2>2. /\ Stages[i] \in {"issued", "cancelled"}
          /\ Paids' = [Paids EXCEPT ![i] = Paids'[i]]
          /\ Paids'[i] \in 0..Totals[i]
          /\ Stages' = Stages /\ Totals' = Totals /\ Deletions' = Deletions
      BY <1>7, <2>1, RowSeen, SeenUnchanged, SeenAt DEF StageOf, Issued, InvoiceRow, InvoiceStatuses
    <2>4. Lifecycle!Receive(i)
      BY <2>2 DEF Lifecycle!Receive, Lifecycle!ChangesAt, Stages, Totals, Paids, Deletions
    <2> QED
      BY <2>4 DEF Lifecycle!Next
  <1>8. ASSUME NEW i \in Invoices, NEW n \in Nat, Received(c, i, n)
        PROVE  Seen
    <2> DEFINE row == Synced([invoice[i] EXCEPT !.paid = n])
    <2>1. /\ invoice[i] \in InvoiceRow /\ invoice[i].status \notin {"none", "draft"}
          /\ n \in 0..invoice[i].total
          /\ invoice' = [invoice EXCEPT ![i] = row]
      BY <1>8 DEF Received, Started, TypeOK
    <2>2. /\ row.paid = n /\ row.total = invoice[i].total /\ row.deleted = invoice[i].deleted
          /\ invoice[i].status = "cancelled" => row.status = "cancelled"
          /\ invoice[i].status # "cancelled" => row.status \in Issued
      BY <2>1, SyncedRow
    <2> HIDE DEF row
    <2>3. StageOf(row.status) = StageOf(invoice[i].status)
      BY <2>1, <2>2 DEF StageOf, InvoiceRow, InvoiceStatuses, Issued
    <2> QED
      BY <1>7, <2>1, <2>2, <2>3
  <1>9. ASSUME NEW i \in Invoices, NEW n \in Nat, ReceivedFirst(c, i, n)
        PROVE  Seen
    <2> DEFINE row == [invoice[i] EXCEPT !.paid = n]
    <2>1. /\ invoice[i] \in InvoiceRow /\ invoice[i].status \notin {"none", "draft"}
          /\ n \in 0..invoice[i].total
          /\ invoice' = [invoice EXCEPT ![i] = row]
      BY <1>9 DEF ReceivedFirst, Started, TypeOK
    <2>2. /\ row.paid = n /\ row.total = invoice[i].total /\ row.deleted = invoice[i].deleted
          /\ row.status = invoice[i].status
      BY <2>1 DEF InvoiceRow
    <2> HIDE DEF row
    <2> QED
      BY <1>7, <2>1, <2>2
  <1>10. CASE SyncWrite(c)
    <2>0. PICK i \in Invoices: i = req[c].inv
      BY <1>0, <1>10, RequestShapes DEF SyncWrite
    <2> DEFINE row == [invoice[i] EXCEPT !.status = req[c].status]
    <2>1. /\ invoice[i] \in InvoiceRow /\ invoice[i].status \in Issued
          /\ req[c].status \in Issued
          /\ invoice' = [invoice EXCEPT ![i] = row]
      BY <1>0, <1>10, <2>0, RequestShapes DEF SyncWrite, TypeOK, ReadsHold, Row, Issued
    <2>2. /\ row.paid = invoice[i].paid /\ row.total = invoice[i].total
          /\ row.deleted = invoice[i].deleted
          /\ StageOf(row.status) = StageOf(invoice[i].status)
      BY <2>1 DEF InvoiceRow, StageOf
    <2> HIDE DEF row
    <2>3. Stages' = Stages /\ Totals' = Totals /\ Paids' = Paids /\ Deletions' = Deletions
      BY <2>1, <2>2, SeenUnchanged
    <2> QED
      BY <2>3 DEF Lifecycle!vars, Stages, Totals, Paids, Deletions
  <1> HIDE DEF Seen
  <1>11. CASE InvoiceStep(c)
    BY <1>1, <1>2, <1>3, <1>4, <1>5, <1>6, <1>11, InvoiceEffects, InvoiceBegun DEF Seen
  <1>12. CASE PaymentStep(c)
    <2>1. SyncRead(c) => UNCHANGED invoice
      BY DEF SyncRead
    <2> QED
      BY <1>1, <1>8, <1>9, <1>10, <1>12, <2>1, PaymentEffects DEF Seen
  <1> QED
    BY <1>11, <1>12

\* With requests one after the other, the two tables and their handlers implement
\* InvoiceLifecycle: no invoice is amended after its issue, issued twice, cancelled when it
\* is settled, brought back from its cancellation, or deleted while it is owed.
THEOREM LedgerImplementsLifecycle ==
  ASSUME OneClient
  PROVE  Spec => InvoicesLiveTheirLives
  <1>1. LedgerHolds /\ SerialInv /\ [Next]_vars => [Lifecycle!Next]_(Lifecycle!vars)
    <2>1. CASE UNCHANGED vars
      BY <2>1 DEF vars, Lifecycle!vars
    <2>2. LedgerHolds /\ SerialInv /\ Next => [Lifecycle!Next]_(Lifecycle!vars)
      BY LedgerSteps DEF Next
    <2> QED
      BY <2>1, <2>2
  <1>2. Spec => Lifecycle!Spec
    BY <1>1, LifecycleInit, SerialLedger, PTL DEF Spec, Lifecycle!Spec
  <1> QED
    BY <1>2 DEF InvoicesLiveTheirLives
=============================================================================
