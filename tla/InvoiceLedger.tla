--------------------------- MODULE InvoiceLedger ---------------------------
(***************************************************************************)
(* Invoices and payments of one organisation:                              *)
(* core/finance/services/invoice.service.ts and payment.service.ts.        *)
(*                                                                         *)
(* The state is the two tables, and for every client of the API the        *)
(* request it has in flight.  The database runs at READ COMMITTED and no   *)
(* service takes a lock, so a handler that reads a row in one await and    *)
(* writes it in a later one is two actions, with the snapshot it decided   *)
(* on kept in req[c].  A database transaction whose write touches the      *)
(* invoice row holds that row's lock until it commits: from its first      *)
(* write on, such a transaction is one action.                             *)
(*                                                                         *)
(* Amounts are integers (cents): the 0.005 tolerance of the code is a      *)
(* comparison of integers.  Document numbers are in DocumentNumbering; a   *)
(* creation that collides on its number rolls back, like Abort here.       *)
(***************************************************************************)
EXTENDS Naturals, FiniteSets, FiniteSetsExt

CONSTANTS Clients,   \* callers of the API
          Invoices,  \* rows the table may come to hold
          Payments,
          Amounts,   \* amounts a payment may have
          BodyStatuses, \* statuses a client may put in a payment's body
          Subtotals, \* what the lines of an invoice may add up to
          Calls,     \* Calls[c]: the endpoints client c uses
          NoInvoice, \* payments.invoice_id IS NULL
          Keep       \* a field left out of a PATCH body

Endpoints == {"createInvoice", "updateInvoice", "issue", "cancel", "deleteInvoice",
              "pay", "updatePayment", "reconcile", "deletePayment"}

ASSUME ConstantsAssumption ==
  /\ Amounts \subseteq Nat \ {0}
  /\ Subtotals \subseteq Nat
  /\ BodyStatuses \subseteq {"pending", "received", "reconciled", "refunded", "cancelled"}
  /\ Calls \in [Clients -> SUBSET Endpoints]
  /\ NoInvoice \notin Invoices
  /\ Keep \notin Nat
  /\ Keep \notin {"pending", "received", "reconciled", "refunded", "cancelled"}

VARIABLES invoice, payment, req

vars == <<invoice, payment, req>>

-----------------------------------------------------------------------------
(* Rows and requests *)

\* no service writes "overdue", the sixth value of the column
InvoiceStatuses == {"draft", "sent", "partial", "paid", "cancelled"}
PaymentStatuses == {"pending", "received", "reconciled", "refunded", "cancelled"}
Contributing == {"received", "reconciled"}

\* status "none" is a row that is not there yet
InvoiceRow == [status: InvoiceStatuses \cup {"none"}, lines: Nat, total: Nat,
               paid: Nat, deleted: BOOLEAN]
PaymentRow == [status: PaymentStatuses \cup {"none"}, amount: Nat,
               inv: Invoices \cup {NoInvoice}, deleted: BOOLEAN]

NoInvoiceRow == [status |-> "none", lines |-> 0, total |-> 0, paid |-> 0, deleted |-> FALSE]
NoPaymentRow == [status |-> "none", amount |-> 0, inv |-> NoInvoice, deleted |-> FALSE]

Idle == [at |-> "idle"]

Request ==
  {Idle}
  \cup [at: {"updateInvoice"}, inv: Invoices, lines: Subtotals \cup {Keep}, total: Nat]
  \cup [at: {"issue", "cancel", "deleteInvoice", "syncRead"}, inv: Invoices]
  \cup [at: {"syncWrite"}, inv: Invoices, status: {"sent", "partial", "paid"}]
  \cup [at: {"pay"}, inv: Invoices \cup {NoInvoice}, amount: Amounts, status: PaymentStatuses]
  \cup [at: {"updatePayment"}, pay: Payments, amount: Amounts \cup {Keep},
        status: PaymentStatuses \cup {Keep}]
  \cup [at: {"reconcile", "deletePayment"}, pay: Payments]

TypeOK ==
  /\ invoice \in [Invoices -> InvoiceRow]
  /\ payment \in [Payments -> PaymentRow]
  /\ req \in [Clients -> Request]

Init ==
  /\ invoice = [i \in Invoices |-> NoInvoiceRow]
  /\ payment = [p \in Payments |-> NoPaymentRow]
  /\ req = [c \in Clients |-> Idle]

-----------------------------------------------------------------------------
(* What the database does on its own *)

\* recompute_invoice_paid_amount(): the sum the trigger stores, which looks at the
\* status of a payment and not at deleted_at
ContributingSum(pays, i) ==
  MapThenSumSet(LAMBDA p: pays[p].amount,
                {p \in Payments: pays[p].inv = i /\ pays[p].status \in Contributing})

\* CHECK (paid_amount <= total_amount)
PaidFits(paid, total) == paid \in 0..total

\* the invoices table once the trigger has run for a change of invoice i's payments
Recomputed(pays, i) == [invoice EXCEPT ![i].paid = ContributingSum(pays, i)]

-----------------------------------------------------------------------------
(* What the services compute *)

\* (mutant) an absent field is written as it is
PatchedBlindly(new, old) == new

Patched(new, old) == IF new = Keep THEN old ELSE new

\* the status syncInvoiceStatus derives from the money received
StatusFor(paid, total) ==
  IF paid >= total /\ total > 0 THEN "paid" ELSE IF paid > 0 THEN "partial" ELSE "sent"

\* (mutants) a settled invoice is never looked at again; a cancelled one still is
SyncedUntilPaid(row) ==
  IF row.status \in {"cancelled", "draft", "paid"} THEN row
  ELSE [row EXCEPT !.status = StatusFor(row.paid, row.total)]
SyncedEvenCancelled(row) ==
  IF row.status = "draft" THEN row
  ELSE [row EXCEPT !.status = StatusFor(row.paid, row.total)]

\* the row after syncInvoiceStatus ran in the transaction that holds it
Synced(row) ==
  IF row.status \in {"cancelled", "draft"} THEN row
  ELSE [row EXCEPT !.status = StatusFor(row.paid, row.total)]

\* a row a findOne with "deleted_at IS NULL" returns
Visible(row) == row.status # "none" /\ ~row.deleted

\* a row repository.findOne({id}) returns: deletedAt is select:false, so the
\* handlers' own test of it never sees a deletion
Found(row) == row.status # "none"

-----------------------------------------------------------------------------
(* Steps shared by the handlers *)

Start(c, endpoint, r) ==
  /\ req[c] = Idle
  /\ endpoint \in Calls[c]
  /\ req' = [req EXCEPT ![c] = r]
  /\ UNCHANGED <<invoice, payment>>

Finish(c) == req' = [req EXCEPT ![c] = Idle]

\* the request ends in an exception and its transaction, if any, is rolled back
Abort(c) == Finish(c) /\ UNCHANGED <<invoice, payment>>

\* Payment p becomes row, in a transaction that goes on to syncInvoiceStatus
\* before it commits; the CHECK may refuse it.
CommitPayment(c, p, row) ==
  LET pays == [payment EXCEPT ![p] = row]
      i    == row.inv
      invs == Recomputed(pays, i)
  IN  IF i = NoInvoice
      THEN payment' = pays /\ Finish(c) /\ UNCHANGED invoice
      ELSE IF PaidFits(invs[i].paid, invs[i].total)
           THEN payment' = pays /\ invoice' = [invs EXCEPT ![i] = Synced(@)] /\ Finish(c)
           ELSE Abort(c)

\* Payment p becomes row in an autocommitted UPDATE; syncInvoiceStatus comes later,
\* in a transaction of its own.
WritePayment(c, p, row) ==
  LET pays == [payment EXCEPT ![p] = row]
      i    == row.inv
      invs == Recomputed(pays, i)
  IN  IF i = NoInvoice
      THEN payment' = pays /\ Finish(c) /\ UNCHANGED invoice
      ELSE IF PaidFits(invs[i].paid, invs[i].total)
           THEN payment' = pays /\ invoice' = invs
                /\ req' = [req EXCEPT ![c] = [at |-> "syncRead", inv |-> i]]
           ELSE Abort(c)

-----------------------------------------------------------------------------
(* InvoiceService *)

CreateInvoice(c, i, lines) ==
  /\ req[c] = Idle
  /\ "createInvoice" \in Calls[c]
  /\ invoice[i].status = "none"
  /\ invoice' = [invoice EXCEPT ![i] = [NoInvoiceRow EXCEPT !.status = "draft",
                                          !.lines = lines, !.total = lines]]
  /\ UNCHANGED <<payment, req>>

\* update: the invoice and, when no lines are sent, the stored lines are read here
BeginUpdateInvoice(c, i, lines) ==
  /\ Found(invoice[i])
  /\ invoice[i].status = "draft"
  /\ Start(c, "updateInvoice", [at |-> "updateInvoice", inv |-> i, lines |-> lines,
                                total |-> Patched(lines, invoice[i].lines)])

\* (mutant) the new lines are not stored
CommitUpdateTotalsOnly(c) ==
  LET r == req[c]
  IN  /\ r.at = "updateInvoice"
      /\ IF PaidFits(invoice[r.inv].paid, r.total)
         THEN /\ invoice' = [invoice EXCEPT ![r.inv].total = r.total]
              /\ Finish(c)
              /\ UNCHANGED payment
         ELSE Abort(c)

\* ... and the totals, then the lines, are written here, whatever the status is now
CommitUpdateInvoice(c) ==
  LET r == req[c]
  IN  /\ r.at = "updateInvoice"
      /\ IF PaidFits(invoice[r.inv].paid, r.total)
         THEN /\ invoice' = [invoice EXCEPT ![r.inv].total = r.total,
                                            ![r.inv].lines = Patched(r.lines, @)]
              /\ Finish(c)
              /\ UNCHANGED payment
         ELSE Abort(c)

\* an invoice without lines is refused too, but validateItems leaves none without: lines
\* is what they add up to, which may be 0
BeginIssue(c, i) ==
  /\ Visible(invoice[i])
  /\ invoice[i].status = "draft"
  /\ Start(c, "issue", [at |-> "issue", inv |-> i])

CommitIssue(c) ==
  /\ req[c].at = "issue"
  /\ invoice' = [invoice EXCEPT ![req[c].inv].status = "sent"]
  /\ Finish(c)
  /\ UNCHANGED payment

\* (mutant) a settled invoice may be cancelled
BeginCancelPaid(c, i) ==
  /\ Visible(invoice[i])
  /\ invoice[i].status # "cancelled"
  /\ Start(c, "cancel", [at |-> "cancel", inv |-> i])

BeginCancel(c, i) ==
  /\ Visible(invoice[i])
  /\ invoice[i].status \notin {"paid", "cancelled"}
  /\ Start(c, "cancel", [at |-> "cancel", inv |-> i])

CommitCancel(c) ==
  /\ req[c].at = "cancel"
  /\ invoice' = [invoice EXCEPT ![req[c].inv].status = "cancelled"]
  /\ Finish(c)
  /\ UNCHANGED payment

BeginDeleteInvoice(c, i) ==
  /\ Visible(invoice[i])
  /\ invoice[i].status \in {"draft", "cancelled"}
  /\ Start(c, "deleteInvoice", [at |-> "deleteInvoice", inv |-> i])

CommitDeleteInvoice(c) ==
  /\ req[c].at = "deleteInvoice"
  /\ invoice' = [invoice EXCEPT ![req[c].inv].deleted = TRUE]
  /\ Finish(c)
  /\ UNCHANGED payment

-----------------------------------------------------------------------------
(* PaymentService *)

\* (mutant) a draft may be paid
MayPayDraft(i, amount) ==
  /\ Found(invoice[i])
  /\ invoice[i].status # "cancelled"
  /\ invoice[i].paid + amount <= invoice[i].total

\* create: the guards on the invoice as it is when the transaction reads it
MayPay(i, amount) ==
  /\ Found(invoice[i])
  /\ invoice[i].status \notin {"cancelled", "draft"}
  /\ invoice[i].paid + amount <= invoice[i].total

BeginPay(c, i, amount, status) ==
  /\ i # NoInvoice => MayPay(i, amount)
  /\ Start(c, "pay", [at |-> "pay", inv |-> i, amount |-> amount, status |-> status])

CommitPay(c, p) ==
  LET r == req[c]
  IN  /\ r.at = "pay"
      /\ payment[p].status = "none"
      /\ CommitPayment(c, p, [status |-> r.status, amount |-> r.amount, inv |-> r.inv,
                              deleted |-> FALSE])

\* INSERT refused by the uniqueness of the payment number (DocumentNumbering)
AbortPay(c) == req[c].at = "pay" /\ Abort(c)

\* update: what all other live payments of the invoice add up to, plus this one
Projected(p, amount, status) ==
  ContributingSum([q \in Payments |-> IF q = p \/ payment[q].deleted THEN NoPaymentRow
                                        ELSE payment[q]], payment[p].inv)
    + IF Patched(status, payment[p].status) \in Contributing
      THEN Patched(amount, payment[p].amount) ELSE 0

MayUpdatePayment(p, amount, status) ==
  (payment[p].inv # NoInvoice /\ (amount # Keep \/ status # Keep))
    => Projected(p, amount, status) <= invoice[payment[p].inv].total

BeginUpdatePayment(c, p, amount, status) ==
  /\ Found(payment[p])
  /\ MayUpdatePayment(p, amount, status)
  /\ Start(c, "updatePayment",
           [at |-> "updatePayment", pay |-> p, amount |-> amount, status |-> status])

CommitUpdatePayment(c) ==
  LET r == req[c]
      p == r.pay
  IN  /\ r.at = "updatePayment"
      /\ CommitPayment(c, p, [payment[p] EXCEPT !.amount = Patched(r.amount, @),
                                                !.status = Patched(r.status, @)])

BeginReconcile(c, p) ==
  /\ Visible(payment[p])
  /\ payment[p].status \notin {"reconciled", "cancelled", "refunded"}
  /\ Start(c, "reconcile", [at |-> "reconcile", pay |-> p])

WriteReconcile(c) ==
  /\ req[c].at = "reconcile"
  /\ WritePayment(c, req[c].pay, [payment[req[c].pay] EXCEPT !.status = "reconciled"])

BeginDeletePayment(c, p) ==
  /\ Visible(payment[p])
  /\ payment[p].status # "reconciled"
  /\ Start(c, "deletePayment", [at |-> "deletePayment", pay |-> p])

WriteDeletePayment(c) ==
  /\ req[c].at = "deletePayment"
  /\ WritePayment(c, req[c].pay, [payment[req[c].pay] EXCEPT !.status = "cancelled",
                                                              !.deleted = TRUE])

\* syncInvoiceStatus on its own: a read that may return early, then a write by id
SyncRead(c) ==
  LET row  == invoice[req[c].inv]
      next == StatusFor(row.paid, row.total)
  IN  /\ req[c].at = "syncRead"
      /\ IF Synced(row) = row THEN Finish(c)
         ELSE req' = [req EXCEPT ![c] = [at |-> "syncWrite", inv |-> req[c].inv,
                                         status |-> next]]
      /\ UNCHANGED <<invoice, payment>>

SyncWrite(c) ==
  /\ req[c].at = "syncWrite"
  /\ invoice' = [invoice EXCEPT ![req[c].inv].status = req[c].status]
  /\ Finish(c)
  /\ UNCHANGED payment

-----------------------------------------------------------------------------
InvoiceStep(c) ==
  \/ \E i \in Invoices:
       \/ \E lines \in Subtotals: CreateInvoice(c, i, lines)
       \/ \E lines \in Subtotals \cup {Keep}: BeginUpdateInvoice(c, i, lines)
       \/ BeginIssue(c, i)
       \/ BeginCancel(c, i)
       \/ BeginDeleteInvoice(c, i)
  \/ CommitUpdateInvoice(c)
  \/ CommitIssue(c)
  \/ CommitCancel(c)
  \/ CommitDeleteInvoice(c)

PaymentStep(c) ==
  \/ \E i \in Invoices \cup {NoInvoice}, amount \in Amounts, status \in BodyStatuses:
       BeginPay(c, i, amount, status)
  \/ \E p \in Payments:
       \/ CommitPay(c, p)
       \/ \E amount \in Amounts \cup {Keep}, status \in BodyStatuses \cup {Keep}:
            BeginUpdatePayment(c, p, amount, status)
       \/ BeginReconcile(c, p)
       \/ BeginDeletePayment(c, p)
  \/ AbortPay(c)
  \/ CommitUpdatePayment(c)
  \/ WriteReconcile(c)
  \/ WriteDeletePayment(c)
  \/ SyncRead(c)
  \/ SyncWrite(c)

Next == \E c \in Clients: InvoiceStep(c) \/ PaymentStep(c)

Spec == Init /\ [][Next]_vars

-----------------------------------------------------------------------------
(* Properties *)

Issued == {"sent", "partial", "paid"}

\* A payment is only ever attached to an invoice that was issued, and no call brings
\* such an invoice back to a draft, whose lines could then change under the payment:
\* the guard of PaymentService.create is read a transaction before the row is there.
NoPaymentOnDraft ==
  \A p \in Payments:
    payment[p].inv # NoInvoice => invoice[payment[p].inv].status \notin {"none", "draft"}

\* syncInvoiceStatus keeps the status of an issued invoice equal to what the money
\* received says, except while a request is still to run it.
StatusFollowsPayments ==
  \A i \in Invoices:
    (/\ invoice[i].status \in Issued
     /\ \A c \in Clients: req[c].at \in {"syncRead", "syncWrite"} => req[c].inv # i)
      => invoice[i].status = StatusFor(invoice[i].paid, invoice[i].total)

\* The total of an invoice is the total of the lines stored with it, although update
\* replaces them in two statements and may recompute from the stored ones.
TotalMatchesLines == \A i \in Invoices: invoice[i].total = invoice[i].lines

\* A cancelled invoice stays cancelled, whatever requests read it before.
CancelledIsFinal ==
  [][\A i \in Invoices: invoice[i].status = "cancelled" =>
       invoice'[i].status = "cancelled"]_vars

\* What an invoice received is the sum of its payments that were not deleted: softDelete
\* forces the status of a payment to cancelled so that it no longer counts.
DeletedPaymentIsExcluded ==
  \A i \in Invoices:
    invoice[i].paid = ContributingSum([p \in Payments |-> IF payment[p].deleted THEN NoPaymentRow
                                                          ELSE payment[p]], i)

-----------------------------------------------------------------------------
(* Refinement *)

StageOf(status) == IF status \in Issued THEN "issued" ELSE status

Lifecycle == INSTANCE InvoiceLifecycle
               WITH stage   <- [i \in Invoices |-> StageOf(invoice[i].status)],
                    total   <- [i \in Invoices |-> invoice[i].total],
                    paid    <- [i \in Invoices |-> invoice[i].paid],
                    deleted <- [i \in Invoices |-> invoice[i].deleted]

\* As long as requests are served one after the other every invoice goes through the
\* promised life: amended only as a draft, issued once, never cancelled when settled,
\* never back from cancelled, deleted only as a draft or cancelled.
InvoicesLiveTheirLives == Lifecycle!Spec
=============================================================================
