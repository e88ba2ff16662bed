CONSTANTS
  c1 = c1
  c2 = c2
  c3 = c3
  Clients = {c1, c2, c3}
  Invoices = {i1}
  Payments = {p1, p2}
  Amounts = {1}
  Subtotals = {1}
  BodyStatuses = {"pending", "received"}
  Calls <- ClerkAndTellers
  NoInvoice = NoInvoice
  Keep = Keep
SYMMETRY PaymentSymmetry
SPECIFICATION Spec
INVARIANTS StatusFollowsPayments NoPaymentOnDraft
PROPERTIES CancelledIsFinal
