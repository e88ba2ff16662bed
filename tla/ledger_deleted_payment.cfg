CONSTANTS
  c1 = c1
  c2 = c2
  c3 = c3
  Clients = {c1}
  Invoices = {i1}
  Payments = {p1, p2}
  Amounts = {1, 2}
  Subtotals = {0, 2}
  BodyStatuses = {"pending", "received", "reconciled", "refunded", "cancelled"}
  Calls <- AllCalls
  NoInvoice = NoInvoice
  Keep = Keep
SPECIFICATION Spec
INVARIANT DeletedPaymentIsExcluded
