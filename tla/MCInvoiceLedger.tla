-------------------------- MODULE MCInvoiceLedger --------------------------
(* Instances of InvoiceLedger for TLC. *)
EXTENDS InvoiceLedger, TLC

CONSTANTS c1, c2, c3

\* every client may call everything
AllCalls == [c \in Clients |-> Endpoints]

\* one clerk issues and cancels, the others only take payments
ClerkAndTellers ==
  [c \in Clients |-> IF c = c1 THEN {"createInvoice", "issue", "cancel", "deleteInvoice"}
                     ELSE {"pay", "updatePayment"}]

PaymentSymmetry == Permutations(Payments)
=============================================================================
