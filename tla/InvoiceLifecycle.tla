-------------------------- MODULE InvoiceLifecycle --------------------------
(***************************************************************************)
(* What the finance component promises of its invoices, without requests,  *)
(* payments or statuses derived from them: an invoice is drafted, amended  *)
(* as long as it is a draft, issued once, receives and loses money within  *)
(* its total, and may be cancelled until it is settled, which is final.    *)
(***************************************************************************)
EXTENDS Naturals

CONSTANT Invoices

VARIABLES stage, total, paid, deleted

vars == <<stage, total, paid, deleted>>

Init ==
  /\ stage = [i \in Invoices |-> "none"]
  /\ total = [i \in Invoices |-> 0]
  /\ paid = [i \in Invoices |-> 0]
  /\ deleted = [i \in Invoices |-> FALSE]

Settled(i) == total[i] > 0 /\ paid[i] = total[i]

\* f' differs from f at i only
ChangesAt(f, fNew, i) == fNew = [f EXCEPT ![i] = fNew[i]]

Draft(i) ==
  /\ stage[i] = "none"
  /\ stage' = [stage EXCEPT ![i] = "draft"]
  /\ ChangesAt(total, total', i)
  /\ UNCHANGED <<paid, deleted>>

Amend(i) ==
  /\ stage[i] = "draft"
  /\ ChangesAt(total, total', i)
  /\ UNCHANGED <<stage, paid, deleted>>

Issue(i) ==
  /\ stage[i] = "draft"
  /\ ~deleted[i]
  /\ stage' = [stage EXCEPT ![i] = "issued"]
  /\ UNCHANGED <<total, paid, deleted>>

\* money comes in, or a payment is corrected
Receive(i) ==
  /\ stage[i] \in {"issued", "cancelled"}
  /\ ChangesAt(paid, paid', i)
  /\ paid'[i] \in 0..total[i]
  /\ UNCHANGED <<stage, total, deleted>>

Cancel(i) ==
  /\ stage[i] \in {"draft", "issued"}
  /\ ~deleted[i]
  /\ ~Settled(i)
  /\ stage' = [stage EXCEPT ![i] = "cancelled"]
  /\ UNCHANGED <<total, paid, deleted>>

Delete(i) ==
  /\ stage[i] \in {"draft", "cancelled"}
  /\ deleted' = [deleted EXCEPT ![i] = TRUE]
  /\ UNCHANGED <<stage, total, paid>>

Next == \E i \in Invoices:
  Draft(i) \/ Amend(i) \/ Issue(i) \/ Receive(i) \/ Cancel(i) \/ Delete(i)

Spec == Init /\ [][Next]_vars
=============================================================================
