------------------------- MODULE DocumentNumbering -------------------------
(***************************************************************************)
(* generateInvoiceNumber and generatePaymentNumber: the number of a new    *)
(* document is the greatest number of its year, plus one.  The greatest is *)
(* taken by the database in the order of TEXT, among numbers padded to     *)
(* Width digits; the INSERT comes later in the transaction, and a unique   *)
(* index refuses the number when another creation took it meanwhile.       *)
(*                                                                         *)
(* One prefix (INV-2026-, PAY-2026-) of one organisation.  Documents are   *)
(* only deleted logically, so their numbers stay taken.  The code has      *)
(* Base = 10 and Width = 5.                                                *)
(***************************************************************************)
EXTENDS Callers, FiniteSets

CONSTANTS Base, Width, MaxDocuments

ASSUME NumberingAssumption ==
  /\ Base \in Nat \ {0, 1}
  /\ Width \in Nat \ {0}
  /\ MaxDocuments \in Nat

VARIABLE taken  \* sequence numbers in the table

\* number: the one about to be inserted
NumberingCall == {Idle} \cup [at: {"number"}, number: Nat \ {0}]

NumberingTypeOK ==
  /\ taken \subseteq Nat \ {0}
  /\ focus = "numbering" => call \in [Clients -> NumberingCall]

NumberingInit == taken = {}

-----------------------------------------------------------------------------
\* digits of n in the given base, written without padding
Digits(n) == CHOOSE d \in 1..(n + 1): n < Base^d /\ (d > 1 => n >= Base^(d - 1))

\* length of the text once padStart(Width, '0') ran
TextLength(n) == IF Digits(n) < Width THEN Width ELSE Digits(n)

\* a comes before b in the order of their texts: compare the digits both texts
\* have, left-aligned; a text comes before its own extensions
TextLeq(a, b) ==
  LET la == TextLength(a)
      lb == TextLength(b)
      headA == IF la > lb THEN a \div Base^(la - lb) ELSE a
      headB == IF lb > la THEN b \div Base^(lb - la) ELSE b
  IN  headA < headB \/ (headA = headB /\ la <= lb)

\* any table that is not empty has a last text
ASSUME TextOrderAssumption ==
  \A S \in SUBSET (1..MaxDocuments): S # {} => \E n \in S: \A m \in S: TextLeq(m, n)

\* ORDER BY ... DESC LIMIT 1
LastNumber == CHOOSE n \in taken: \A m \in taken: TextLeq(m, n)

\* (mutant) the first number is 0
NextNumberFromZero == IF taken = {} THEN 0 ELSE LastNumber + 1

NextNumber == IF taken = {} THEN 1 ELSE LastNumber + 1

ReadLast(c) ==
  /\ MayStart(c, "numbering")
  /\ Cardinality(taken) < MaxDocuments
  /\ Goto(c, [at |-> "number", number |-> NextNumber])
  /\ UNCHANGED taken

InsertDocument(c) ==
  /\ call[c].at = "number"
  /\ call[c].number \notin taken
  /\ taken' = taken \cup {call[c].number}
  /\ Return(c)

\* uq_invoices_org_number: the exception reaches the client, who may try again
Collide(c) ==
  /\ call[c].at = "number"
  /\ call[c].number \in taken
  /\ Return(c)
  /\ UNCHANGED taken

NumberingNext == \E c \in Clients: ReadLast(c) \/ InsertDocument(c) \/ Collide(c)

-----------------------------------------------------------------------------
\* The numbers of a year run without a gap, as an accountant expects of invoices: a
\* creation that fails, or that read before others inserted, leaves none behind.
NoGap == taken = 1..Cardinality(taken)
=============================================================================
