----------------------------- MODULE Regulations ----------------------------
(***************************************************************************)
(* What employees are given to read and sign: the internal regulations,    *)
(* of which one is in force, and the HR documents                          *)
(* (core/hr/services/regulation.service.ts, hr-document.service.ts).       *)
(*                                                                         *)
(* Publishing a regulation archives the one in force, puts the new one in  *)
(* force and hands it to every employee, each in an await of its own.  A   *)
(* signature is inserted in one await, the assignment is marked in the     *)
(* next.                                                                   *)
(*                                                                         *)
(* Left out: contents and their hashes, verification codes, time spent,    *)
(* downloads, statistics and audits, which only read.                      *)
(***************************************************************************)
EXTENDS Callers, Integers, FiniteSets

CONSTANTS Readers,        \* active employees
          Rules,          \* rows internal_regulations may come to hold
          Papers,         \* rows hr_documents may come to hold
          ToSign, ToAcknowledge   \* papers to sign, papers to acknowledge

VARIABLES rule,         \* internal_regulations: status
          late,         \* regulations whose time to sign has passed
          copy,         \* employee_regulation_assignments
          signatures,   \* signatures[e][r]: rows of electronic_signatures
          paper,        \* hr_documents
          sheet,        \* hr_document_assignments: status
          sheets        \* sheets[e][d]: rows an employee holds of a paper

regulationVars == <<rule, late, copy, signatures, paper, sheet, sheets>>

CopyRow == [status: {"none", "pending", "viewed", "signed", "refused", "expired"}, viewed: BOOLEAN]

PaperRow == [status: {"none", "draft", "active", "archived"}, deleted: BOOLEAN]

RegulationCall ==
  {Idle}
  \cup [at: {"archive", "activate", "assign"}, rule: Rules]
  \cup [at: {"sign"}, reader: Readers, rule: Rules, viewed: BOOLEAN]

RegulationTypeOK ==
  /\ rule \in [Rules -> {"none", "draft", "active", "archived"}]
  /\ late \subseteq Rules
  /\ copy \in [Readers -> [Rules -> CopyRow]]
  /\ signatures \in [Readers -> [Rules -> 0..2]]
  /\ paper \in [Papers -> PaperRow]
  /\ sheet \in [Readers -> [Papers -> {"none", "pending", "viewed", "signed",
                                       "acknowledged", "rejected"}]]
  /\ sheets \in [Readers -> [Papers -> 0..2]]
  /\ focus = "regulations" => call \in [Clients -> RegulationCall]

RegulationInit ==
  /\ rule = [r \in Rules |-> "none"]
  /\ late = {}
  /\ copy = [e \in Readers |-> [r \in Rules |-> [status |-> "none", viewed |-> FALSE]]]
  /\ signatures = [e \in Readers |-> [r \in Rules |-> 0]]
  /\ paper = [d \in Papers |-> [status |-> "none", deleted |-> FALSE]]
  /\ sheet = [e \in Readers |-> [d \in Papers |-> "none"]]
  /\ sheets = [e \in Readers |-> [d \in Papers |-> 0]]

keptPapers == <<paper, sheet, sheets>>
keptRules == <<rule, late, copy, signatures>>

-----------------------------------------------------------------------------
(* RegulationService *)

CreateRegulation(r) ==
  /\ MayRun("regulations") /\ rule[r] = "none"
  /\ rule' = [rule EXCEPT ![r] = "draft"]
  /\ UNCHANGED <<late, copy, signatures, keptPapers, call>>

BeginPublish(c, r) ==
  /\ MayStart(c, "regulations") /\ rule[r] = "draft"
  /\ Goto(c, [at |-> "archive", rule |-> r])
  /\ UNCHANGED regulationVars

ArchiveActive(c) ==
  /\ call[c].at = "archive"
  /\ rule' = [r \in Rules |-> IF rule[r] = "active" THEN "archived" ELSE rule[r]]
  /\ Goto(c, [call[c] EXCEPT !.at = "activate"])
  /\ UNCHANGED <<late, copy, signatures, keptPapers>>

Activate(c) ==
  /\ call[c].at = "activate"
  /\ rule' = [rule EXCEPT ![call[c].rule] = "active"]
  /\ Goto(c, [call[c] EXCEPT !.at = "assign"])
  /\ UNCHANGED <<late, copy, signatures, keptPapers>>

AssignToAllEmployees(c) ==
  /\ call[c].at = "assign"
  /\ copy' = [e \in Readers |->
       IF copy[e][call[c].rule].status = "none"
       THEN [copy[e] EXCEPT ![call[c].rule].status = "pending"] ELSE copy[e]]
  /\ Return(c)
  /\ UNCHANGED <<rule, late, signatures, keptPapers>>

DeadlinePasses(r) ==
  /\ MayRun("regulations") /\ r \notin late /\ \E e \in Readers: copy[e][r].status # "none"
  /\ late' = late \cup {r}
  /\ UNCHANGED <<rule, copy, signatures, keptPapers, call>>

\* the first view counts as progress whatever the status, signed or refused
MarkAsViewed(e, r) ==
  /\ MayRun("regulations") /\ copy[e][r].status # "none"
  /\ copy' = [copy EXCEPT ![e][r] =
       IF @.viewed THEN @ ELSE [status |-> "viewed", viewed |-> TRUE]]
  /\ UNCHANGED <<rule, late, signatures, keptPapers, call>>

\* signed already, or too late
MaySign(e, r) == copy[e][r].status \notin {"none", "signed", "expired"} /\ r \notin late

RefuseLateSignature(e, r) ==
  /\ MayRun("regulations") /\ copy[e][r].status \notin {"none", "signed"} /\ ~MaySign(e, r)
  /\ copy' = [copy EXCEPT ![e][r].status = "expired"]
  /\ UNCHANGED <<rule, late, signatures, keptPapers, call>>

\* signatures counted up to a bound
BeginSign(c, e, r) ==
  /\ MayStart(c, "regulations") /\ MaySign(e, r) /\ signatures[e][r] < 2
  /\ signatures' = [signatures EXCEPT ![e][r] = @ + 1]
  /\ Goto(c, [at |-> "sign", reader |-> e, rule |-> r, viewed |-> copy[e][r].viewed])
  /\ UNCHANGED <<rule, late, copy, keptPapers>>

\* saves the row read before
FinishSign(c) ==
  /\ call[c].at = "sign"
  /\ copy' = [copy EXCEPT ![call[c].reader][call[c].rule] =
                [status |-> "signed", viewed |-> call[c].viewed]]
  /\ Return(c)
  /\ UNCHANGED <<rule, late, signatures, keptPapers>>

\* from any status
RefuseRegulation(e, r) ==
  /\ MayRun("regulations") /\ copy[e][r].status # "none"
  /\ copy' = [copy EXCEPT ![e][r].status = "refused"]
  /\ UNCHANGED <<rule, late, signatures, keptPapers, call>>

-----------------------------------------------------------------------------
(* HrDocumentService: one await, or a transaction, for each operation *)

CreateDocument(d) ==
  /\ MayRun("papers") /\ paper[d].status = "none"
  /\ paper' = [paper EXCEPT ![d].status = "draft"]
  /\ UNCHANGED <<keptRules, sheet, sheets, call>>

\* to those named, or to all; a deleted draft too, the null condition is ignored
PublishDocument(d) ==
  /\ MayRun("papers") /\ paper[d].status = "draft"
  /\ \E given \in SUBSET Readers \ {{}}:
       /\ sheet' = [e \in Readers |-> IF e \in given THEN [sheet[e] EXCEPT ![d] = "pending"] ELSE sheet[e]]
       /\ sheets' = [e \in Readers |-> IF e \in given THEN [sheets[e] EXCEPT ![d] = @ + 1] ELSE sheets[e]]
  /\ paper' = [paper EXCEPT ![d].status = "active"]
  /\ UNCHANGED <<keptRules, call>>

\* the document of the sheet may be archived or deleted meanwhile
Mark(e, d, status) ==
  /\ MayRun("papers") /\ sheet[e][d] # "none"
  /\ sheet' = [sheet EXCEPT ![e][d] = status]
  /\ UNCHANGED <<keptRules, paper, sheets, call>>

ViewDocument(e, d) == Mark(e, d, IF sheet[e][d] = "pending" THEN "viewed" ELSE sheet[e][d])

AcknowledgeDocument(e, d) == d \in ToAcknowledge /\ Mark(e, d, "acknowledged")

SignDocument(e, d) == d \in ToSign /\ sheet[e][d] # "signed" /\ Mark(e, d, "signed")

RejectSheet(e, d) == Mark(e, d, "rejected")

\* from any status, a draft included
ArchiveDocument(d) ==
  /\ MayRun("papers") /\ paper[d].status # "none"
  /\ paper' = [paper EXCEPT ![d].status = "archived"]
  /\ UNCHANGED <<keptRules, sheet, sheets, call>>

DeleteDocument(d) ==
  /\ MayRun("papers") /\ paper[d].status # "none"
  /\ paper' = [paper EXCEPT ![d].deleted = TRUE]
  /\ UNCHANGED <<keptRules, sheet, sheets, call>>

-----------------------------------------------------------------------------
RegulationController ==
  \/ \E r \in Rules:
       \/ CreateRegulation(r) \/ DeadlinePasses(r)
       \/ \E c \in Clients: BeginPublish(c, r)
       \/ \E e \in Readers:
            \/ MarkAsViewed(e, r) \/ RefuseLateSignature(e, r) \/ RefuseRegulation(e, r)
            \/ \E c \in Clients: BeginSign(c, e, r)
  \/ \E c \in Clients:
       ArchiveActive(c) \/ Activate(c) \/ AssignToAllEmployees(c) \/ FinishSign(c)

HrDocumentController ==
  \E d \in Papers:
    \/ CreateDocument(d) \/ PublishDocument(d) \/ ArchiveDocument(d) \/ DeleteDocument(d)
    \/ \E e \in Readers:
         \/ ViewDocument(e, d) \/ AcknowledgeDocument(e, d)
         \/ SignDocument(e, d) \/ RejectSheet(e, d)

RegulationNext == RegulationController \/ HrDocumentController

-----------------------------------------------------------------------------
(* Properties *)

\* Calls made one after the other leave one regulation in force, handed to everybody, and
\* one sheet of a document with an employee (regulation.service.ts:89-119,
\* hr-document.service.ts:101-139).
OneInForce ==
  "regulations" \notin Overlapping =>
    /\ Cardinality({r \in Rules: rule[r] = "active"}) <= 1
    /\ Quiet => \A r \in Rules: rule[r] = "active" => \A e \in Readers: copy[e][r].status # "none"
    /\ \A e \in Readers: \A d \in Papers: sheets[e][d] <= 1
=============================================================================
