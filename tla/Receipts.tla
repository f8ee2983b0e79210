------------------------------ MODULE Receipts ------------------------------
(***************************************************************************)
(* Receipts (ReceiptService), on top of documents and templates.           *)
(*                                                                         *)
(* issue_receipt takes a number from the sequence, renders the PDF with    *)
(* the template in force, has DocumentService upload and commit it as a    *)
(* document, and inserts the receipt row in a second transaction.  POST    *)
(* /payments/ commits the payment and then issues its first receipt in the *)
(* same request; a reprint is another call.  Payments and documents can be *)
(* deleted, and documents replaced, at any time.                           *)
(***************************************************************************)
EXTENDS DocumentStorage, ReceiptTemplates, Naturals

CONSTANTS
    Payments,       \* payment ids (a bound on the payments ever recorded)
    NoPayment,      \* the payment of a client that issues nothing
    PropertyOf,     \* the property of each payment's contract
    MaxNumber       \* a bound on the numbers taken from the sequence

ASSUME PropertyAssumption == PropertyOf \in [Payments -> Scopes \ {Global}]
ASSUME NumberAssumption == MaxNumber \in Nat
ASSUME NoPaymentAssumption == NoPayment \notin Payments

VARIABLES
    payment,    \* the payments table: "none", "live" or "deleted"
    receipts,   \* the receipts table
    sequence,   \* the last number taken from the sequence
    issue,      \* the issuance of each client
    printed,    \* history: the number on the PDF issue_receipt made for each document, or 0
    answer      \* history: how POST /payments/ ended for each payment

receiptVars == <<payment, receipts, sequence, issue, printed, answer>>
allVars == <<vars, templateVars, receiptVars>>

-----------------------------------------------------------------------------

Receipt == [number: 1..MaxNumber, payment: Payments, doc: Docs]

\* posted: the issuance is part of POST /payments/.
Issuance ==
    [step: {"idle", "posted", "numbered", "uploading", "filed"},
     payment: Payments \cup {NoPayment}, number: 0..MaxNumber,
     doc: Docs \cup {NoDoc}, posted: BOOLEAN]

NoIssuance ==
    [step |-> "idle", payment |-> NoPayment, number |-> 0, doc |-> NoDoc, posted |-> FALSE]

Receipted == {r.doc : r \in receipts}
Idling(c) == issue[c].step = "idle" /\ tx[c].step = "idle"

\* The issuance ends; expired says that a rollback has expired the objects of the
\* session.  The handler of POST /payments/ logs payment.id, which then raises too.
EndIssue(c, expired) ==
    /\ issue' = [issue EXCEPT ![c] = NoIssuance]
    /\ answer' = IF ~issue[c].posted THEN answer
                 ELSE [answer EXCEPT ![issue[c].payment] = IF expired THEN "500" ELSE "201"]

-----------------------------------------------------------------------------

\* POST /payments/, first half: create_payment commits.
RecordPayment(c, p) ==
    /\ Idling(c)
    /\ payment[p] = "none"
    /\ payment' = [payment EXCEPT ![p] = "live"]
    /\ issue' = [issue EXCEPT ![c] = [NoIssuance EXCEPT !.step = "posted", !.payment = p,
                                                        !.posted = TRUE]]
    /\ UNCHANGED <<receipts, sequence, printed, answer, vars, templateVars>>

\* Bug: a payment with receipts is deleted.
DeletePaymentAnytime(p) ==
    /\ payment[p] = "live"
    /\ payment' = [payment EXCEPT ![p] = "deleted"]
    /\ UNCHANGED <<receipts, sequence, issue, printed, answer, vars, templateVars>>

\* delete_payment: the foreign key of receipts keeps a payment that has one.
DeletePayment(p) ==
    /\ payment[p] = "live"
    /\ \A r \in receipts : r.payment # p
    /\ payment' = [payment EXCEPT ![p] = "deleted"]
    /\ UNCHANGED <<receipts, sequence, issue, printed, answer, vars, templateVars>>

\* Bug: the number is one more than the largest in the table.
next_receipt_number_max == 1 + Cardinality(receipts)

\* nextval: no transaction returns the number.
next_receipt_number == sequence + 1

\* The payment and its contract, property and tenant are loaded, the number is taken.
TakeNumber(c, p) ==
    /\ \/ issue[c].step = "posted" /\ issue[c].payment = p
       \/ Idling(c)
    /\ payment[p] = "live"
    /\ next_receipt_number <= MaxNumber
    /\ sequence' = sequence + 1
    /\ issue' = [issue EXCEPT ![c].step = "numbered", ![c].payment = p,
                              ![c].number = next_receipt_number]
    /\ UNCHANGED <<payment, receipts, printed, answer, vars, templateVars>>

\* The payment just recorded has been deleted already.
PaymentGone(c) ==
    /\ issue[c].step = "posted"
    /\ payment[issue[c].payment] # "live"
    /\ EndIssue(c, FALSE)
    /\ UNCHANGED <<payment, receipts, sequence, printed, vars, templateVars>>

\* resolve_active_template_html: the property's own, else the global one, else the
\* built-in default.
ResolveTemplate(p) ==
    IF get_active(PropertyOf[p]) # NoTemplate THEN get_active(PropertyOf[p])
    ELSE get_active(Global)

Readable(t) == t = NoTemplate \/ t \in html

\* The PDF is rendered and create_document uploads it.
RenderAndUpload(c, d, name, u) ==
    /\ issue[c].step = "numbered"
    /\ Readable(ResolveTemplate(issue[c].payment))
    /\ UploadNew(c, d, name, u)
    /\ issue' = [issue EXCEPT ![c].step = "uploading", ![c].doc = d]
    /\ printed' = [printed EXCEPT ![d] = issue[c].number]
    /\ UNCHANGED <<payment, receipts, sequence, answer, templateVars>>

\* The template cannot be read, it does not render, or the upload fails before storing.
RenderFails(c) ==
    /\ issue[c].step = "numbered"
    /\ "storage" \in Faults \/ ~Readable(ResolveTemplate(issue[c].payment))
    /\ EndIssue(c, FALSE)
    /\ UNCHANGED <<payment, receipts, sequence, printed, vars, templateVars>>

\* The upload raises although the PDF was stored, with its number on it.
RenderStranded(c, d, name, u) ==
    /\ issue[c].step = "numbered"
    /\ Readable(ResolveTemplate(issue[c].payment))
    /\ UploadStranded(c, d, name, u)
    /\ printed' = [printed EXCEPT ![d] = issue[c].number]
    /\ EndIssue(c, FALSE)
    /\ UNCHANGED <<payment, receipts, sequence, templateVars>>

\* create_document commits the document.
FileDocument(c) ==
    /\ issue[c].step = "uploading"
    /\ CommitNew(c)
    /\ issue' = [issue EXCEPT ![c].step = "filed"]
    /\ UNCHANGED <<payment, receipts, sequence, printed, answer, templateVars>>

FilingFails(c) ==
    /\ issue[c].step = "uploading"
    /\ NewFails(c) \/ NewLost(c)
    /\ EndIssue(c, TRUE)
    /\ UNCHANGED <<payment, receipts, sequence, printed, templateVars>>

\* receipts.payment_id and receipts.document_id.
ForeignKeysAdmit(s) == payment[s.payment] = "live" /\ Live(s.doc)

InsertReceipt(c) ==
    LET s == issue[c] IN
    /\ s.step = "filed"
    /\ ForeignKeysAdmit(s)
    /\ receipts' = receipts \cup {[number |-> s.number, payment |-> s.payment, doc |-> s.doc]}
    /\ EndIssue(c, FALSE)
    /\ UNCHANGED <<payment, sequence, printed, vars, templateVars>>

\* The insert or the commit fails.  The critical log line names payment.id, which the
\* rollback has expired: it raises instead of logging.
InsertFails(c) ==
    /\ issue[c].step = "filed"
    /\ "database" \in Faults \/ ~ForeignKeysAdmit(issue[c])
    /\ EndIssue(c, TRUE)
    /\ UNCHANGED <<payment, receipts, sequence, printed, vars, templateVars>>

\* The same when the commit did take effect.
InsertLost(c) ==
    LET s == issue[c] IN
    /\ s.step = "filed"
    /\ "lost" \in Faults
    /\ ForeignKeysAdmit(s)
    /\ receipts' = receipts \cup {[number |-> s.number, payment |-> s.payment, doc |-> s.doc]}
    /\ EndIssue(c, TRUE)
    /\ UNCHANGED <<payment, sequence, printed, vars, templateVars>>

\* The process stops while a receipt is issued.
IssueCrash(c) ==
    /\ issue[c].step # "idle"
    /\ "crash" \in Faults
    /\ issue' = [issue EXCEPT ![c] = NoIssuance]
    /\ IF tx[c].step = "idle" THEN UNCHANGED vars ELSE Crash(c)
    /\ UNCHANGED <<payment, receipts, sequence, printed, answer, templateVars>>

\* Requests on the documents of receipts, by clients that issue nothing.
DocumentRequest(c) ==
    /\ issue[c].step = "idle"
    /\ ReplaceStep(c) \/ DeleteStep(c, Receipted) \/ Crash(c)
    /\ UNCHANGED <<receiptVars, templateVars>>

-----------------------------------------------------------------------------

ReceiptInit ==
    /\ Init
    /\ TemplateInit
    /\ payment = [p \in Payments |-> "none"]
    /\ receipts = {}
    /\ sequence = 0
    /\ issue = [c \in Clients |-> NoIssuance]
    /\ printed = [d \in Docs |-> 0]
    /\ answer = [p \in Payments |-> "none"]

IssueStep(c) ==
    \/ \E p \in Payments : RecordPayment(c, p) \/ TakeNumber(c, p)
    \/ \E d \in Docs, name \in Names, u \in Uploads :
           RenderAndUpload(c, d, name, u) \/ RenderStranded(c, d, name, u)
    \/ PaymentGone(c) \/ RenderFails(c) \/ FileDocument(c) \/ FilingFails(c)
    \/ InsertReceipt(c) \/ InsertFails(c) \/ InsertLost(c) \/ IssueCrash(c)

\* The steps while the clients of cs and the managers of ms are at work.
ReceiptWork(cs, ms) ==
    \/ \E p \in Payments : DeletePayment(p)
    \/ \E c \in cs : IssueStep(c) \/ DocumentRequest(c)
    \/ \E m \in ms : TemplateStep(m) /\ UNCHANGED <<vars, receiptVars>>

ReceiptNext == ReceiptWork(Clients, Managers)

ReceiptSpec == ReceiptInit /\ [][ReceiptNext]_allVars

-----------------------------------------------------------------------------
(* Properties *)

\* The tables and requests of all three parts hold values of their types.
ReceiptTypeOK ==
    /\ TypeOK /\ TemplateTypeOK
    /\ payment \in [Payments -> {"none", "live", "deleted"}]
    /\ receipts \subseteq Receipt
    /\ sequence \in 0..MaxNumber
    /\ issue \in [Clients -> Issuance]
    /\ printed \in [Docs -> 0..MaxNumber]
    /\ answer \in [Payments -> {"none", "201", "500"}]

\* Documents, templates, payments and receipts hold values of their types, and a receipt
\* outlives nothing it refers to: its payment and its document are there, and no other
\* receipt has its document, whatever is deleted while it is issued.
ReceiptKeepsParents ==
    /\ ReceiptTypeOK
    /\ \A r \in receipts : payment[r.payment] = "live" /\ Live(r.doc)
    /\ \A r, s \in receipts : r.doc = s.doc => r = s

\* No two PDFs that issue_receipt made carry the same number, those of failed issuances
\* included, and the row of a receipt has the number of the PDF made for it.  A file that
\* a user puts in its place later is the user's, and printed does not follow it.
PrintedOnce ==
    /\ \A d, e \in Docs : printed[d] = printed[e] /\ printed[d] # 0 => d = e
    /\ \A r \in receipts : printed[r.doc] = r.number

\* The PDF of a receipt can be downloaded: while no other request is open on its
\* document and nothing went wrong on it, the object its row names is there.
ReceiptReadable ==
    \A r \in receipts :
        OpenOn(r.doc) = {} /\ mishap[r.doc] = {}
            => storage[RowKey(r.doc)] = document[r.doc].file /\ document[r.doc].file # NoFile

-----------------------------------------------------------------------------
(* What the documentation says of the program and the code does not keep *)

\* POST /payments/: "Receipt issuance failures are logged but do not fail this
\* response".
PaymentAnswered == \A p \in Payments : answer[p] # "500"
=============================================================================
