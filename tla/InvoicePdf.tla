----------------------------- MODULE InvoicePdf -----------------------------
(***************************************************************************)
(* The stored PDF of one invoice (billing GenerateInvoicePDF, DownloadPDF    *)
(* and the invoice:generate_pdf job ProcessPaid enqueues), beside the        *)
(* payment, the edits and the status changes of the row.  A generation reads *)
(* the row, puts the object and stores its key, in three steps.              *)
(***************************************************************************)
EXTENDS Naturals

CONSTANTS
    Runs,      \* the generations that may be under way at once
    MaxJobs,   \* bound: generation jobs queued
    MaxEdits   \* bound: changes of the invoice's amounts, dates and notes

VARIABLES
    row,     \* the invoice: status, edits so far, whether pdf_object_key is set
    lock,    \* the transaction holding the row: "free", "edit" or "pay"
    held,    \* what the payment's transaction will make visible
    edit,    \* the row an edit will write, with its number of edits
    object,  \* the stored PDF: what it shows
    gen,     \* each generation: the row it read and its next step
    queue,   \* invoice:generate_pdf jobs
    events   \* history: what kept the stored PDF behind the payment
vars == <<row, lock, held, edit, object, gen, queue, events>>

NoPdf == [status |-> "none", edits |-> 0]
Shown(r) == [status |-> r.status, edits |-> r.edits]
Idle == [at |-> "off", job |-> FALSE, read |-> NoPdf]
NewRow == [status |-> "unpaid", edits |-> 0, key |-> FALSE]
Init ==
    /\ row = NewRow /\ lock = "free" /\ held = NewRow /\ edit = NewRow
    /\ object = NoPdf /\ gen = [g \in Runs |-> Idle] /\ queue = 0 /\ events = {}

\* Mutant: the row is read without its lock.
ReadPlain == lock = "free" /\ UNCHANGED lock
\* GetByIDForUpdate: the row stays locked until the transaction ends.
GetByIDForUpdate == lock = "free" /\ lock' = "edit"

\* ApplyPayment marks the invoice paid and runs ProcessPaid before it commits.
ApplyPayment ==
    /\ row.status \in {"unpaid", "overdue"} /\ lock = "free"
    /\ lock' = "pay" /\ held' = [row EXCEPT !.status = "paid"]
    /\ UNCHANGED <<row, edit, object, gen, queue, events>>
\* Mutant: only a first PDF is generated.
EnqueueMissing == IF held.key THEN UNCHANGED queue ELSE queue' = queue + 1
\* The end of ProcessPaid: Enqueue, whose error is ignored.
Enqueue == queue < MaxJobs /\ queue' = queue + 1
ProcessPaid ==
    /\ lock = "pay" /\ held.status = "paid" /\ lock' = "paid"
    /\ \/ Enqueue /\ UNCHANGED events
       \/ UNCHANGED queue /\ events' = events \cup {"lost"}
    /\ UNCHANGED <<row, held, edit, object, gen>>
CommitPaid ==
    /\ lock = "paid" /\ lock' = "free" /\ row' = held /\ held' = NewRow
    /\ UNCHANGED <<edit, object, gen, queue, events>>
\* A failure after the enqueueing, the commit's included; the job stays queued.
Rollback ==
    /\ lock = "paid" /\ lock' = "free" /\ held' = NewRow
    /\ UNCHANGED <<row, edit, object, gen, queue, events>>

\* UpdateInvoice and ApplyLateFees: the whole row is written back, its key included.
UpdateInvoice ==
    /\ edit = NewRow /\ row.status \in {"unpaid", "overdue"} /\ row.edits < MaxEdits
    /\ GetByIDForUpdate /\ edit' = [row EXCEPT !.edits = @ + 1]
    /\ UNCHANGED <<row, held, object, gen, queue, events>>
Update ==
    /\ edit # NewRow /\ lock \in {"edit", "free"}
    /\ lock' = "free" /\ row' = edit /\ edit' = NewRow
    /\ UNCHANGED <<held, object, gen, queue, events>>
\* MarkOverdue, CancelInvoice and RefundInvoice: UpdateStatus touches no other column.
UpdateStatus ==
    /\ lock = "free"
    /\ \/ row.status = "unpaid" /\ row' = [row EXCEPT !.status = "overdue"]
       \/ row.status \in {"unpaid", "overdue"} /\ row' = [row EXCEPT !.status = "cancelled"]
       \/ row.status = "paid" /\ row' = [row EXCEPT !.status = "refunded"]
    /\ UNCHANGED <<lock, held, edit, object, gen, queue, events>>

\* The committed row, its items, the client and the settings.
ReadInvoice(g, job) == gen' = [gen EXCEPT ![g] = [at |-> "put", job |-> job, read |-> Shown(row)]]
\* A worker takes the job; one taken before the payment's commit reads an open invoice.
GenerateJob(g) ==
    /\ gen[g] = Idle /\ queue > 0 /\ queue' = queue - 1 /\ ReadInvoice(g, TRUE)
    /\ events' = events \cup (IF lock = "paid" THEN {"early"} ELSE {})
    /\ UNCHANGED <<row, lock, held, edit, object>>
DownloadPDF(g) ==
    /\ gen[g] = Idle /\ ~row.key /\ ReadInvoice(g, FALSE)
    /\ UNCHANGED <<row, lock, held, edit, object, queue, events>>
\* Mutant: the key is stored first.
KeyFirst(g) ==
    /\ row' = [row EXCEPT !.key = TRUE] /\ lock = "free"
    /\ gen' = [gen EXCEPT ![g].at = "key"] /\ UNCHANGED <<lock, held, edit, object, queue, events>>
\* Put overwrites whatever was stored, also a newer PDF.
PutObject(g) ==
    /\ object' = gen[g].read /\ gen' = [gen EXCEPT ![g].at = "key"]
    /\ events' = events \cup
         (IF object.status = "paid" /\ gen[g].read.status # "paid" THEN {"crossed"} ELSE {})
    /\ UNCHANGED <<row, lock, held, edit, queue>>
Put(g) == gen[g].at = "put" /\ PutObject(g)
SetPDFObjectKey(g) ==
    /\ gen[g].at = "key" /\ lock = "free"
    /\ row' = [row EXCEPT !.key = TRUE] /\ gen' = [gen EXCEPT ![g] = Idle]
    /\ UNCHANGED <<lock, held, edit, object, queue, events>>
\* Rendering or storing fails: a download reports it, a job is tried again until it
\* has no attempt left.
GenerateFails(g) ==
    /\ gen[g].at \in {"put", "key"} /\ gen' = [gen EXCEPT ![g] = Idle]
    /\ \/ ~gen[g].job /\ UNCHANGED <<queue, events>>
       \/ gen[g].job /\ Enqueue /\ UNCHANGED events
       \/ gen[g].job /\ UNCHANGED queue /\ events' = events \cup {"lost"}
    /\ UNCHANGED <<row, lock, held, edit, object>>

Next ==
    \/ ApplyPayment \/ ProcessPaid \/ CommitPaid \/ Rollback
    \/ UpdateInvoice \/ Update \/ UpdateStatus
    \/ \E g \in Runs :
         GenerateJob(g) \/ DownloadPDF(g) \/ Put(g) \/ SetPDFObjectKey(g) \/ GenerateFails(g)
Spec == Init /\ [][Next]_vars

-----------------------------------------------------------------------------
(* Properties.                                                             *)

\* ProcessPaid enqueues the PDF whatever is stored: once no generation is queued or
\* under way, a paid invoice is downloaded as paid - unless the job was lost or started
\* before the payment's commit, or a generation that read the open invoice put its
\* object last.
PaidIsShown ==
    (row.status = "paid" /\ queue = 0 /\ events = {} /\ \A g \in Runs : gen[g] = Idle)
    => object.status = "paid" /\ row.key

\* GenerateInvoicePDF puts before it stores the key: a key always names a stored object.
KeyHasObject == row.key => object # NoPdf

\* Update writes the whole row from a locked read, so an edit never takes back the key
\* a generation stored meanwhile.
KeyStep == row.key => row'.key
KeyStays == [][KeyStep]_vars
=============================================================================
