------------------------------ MODULE Tickets ------------------------------
(***************************************************************************)
(* Support tickets (modules/tickets): a client's ticket, its thread of        *)
(* replies and internal notes with their attachments, and the departments.   *)
(* A request loads the ticket row, opens a transaction in which it uploads    *)
(* its file and writes the whole row back; requests run side by side.        *)
(***************************************************************************)
EXTENDS Naturals, Sequences, SequencesExt

CONSTANTS
    Depts,       \* the departments
    Requests,    \* bound: the requests handled at the same time
    MaxReplies   \* bound: the replies whose transaction is opened

VARIABLES
    depts,    \* ticket_departments: "active", "inactive" or "deleted"
    ticket,   \* the tickets row, NoTicket before it is opened
    replies,  \* ticket_replies, in the order of commit, one attachment each
    stored,   \* the objects in storage, by number of their reply
    clock,    \* the transactions begun: the time now() of the next one
    shown,    \* the attachments a reader was last shown, and in which view
    request,  \* the requests being handled
    events    \* history: what happened that weakens a guarantee
vars == <<depts, ticket, replies, stored, clock, shown, request, events>>

Views == {"client", "staff"}
NoTicket == [status |-> "none", dept |-> "none", closedAt |-> FALSE]
Idle == [at |-> "off", row |-> NoTicket, begun |-> 0, internal |-> FALSE, by |-> "none"]

Init ==
    /\ depts = [d \in Depts |-> "active"]
    /\ ticket = NoTicket
    /\ replies = << >> /\ stored = {} /\ clock = 0
    /\ shown = [view |-> "client", list |-> << >>]
    /\ request = [r \in Requests |-> Idle]
    /\ events = {}

When(b, e) == IF b THEN {e} ELSE {}
At(r, p) == request[r].at = p
Opened == ticket.status # "none"
Done(r) == request' = [request EXCEPT ![r] = Idle]
\* Between loading the row and writing it back, another request got in.
Crossed(r) == When(request[r].row # ticket, "overwrote")

-----------------------------------------------------------------------------
(* Repository.                                                             *)

\* Update: every mutable column, from the row that was loaded.
Update(row) == ticket' = row

\* Mutant: internal notes in every view.
ListAll(v) == [i \in 1..Len(replies) |-> replies[i]]
\* Mutant: in the order of insertion, newest first.
ListNewest(v) == Reverse(SelectSeq(replies, LAMBDA p : v = "staff" \/ ~p.internal))
\* ListReplies: the thread by created_at, which is the start of the transaction
\* that inserted the reply; internal notes only for the staff.
ListReplies(v) ==
    SortSeq(SelectSeq(replies, LAMBDA p : v = "staff" \/ ~p.internal),
            LAMBDA p, q : p.created < q.created)

\* Mutant: no foreign key.
DeleteAny(d) == TRUE
\* DeleteDepartment: the foreign key of the tickets refuses it.
Deletable(d) == ticket.dept # d

-----------------------------------------------------------------------------
(* Opening a ticket.                                                       *)

\* CreateTicket and CreateGuestTicket: the department must be an active one.
CreateTicket(r, d) ==
    /\ At(r, "off") /\ ~Opened /\ depts[d] = "active"
    /\ request' = [request EXCEPT ![r] = [Idle EXCEPT !.at = "open", !.row.dept = d]]
    /\ UNCHANGED <<depts, ticket, replies, stored, clock, shown, events>>

\* The transaction: number, ticket, object, first reply.  A department deleted
\* meanwhile violates the key; an upload that fails rolls everything back.
InsertTicket(r) ==
    /\ At(r, "open") /\ ~Opened /\ clock < MaxReplies
    /\ clock' = clock + 1 /\ Done(r)
    /\ \/ /\ depts[request[r].row.dept] # "deleted"
          /\ ticket' = [NoTicket EXCEPT !.status = "open", !.dept = request[r].row.dept]
          /\ stored' = stored \cup {clock'}
          /\ replies' = Append(replies, [created |-> clock', internal |-> FALSE])
       \/ UNCHANGED <<ticket, stored, replies>>
    /\ UNCHANGED <<depts, shown, events>>

-----------------------------------------------------------------------------
(* Replies.                                                                *)

\* Mutant: closed tickets take replies.
ReplyAlways(row, internal) == TRUE
\* ReplyMine and AdminReply: "ticket is closed", except for an internal note.
MayReply(row, internal) == row.status # "closed" \/ internal

Load(r, by, internal) ==
    /\ At(r, "off") /\ Opened
    /\ request' = [request EXCEPT ![r] =
            [Idle EXCEPT !.at = by, !.row = IF internal THEN NoTicket ELSE ticket, !.by = by, !.internal = internal]]
    /\ UNCHANGED <<depts, ticket, replies, stored, clock, shown, events>>
ReplyMine(r) == MayReply(ticket, FALSE) /\ Load(r, "customer_reply", FALSE)
AdminReply(r, internal) == MayReply(ticket, internal) /\ Load(r, "answered", internal)

\* The transaction begins; what it inserts is dated now.
Begin(r) ==
    /\ request[r].at \in {"customer_reply", "answered"} /\ clock < MaxReplies
    /\ clock' = clock + 1
    /\ request' = [request EXCEPT ![r].at = "upload", ![r].begun = clock']
    /\ events' = events \cup When(\E q \in Requests : request[q].begun # 0, "together")
    /\ UNCHANGED <<depts, ticket, replies, stored, shown>>

\* Mutant: a failed upload is overlooked.
PutAnyway(r) ==
    /\ At(r, "upload")
    /\ stored' \in {stored, stored \cup {request[r].begun}}
    /\ request' = [request EXCEPT ![r].at = "reply"]
    /\ UNCHANGED <<depts, ticket, replies, clock, shown, events>>
\* storeAttachments: the object first; when that fails, nothing is written.
storeAttachments(r) ==
    /\ At(r, "upload")
    /\ \/ /\ stored' = stored \cup {request[r].begun}
          /\ request' = [request EXCEPT ![r].at = "reply"]
       \/ /\ Done(r) /\ UNCHANGED stored
    /\ UNCHANGED <<depts, ticket, replies, clock, shown, events>>

\* AddReply and, for what is not internal, the row with its new status; commit,
\* or roll back and leave the object behind.
AddReply(r) ==
    LET q == request[r]
    IN  /\ At(r, "reply") /\ Done(r)
        /\ \/ /\ replies' = Append(replies, [created |-> q.begun, internal |-> q.internal])
              /\ IF q.internal THEN UNCHANGED <<ticket, events>>
                 ELSE Update([q.row EXCEPT !.status = q.by]) /\ events' = events \cup Crossed(r)
           \/ UNCHANGED <<replies, ticket, events>>
        /\ UNCHANGED <<depts, stored, clock, shown>>

-----------------------------------------------------------------------------
(* Staff operations and closing: load, change, write the row.              *)

\* Mutant: the stamp stays when a ticket is reopened.
KeepStamp(row, to) == [row EXCEPT !.status = to, !.closedAt = @ \/ to = "closed"]
\* SetStatus: closed_at is set on close and cleared on reopen.
SetStatus(row, to) == [row EXCEPT !.status = to, !.closedAt = (to = "closed")]
\* close: from any status but closed.
close(row) == [row EXCEPT !.status = "closed", !.closedAt = TRUE]
\* Assign and SetPriority: columns of their own, but the others go with them.
Assign(row) == row
SetPriority(row) == row

Changed(row) ==
    UNION {{SetStatus(row, to) : to \in {"on_hold", "closed"} \ {row.status}},
           IF row.status = "closed" THEN {} ELSE {close(row)},
           {Assign(row), SetPriority(row)}}
Change(r, row) ==
    /\ At(r, "off") /\ Opened
    /\ request' = [request EXCEPT ![r] = [Idle EXCEPT !.at = "change", !.row = row]]
    /\ UNCHANGED <<depts, ticket, replies, stored, clock, shown, events>>
Write(r) ==
    /\ At(r, "change") /\ Update(request[r].row) /\ Done(r)
    /\ UNCHANGED <<depts, replies, stored, clock, shown, events>>

-----------------------------------------------------------------------------
(* Reading: detail numbers the attachments of the visible thread, and        *)
(* AttachmentURL resolves such a number later.                              *)

Attachments(v) == ListReplies(v)
detail(v) ==
    /\ Opened /\ shown' = [view |-> v, list |-> Attachments(v)]
    /\ UNCHANGED <<depts, ticket, replies, stored, clock, request, events>>
AttachmentURL(v, i) == Attachments(v)[i]

-----------------------------------------------------------------------------
(* Departments.                                                            *)

UpdateDepartment(d) ==
    /\ depts[d] # "deleted"
    /\ depts' = [depts EXCEPT ![d] = IF @ = "active" THEN "inactive" ELSE "active"]
    /\ UNCHANGED <<ticket, replies, stored, clock, shown, request, events>>
DeleteDepartment(d) ==
    /\ depts[d] # "deleted" /\ Deletable(d)
    /\ depts' = [depts EXCEPT ![d] = "deleted"]
    /\ UNCHANGED <<ticket, replies, stored, clock, shown, request, events>>

Next ==
    \/ \E r \in Requests :
         \/ \E d \in Depts : CreateTicket(r, d)
         \/ InsertTicket(r) \/ Begin(r) \/ storeAttachments(r) \/ AddReply(r) \/ Write(r)
         \/ ReplyMine(r) \/ (\E n \in BOOLEAN : AdminReply(r, n))
         \/ \E row \in Changed(ticket) : Change(r, row)
    \/ \E v \in Views : detail(v)
    \/ \E d \in Depts : UpdateDepartment(d) \/ DeleteDepartment(d)
Spec == Init /\ [][Next]_vars

-----------------------------------------------------------------------------
(* Properties.                                                             *)

\* The status and its closed_at stamp agree whatever requests overwrite each
\* other, because Update writes both columns from one consistent row.
ClosedIsStamped == ticket.closedAt <=> ticket.status = "closed"

\* storeAttachments: whatever a reply lists is in storage, also when uploads
\* fail or transactions are rolled back.
FilesStored == \A i \in DOMAIN replies : replies[i].created \in stored

\* AttachmentURL: a number taken from the detail page resolves to the same
\* attachment later, as long as no two reply transactions were open together
\* (then the one begun first may be inserted in front of what was shown).
LinksHold ==
    "together" \notin events =>
        \A i \in DOMAIN shown.list : AttachmentURL(shown.view, i) = shown.list[i]

\* ListReplies: an internal note's attachment never reaches the client.
NotesHidden == shown.view = "client" => \A i \in DOMAIN shown.list : ~shown.list[i].internal

\* A ticket's department exists, also when it was deleted while the ticket was
\* being opened.
DepartmentExists == Opened => depts[ticket.dept] # "deleted"

\* "ticket is closed": a reply moves a closed ticket only if its request had
\* loaded the ticket before it was closed.
ClosedStep ==
    ticket.status = "closed" /\ Len(replies') > Len(replies) =>
        ticket'.status = "closed" \/ "overwrote" \in events'
ClosedRefuses == [][ClosedStep]_vars
=============================================================================
