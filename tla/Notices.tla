------------------------------ MODULE Notices ------------------------------
(***************************************************************************)
(* Announcements and network status entries (modules/announcements,          *)
(* modules/networkstatus): rows with a time stamp that goes with a state,     *)
(* loaded, changed and written back whole by administrators side by side.    *)
(***************************************************************************)
EXTENDS Naturals

CONSTANTS
    Requests,  \* bound: the requests handled at the same time
    MaxTime    \* bound: the clock

VARIABLES
    notice,   \* the announcements row
    issue,    \* the network_issues row
    now,      \* the clock
    request,  \* the requests being handled
    events    \* history: what happened that weakens a guarantee
vars == <<notice, issue, now, request, events>>

None == 0
Statuses == {"investigating", "monitoring", "resolved"}
NoNotice == [published |-> FALSE, publishedAt |-> None, deleted |-> FALSE]
NoIssue == [status |-> "investigating", endsAt |-> None, deleted |-> FALSE]
Idle == [at |-> "off", notice |-> NoNotice, issue |-> NoIssue, read |-> None]

At(r, p) == request[r].at = p
Done(r) == request' = [request EXCEPT ![r] = Idle]

-----------------------------------------------------------------------------
(* Announcements.                                                          *)

\* Mutant: every publication is stamped.
Restamp(row, p) == IF p THEN now ELSE row.publishedAt
\* "Publishing for the first time stamps published_at; un-publishing keeps it".
Stamp(row, p) == IF p /\ row.publishedAt = None THEN now ELSE row.publishedAt
Published(row, p) == [row EXCEPT !.published = p, !.publishedAt = Stamp(row, p)]

\* Create, with the switch on or off.
CreateAnnouncement(p) == Published(NoNotice, p)
UpdateAnnouncement(r, p) ==
    /\ At(r, "off") /\ ~notice.deleted
    /\ request' = [request EXCEPT ![r] = [Idle EXCEPT !.at = "notice", !.notice = Published(notice, p),
                                                      !.read = notice.publishedAt]]
    /\ UNCHANGED <<notice, issue, now, events>>
\* Mutant: the switch alone is written.
SwitchOnly(row) == IF notice.deleted THEN notice ELSE [notice EXCEPT !.published = row.published]
\* Repo.Update ... WHERE deleted_at IS NULL.
WriteAnnouncement(row) == IF notice.deleted THEN notice ELSE row
SaveAnnouncement(r) ==
    /\ At(r, "notice") /\ Done(r)
    /\ notice' = WriteAnnouncement(request[r].notice)
    /\ events' = IF request[r].read # notice.publishedAt THEN events \cup {"together"} ELSE events
    /\ UNCHANGED <<issue, now>>
DeleteAnnouncement ==
    /\ ~notice.deleted /\ notice' = [notice EXCEPT !.deleted = TRUE]
    /\ UNCHANGED <<issue, now, request, events>>
\* GetPublishedBySlug and ListPublished.
PublicAnnouncement == ~notice.deleted /\ notice.published /\ notice.publishedAt # None /\ notice.publishedAt <= now

-----------------------------------------------------------------------------
(* Network status.                                                         *)

\* Mutant: the end is cleared after it was filled in.
ClearLast(row, s, clear, ends) ==
    LET e == IF ends # None THEN ends ELSE row.endsAt
    IN  [row EXCEPT !.status = s,
                    !.endsAt = IF clear THEN None ELSE IF s = "resolved" /\ e = None THEN now ELSE e]
\* Create and Update: clear_ends or a given end first, then a resolved entry
\* without one ends now.
Changed(row, s, clear, ends) ==
    LET e == IF clear THEN None ELSE IF ends # None THEN ends ELSE row.endsAt
    IN  [row EXCEPT !.status = s, !.endsAt = IF s = "resolved" /\ e = None THEN now ELSE e]
UpdateIssue(r, s, clear, ends) ==
    /\ At(r, "off") /\ ~issue.deleted
    /\ request' = [request EXCEPT ![r] = [Idle EXCEPT !.at = "issue", !.issue = Changed(issue, s, clear, ends)]]
    /\ UNCHANGED <<notice, issue, now, events>>
WriteIssue(row) == IF issue.deleted THEN issue ELSE row
SaveIssue(r) ==
    /\ At(r, "issue") /\ Done(r)
    /\ issue' = WriteIssue(request[r].issue)
    /\ UNCHANGED <<notice, now, events>>
DeleteIssue ==
    /\ ~issue.deleted /\ issue' = [issue EXCEPT !.deleted = TRUE]
    /\ UNCHANGED <<notice, now, request, events>>

Tick == now < MaxTime /\ now' = now + 1 /\ UNCHANGED <<notice, issue, request, events>>

Init ==
    /\ now = 1
    /\ notice \in {CreateAnnouncement(p) : p \in BOOLEAN}
    /\ issue \in {Changed(NoIssue, s, FALSE, None) : s \in Statuses}
    /\ request = [r \in Requests |-> Idle]
    /\ events = {}
Next ==
    \/ \E r \in Requests :
         \/ SaveAnnouncement(r) \/ SaveIssue(r)
         \/ \E p \in BOOLEAN : UpdateAnnouncement(r, p)
         \/ \E s \in Statuses, clear \in BOOLEAN, ends \in {None, now} : UpdateIssue(r, s, clear, ends)
    \/ DeleteAnnouncement \/ DeleteIssue \/ Tick
Spec == Init /\ [][Next]_vars

-----------------------------------------------------------------------------
(* Properties.                                                             *)

\* A published announcement is visible: its stamp is set and not in the future,
\* whatever edits overwrote each other.
PublishedIsVisible == notice.published /\ ~notice.deleted => PublicAnnouncement

\* "Publishing for the first time stamps published_at; un-publishing keeps the
\* original publish time": the stamp never moves, unless two edits that both
\* found the announcement unpublished were written one over the other.
StampStep == notice.publishedAt # None => notice'.publishedAt = notice.publishedAt \/ "together" \in events'
StampStays == [][StampStep]_vars

\* "Moving it to resolved fills EndsAt": ListActive can age a resolved entry by
\* its end, also when clear_ends and overlapping edits are involved.
ResolvedHasEnd == issue.status = "resolved" => issue.endsAt # None
=============================================================================
