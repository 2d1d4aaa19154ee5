----------------------------- MODULE Templates ------------------------------
(***************************************************************************)
(* The e-mail templates (notifications/service.go): a mail is rendered from   *)
(* the variant of its template in the reader's locale, or in the other one,    *)
(* and wrapped in the layout, found the same way.  Every lookup is a query of  *)
(* its own, and administrators write variants between them.                  *)
(***************************************************************************)
EXTENDS Integers, Sequences

CONSTANTS
    Senders,   \* the mails rendered at the same time
    MaxWrites  \* bound: writes of administrators

VARIABLES
    rows,    \* what is stored for each key and locale, "none" for nothing
    sender,  \* the mails being rendered
    writes,  \* how many writes there were
    events   \* history: what went wrong with a mail
vars == <<rows, sender, writes, events>>

Keys == {"mail", "layout"}
Locales == {"id", "en"}
\* What a variant is like: it renders, it parses and fails when it is executed, it
\* brings its own page (a mail), it has no slot for the body (a layout), it is no template.
Bodies(k) == {"good", "fails", "unparsed", IF k = "mail" THEN "page" ELSE "slotless"}
Off == [at |-> "off", key |-> "mail", left |-> << >>, met |-> FALSE, seen |-> FALSE]

Init ==
    /\ rows \in [Keys -> [Locales -> {"none", "good"}]]
    /\ sender = [s \in Senders |-> Off] /\ writes = 0 /\ events = {}

When(b, e) == IF b THEN {e} ELSE {}
Put(s, new) == sender' = [sender EXCEPT ![s] = new]
Stored(k) == {l \in Locales : rows[k][l] # "none"}

-----------------------------------------------------------------------------
(* Administrators.                                                         *)

\* Mutant: the slot of a layout is not asked for.
ParsesOnly(k, b) == b # "unparsed"
\* checkTemplateSyntax: it parses, and a layout has its slot.
checkTemplateSyntax(k, b) == b # "unparsed" /\ ~(k = "layout" /\ b = "slotless")
\* A write meets every lookup under way of the same key.
Write(k, l, b) ==
    /\ writes < MaxWrites /\ writes' = writes + 1
    /\ rows' = [rows EXCEPT ![k][l] = b]
    /\ sender' = [s \in Senders |-> [sender[s] EXCEPT !.met = @ \/ (sender[s].at = "find" /\ sender[s].key = k)]]
    /\ UNCHANGED events
SaveTemplate(k, l) == \E b \in Bodies(k) : checkTemplateSyntax(k, b) /\ Write(k, l, b)
DeleteTemplate(k, l) == rows[k][l] # "none" /\ Write(k, l, "none")

-----------------------------------------------------------------------------
(* Rendering a mail.                                                       *)

\* Mutant: only the preferred locale is looked up.
Preferred(l) == <<l>>
\* localeCandidates: the preferred locale, then the other one.
localeCandidates(l) == IF l = "en" THEN <<"en", "id">> ELSE <<"id", "en">>
SendTemplate(s) ==
    /\ sender[s].at = "off"
    /\ \E l \in Locales : Put(s, [Off EXCEPT !.at = "find", !.left = localeCandidates(l)])
    /\ UNCHANGED <<rows, writes, events>>

\* Executing what was found; a layout that fails is left out (wrapHTML), a mail that
\* fails is not sent (renderAll).  A page is not wrapped.
Render(s, k, l) ==
    LET b == rows[k][l]
    IN  CASE k = "mail" /\ b = "fails" -> Put(s, Off) /\ UNCHANGED events
          [] k = "mail" /\ b = "good" ->
               Put(s, [Off EXCEPT !.at = "find", !.key = "layout", !.left = localeCandidates(l)])
               /\ UNCHANGED events
          [] k = "layout" -> Put(s, Off) /\ events' = events \cup When(b = "slotless", "empty")
          [] OTHER -> Put(s, Off) /\ UNCHANGED events
\* loadTemplate, one candidate at a time; NOT_FOUND after the last.
loadTemplate(s) ==
    LET q == sender[s]
        k == q.key
    IN  /\ q.at = "find"
        /\ IF q.left = << >>
           THEN Put(s, Off) /\ events' = events \cup When(k = "mail" /\ q.seen /\ ~q.met, "unsent")
           ELSE LET l == Head(q.left)
                IN  IF rows[k][l] = "none"
                    THEN /\ Put(s, [q EXCEPT !.left = Tail(@), !.seen = @ \/ Stored(k) # {}])
                         /\ UNCHANGED events
                    ELSE Render(s, k, l)
        /\ UNCHANGED <<rows, writes>>

Next ==
    \/ \E s \in Senders : SendTemplate(s) \/ loadTemplate(s)
    \/ \E k \in Keys, l \in Locales : SaveTemplate(k, l) \/ DeleteTemplate(k, l)
Spec == Init /\ [][Next]_vars

-----------------------------------------------------------------------------
(* Properties.                                                             *)

\* "A layout without its content slot would silently blank out every outbound email":
\* no mail is queued without its body, whatever layouts are stored while it is rendered.
NeverEmpty == "empty" \notin events

\* loadTemplate answers "NOT_FOUND only when no locale variant exists at all": a mail
\* whose template has a variant is not given up, unless a variant was written or deleted
\* between the lookups.
FoundIfThere == "unsent" \notin events
=============================================================================
