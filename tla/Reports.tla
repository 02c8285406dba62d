------------------------------- MODULE Reports -------------------------------
(***************************************************************************)
(* Reports of content on their whole way: from a page (useModeration.ts,   *)
(* useAnonymousReport.ts, reportApi.ts) to /api/report of the site it is   *)
(* on, the edge worker's or its twin on Cloudflare Pages, and on to the    *)
(* ticket system; and the browser's own list of the reports made in it,    *)
(* that each tab's settings page shows (ModerationSettingsPage.tsx).       *)
(***************************************************************************)
EXTENDS Integers, Sequences, FiniteSets, Functions

CONSTANTS MaxKept,   \* how many reports the browser keeps (100)
          MaxReport  \* bounds the reports

VARIABLES
  site,     \* where the pages are
  calls,    \* the reports that were sent, with where they are
  tickets,  \* the ticket system's
  told,     \* what the visitor was told of each report
  stored,   \* content_reports of the browser
  shown,    \* what each tab has of it, or None
  fresh,    \* whether it thinks so still
  settings, \* the tabs that show the settings page
  made      \* the reports each tab has made, in order

vars == <<site, calls, tickets, told, stored, shown, fresh, settings, made>>

-----------------------------------------------------------------------------

Tab == {"t1", "t2"}
None == <<"none">>
Id == 1..MaxReport
Reason == {"csam", "spam"}
Site == {"apex", "subdomain", "preview", "localhost"}
Count == Len(calls)

Init ==
  /\ site \in Site
  /\ calls = << >> /\ tickets = {} /\ told = << >> /\ stored = << >>
  /\ shown = [t \in Tab |-> None] /\ fresh = [t \in Tab |-> FALSE]
  /\ settings = {} /\ made = [t \in Tab |-> << >>]

-----------------------------------------------------------------------------
(* The server. *)

\* The origins that may report; the twin does not know the development server's 8080.
isAllowedOrigin(at) ==
  CASE at = "edge" -> site \in {"apex", "localhost", "preview"}
    [] at = "pages" -> site \in {"apex", "preview"}

\* Who serves the page's own /api/report: a subdomain answers it with its user's page.
Serves == CASE site = "preview" -> "pages" [] site = "apex" -> "edge" [] OTHER -> "page"

getPriority(reason) == IF reason = "csam" THEN "urgent" ELSE "normal"

\* The ticket, for the reporter's key or e-mail.
Ticket(i) ==
  [id |-> i, requester |-> calls[i].reporter, priority |-> getPriority(calls[i].reason)]

\* What the server says once the ticket system has answered it.
Created == {"201"}

\* ... and what when that refuses or cannot be reached, or keys for it are missing.
Refused == {"502", "500"}

\* The request comes to the server, which asks the ticket system and answers: the answer
\* is under way.
HandleReport(i) ==
  /\ i \in 1..Count /\ calls[i].at = "sent"
  /\ \E answer \in Created \cup Refused \cup {"403", "html"} :
       /\ answer = "html" <=> Serves = "page"
       /\ answer = "403" => ~isAllowedOrigin(Serves)
       /\ calls' = [calls EXCEPT ![i].at = answer]
       /\ \/ answer \in Created /\ isAllowedOrigin(Serves)
             /\ tickets' = tickets \cup {Ticket(i)}
          \/ answer \in Refused \cup {"403", "html"} /\ UNCHANGED tickets
  /\ UNCHANGED <<site, told, stored, shown, fresh, settings, made>>

-----------------------------------------------------------------------------
(* The page. *)

Succeeds_Any(answer) == answer \in {"201", "502", "500", "403"}

\* The client's reading of the answer: an error for any status but a good one, and for
\* what is not JSON.
Succeeds(answer) == answer = "201"

\* The answer comes to the page, or is lost after the ticket was made. A user's report
\* does not wait for it.
Answered(i) ==
  /\ i \in 1..Count /\ calls[i].at \notin {"sent", "over"}
  /\ \E lost \in BOOLEAN :
       told' = IF calls[i].user THEN told
               ELSE [told EXCEPT ![i] = IF ~lost /\ Succeeds(calls[i].at) THEN "success" ELSE "error"]
  /\ calls' = [calls EXCEPT ![i].at = "over"]
  /\ UNCHANGED <<site, tickets, stored, shown, fresh, settings, made>>

\* A request that never gets there.
Lost(i) ==
  /\ i \in 1..Count /\ calls[i].at = "sent"
  /\ calls' = [calls EXCEPT ![i].at = "over"]
  /\ told' = IF calls[i].user THEN told ELSE [told EXCEPT ![i] = "error"]
  /\ UNCHANGED <<site, tickets, stored, shown, fresh, settings, made>>

Kept_Oldest(list) == SubSeq(list, 1, IF Len(list) < MaxKept THEN Len(list) ELSE MaxKept)

\* The last hundred stay.
Kept(list) == SubSeq(list, IF Len(list) < MaxKept THEN 1 ELSE Len(list) - MaxKept + 1, Len(list))

Renewed_Not(t) == fresh[t]

\* The tab's list is old now: the next settings page reads it again.
Renewed(t) == FALSE

\* A user's report: published and sent without waiting for either, kept, and told to be
\* a success.
Report(t, reason) ==
  /\ Count < MaxReport /\ t \notin settings
  /\ calls' = Append(calls, [at |-> "sent", user |-> TRUE, reporter |-> "key", reason |-> reason])
  /\ told' = Append(told, "success")
  /\ stored' = Kept(Append(stored, Count + 1))
  /\ made' = [made EXCEPT ![t] = Append(@, Count + 1)]
  /\ fresh' = [fresh EXCEPT ![t] = Renewed(t)]
  /\ UNCHANGED <<site, tickets, shown, settings>>

\* A visitor's, by an e-mail that looks like one; what is missing is said at once.
ReportAnonymously(reason, valid) ==
  /\ Count < MaxReport
  /\ calls' = Append(calls, [at |-> IF valid THEN "sent" ELSE "over", user |-> FALSE,
                             reporter |-> "mail", reason |-> reason])
  /\ told' = Append(told, IF valid THEN "waiting" ELSE "error")
  /\ UNCHANGED <<site, tickets, stored, shown, fresh, settings, made>>

\* The settings page comes; it reads the list if its tab has none, or one that it was
\* told is old.
Open(t) ==
  /\ t \notin settings
  /\ settings' = settings \cup {t}
  /\ shown' = [shown EXCEPT ![t] = IF fresh[t] THEN @ ELSE stored]
  /\ fresh' = [fresh EXCEPT ![t] = TRUE]
  /\ UNCHANGED <<site, calls, tickets, told, stored, made>>

Leave(t) ==
  /\ t \in settings /\ settings' = settings \ {t}
  /\ UNCHANGED <<site, calls, tickets, told, stored, shown, fresh, made>>

Next ==
  \/ \E i \in Id : HandleReport(i) \/ Answered(i) \/ Lost(i)
  \/ \E t \in Tab : Open(t) \/ Leave(t) \/ \E r \in Reason : Report(t, r)
  \/ \E r \in Reason, valid \in BOOLEAN : ReportAnonymously(r, valid)

Spec == Init /\ [][Next]_vars

-----------------------------------------------------------------------------
(* Properties. *)

\* How far a report is: on its way, answered so, or over.
At == {"sent", "over", "201", "502", "500", "403", "html"}

TypeOK ==
  /\ site \in Site /\ settings \subseteq Tab
  /\ \A i \in 1..Count : calls[i].at \in At
  /\ Len(told) = Count /\ \A i \in 1..Count : told[i] \in {"waiting", "success", "error"}
  /\ \A k \in tickets : k.id \in 1..Count
  /\ fresh \in [Tab -> BOOLEAN] /\ Len(stored) <= MaxKept

\* A visitor without an account who is told that the report was sent has a ticket in the
\* name of the e-mail, as urgent as the reason; through whatever failed on the way. (A
\* user is told so in any case.)
SentIsTicket ==
  \A i \in 1..Count :
    /\ ~calls[i].user /\ told[i] = "success" =>
         \E k \in tickets : k = [id |-> i, requester |-> "mail", priority |-> getPriority(calls[i].reason)]
    /\ \A k \in tickets : k.id = i /\ calls[i].user => k.requester = "key"

\* The history a settings page shows has each report its tab has made, unless as many as
\* the browser keeps were made after it, whatever other tabs report in between.
Later(i) == {j \in (i + 1)..Count : calls[j].user}
Has(list, i) == i \in Range(list) \/ Cardinality(Later(i)) >= MaxKept

HistoryIsShown == \A t \in settings : \A i \in Range(made[t]) : Has(shown[t], i)

-----------------------------------------------------------------------------
(* The inductive invariants of the two. *)

Call == [at : At, user : BOOLEAN, reporter : {"key", "mail"}, reason : Reason]

Typed == calls \in Seq(Call) /\ told \in Seq({"waiting", "success", "error"}) /\ Len(told) = Count

\* A report is made in the name of who makes it, and one that was taken has its ticket.
TicketInv ==
  /\ \A i \in 1..Count : /\ calls[i].reporter = IF calls[i].user THEN "key" ELSE "mail"
                         /\ calls[i].at = "201" => Ticket(i) \in tickets
                         /\ ~calls[i].user /\ told[i] = "success" => Ticket(i) \in tickets
  /\ \A k \in tickets : k.id \in 1..Count /\ k = Ticket(k.id)

\* The list has users' reports only, in their order, and has what a tab made, whether or
\* not that tab has read it since.
ListInv ==
  /\ stored \in Seq(Int) /\ Len(stored) <= MaxKept
  /\ \A k \in 1..Len(stored) : stored[k] \in 1..Count /\ calls[stored[k]].user
  /\ \A k, l \in 1..Len(stored) : k < l => stored[k] < stored[l]
  /\ made \in [Tab -> Seq(Int)] /\ fresh \in [Tab -> BOOLEAN] /\ DOMAIN shown = Tab
  /\ \A t \in Tab : \A i \in Range(made[t]) : i \in 1..Count /\ Has(stored, i)
  /\ \A t \in Tab : fresh[t] => \A i \in Range(made[t]) : Has(shown[t], i)
  /\ settings \subseteq {t \in Tab : fresh[t]}
=============================================================================
