----------------------------- MODULE ConsoleAdmin -----------------------------
(***************************************************************************)
(* The console's two pages for administrators. The admin page keeps the    *)
(* list of support admins, which it loads when the role is known and after *)
(* each addition, and filters after each removal. The support page looks a *)
(* user up and, for an imported user who has not claimed the account, asks *)
(* for the claim link there is, or has one made. Every request is answered *)
(* at its own pace.                                                        *)
(***************************************************************************)
EXTENDS Integers, FiniteSets

CONSTANTS
  Person,    \* those who are, or could be, support admins
  User,      \* the users one looks up
  Unclaimed, \* those imported and without an e-mail address
  MaxAct     \* bound: what the administrator does

VARIABLES
  admins,    \* server: the support admins
  links,     \* server: user -> the number of the newest claim link, 0 for none
  page,      \* "checking", "denied", "admin" or "support"
  list,      \* supportAdmins
  loading,   \* isLoadingSupportAdmins
  reads,     \* the list's requests: the one at the start and the one after an addition
  add,       \* addSupportAdmin under way
  removals,  \* removeSupportAdmin under way, by person
  result,    \* searchResult: the user shown
  searching, \* the search under way
  claim,     \* claimToken: whose link it is, and its number
  lookups,   \* loadClaimToken under way: a request of each user
  checking,  \* isLoadingClaimToken
  making,    \* generateClaimToken under way
  acts,
  calm,      \* history: no request for the list overlapped a change of it, and no answer
             \* to a change was lost
  patient    \* history: no search was begun while a claim link was asked for

vars == <<admins, links, page, list, loading, reads, add, removals, result, searching, claim,
          lookups, checking, making, acts, calm, patient>>

Nobody == "nobody"
Stage == {"idle", "sent", "served", "failed"}
Read == [at : Stage, list : SUBSET Person]
Unread == [at |-> "idle", list |-> {}]
Links == 0..MaxAct
Ask == [at : Stage, user : User \cup {Nobody}, link : Links]
NoAsk == [at |-> "idle", user |-> Nobody, link |-> 0]
NoClaim == [user |-> Nobody, link |-> 0]

TypeOK ==
  /\ admins \subseteq Person /\ links \in [User -> Links]
  /\ page \in {"checking", "denied", "admin", "support"}
  /\ list \subseteq Person /\ loading \in BOOLEAN /\ reads \in [{"first", "after"} -> Read]
  /\ add \in [at : Stage \cup {"reading"}, who : Person \cup {Nobody}]
  /\ removals \in [Person -> Stage]
  /\ result \in User \cup {Nobody} /\ searching \in User \cup {Nobody}
  /\ claim \in [user : User \cup {Nobody}, link : Links]
  /\ lookups \in [User -> Ask] /\ checking \in BOOLEAN /\ making \in Ask
  /\ acts \in 0..MaxAct /\ calm \in BOOLEAN /\ patient \in BOOLEAN

Init ==
  /\ admins \in SUBSET Person /\ links = [u \in User |-> 0] /\ page = "checking"
  /\ list = {} /\ loading = FALSE /\ reads = [r \in {"first", "after"} |-> Unread]
  /\ add = [at |-> "idle", who |-> Nobody] /\ removals = [p \in Person |-> "idle"]
  /\ result = Nobody /\ searching = Nobody /\ claim = NoClaim
  /\ lookups = [u \in User |-> NoAsk] /\ checking = FALSE /\ making = NoAsk
  /\ acts = 0 /\ calm = TRUE /\ patient = TRUE

server == <<admins, links>>
adminPage == <<list, loading, reads, add, removals>>
supportPage == <<result, searching, claim, lookups, checking, making>>
history == <<acts, calm, patient>>
Act == acts < MaxAct /\ acts' = acts + 1

-----------------------------------------------------------------------------
(* The list of support admins. *)

\* loadSupportAdmins
Reading(r) == loading' = TRUE /\ reads' = [reads EXCEPT ![r] = [at |-> "sent", list |-> {}]]

\* The role is known: a full admin's page loads the list, a support admin is sent to the
\* other page, anybody else away.
CheckAdminStatus ==
  /\ page = "checking"
  /\ \/ page' = "admin" /\ Reading("first")
     \/ page' \in {"support", "denied"} /\ UNCHANGED <<loading, reads>>
  /\ UNCHANGED <<server, list, add, removals, supportPage, history>>

AddSupportAdmin(p) ==
  /\ page = "admin" /\ add.at = "idle" /\ Act
  /\ add' = [at |-> "sent", who |-> p]
  /\ UNCHANGED <<server, page, list, loading, reads, removals, supportPage, calm, patient>>

\* The list is on the page while it is not being loaded.
RemoveSupportAdmin(p) ==
  /\ page = "admin" /\ ~loading /\ p \in list /\ removals[p] = "idle" /\ Act
  /\ removals' = [removals EXCEPT ![p] = "sent"]
  /\ UNCHANGED <<server, page, list, loading, reads, add, supportPage, calm, patient>>

ReadsOut == \E r \in DOMAIN reads : reads[r].at # "idle"

ServeRead(r) ==
  /\ reads[r].at = "sent"
  /\ \/ reads' = [reads EXCEPT ![r] = [at |-> "served", list |-> admins]]
     \/ reads' = [reads EXCEPT ![r].at = "failed"]
  /\ UNCHANGED <<server, page, list, loading, add, removals, supportPage, history>>

ServeAdd ==
  /\ add.at = "sent"
  /\ \/ add' = [add EXCEPT !.at = "served"] /\ admins' = admins \cup {add.who}
        /\ calm' = (calm /\ ~ReadsOut)
     \/ add' = [add EXCEPT !.at = "failed"] /\ UNCHANGED <<admins, calm>>
  /\ UNCHANGED <<links, page, list, loading, reads, removals, supportPage, acts, patient>>

ServeRemoval(p) ==
  /\ removals[p] = "sent"
  /\ \/ removals' = [removals EXCEPT ![p] = "served"] /\ admins' = admins \ {p}
        /\ calm' = (calm /\ ~ReadsOut)
     \/ removals' = [removals EXCEPT ![p] = "failed"] /\ UNCHANGED <<admins, calm>>
  /\ UNCHANGED <<links, page, list, loading, reads, add, supportPage, acts, patient>>

\* The answer to a change is lost after it was made, which the page takes for a failure.
ChangeLost ==
  /\ \/ add.at = "served" /\ add' = [add EXCEPT !.at = "failed"] /\ UNCHANGED removals
     \/ \E p \in Person : /\ removals[p] = "served" /\ removals' = [removals EXCEPT ![p] = "failed"]
                         /\ UNCHANGED add
  /\ calm' = FALSE
  /\ UNCHANGED <<server, page, list, loading, reads, supportPage, acts, patient>>

\* An answer replaces the list; a failure leaves it as it was. The form is usable again
\* once the request after an addition ends.
ListArrives(r) ==
  /\ reads[r].at \in {"served", "failed"}
  /\ list' = IF reads[r].at = "served" THEN reads[r].list ELSE list
  /\ calm' = (calm /\ reads[r].at = "served")
  /\ loading' = FALSE /\ reads' = [reads EXCEPT ![r] = Unread]
  /\ add' = IF r = "after" THEN [at |-> "idle", who |-> Nobody] ELSE add
  /\ UNCHANGED <<server, page, removals, supportPage, acts, patient>>

\* Mutant: the list is not loaded again.
Added_Only == loading' = loading /\ reads' = reads /\ calm' = calm
              /\ add' = [at |-> "idle", who |-> Nobody]

Added ==
  /\ Reading("after") /\ add' = [add EXCEPT !.at = "reading"]
  /\ calm' = (calm /\ \A p \in Person : removals[p] = "idle")

AddAnswered ==
  /\ \/ add.at = "served" /\ Added
     \/ add.at = "failed" /\ add' = [at |-> "idle", who |-> Nobody]
        /\ UNCHANGED <<loading, reads, calm>>
  /\ UNCHANGED <<server, page, list, removals, supportPage, acts, patient>>

RemovalAnswered(p) ==
  /\ removals[p] \in {"served", "failed"}
  /\ list' = IF removals[p] = "served" THEN list \ {p} ELSE list
  /\ removals' = [removals EXCEPT ![p] = "idle"]
  /\ UNCHANGED <<server, page, loading, reads, add, supportPage, history>>

-----------------------------------------------------------------------------
(* The claim link of the user looked up. *)

LinkAsked == making.at # "idle" \/ \E u \in User : lookups[u].at # "idle"

\* Mutant: the link shown for the former user stays.
Forget_Not(n) == claim' = claim

\* The effect on the result clears the link, and loadClaimToken clears it first.
Forget(n) == claim' = n

Search(u) ==
  /\ page = "support" /\ searching = Nobody /\ Act
  /\ searching' = u /\ result' = Nobody /\ Forget(NoClaim)
  /\ patient' = (patient /\ ~LinkAsked)
  /\ UNCHANGED <<server, page, adminPage, lookups, checking, making, calm>>

\* The user found is shown, and for one who has not claimed the account the link is asked
\* for; or nobody is found, which clears the link, or the search fails.
Found ==
  /\ searching # Nobody /\ searching' = Nobody
  /\ \/ /\ result' = searching /\ Forget(NoClaim)
        /\ lookups' = IF searching \in Unclaimed
                      THEN [lookups EXCEPT ![searching] =
                              [at |-> "sent", user |-> searching, link |-> 0]]
                      ELSE lookups
        /\ checking' = (checking \/ searching \in Unclaimed)
     \/ claim' \in {claim, NoClaim} /\ UNCHANGED <<result, lookups, checking>>
  /\ UNCHANGED <<server, page, adminPage, making, history>>

ServeLookup(u) ==
  /\ lookups[u].at = "sent"
  /\ \/ lookups' = [lookups EXCEPT ![u].at = "served", ![u].link = links[u]]
     \/ lookups' = [lookups EXCEPT ![u].at = "failed"]
  /\ UNCHANGED <<server, page, adminPage, result, searching, claim, checking, making, history>>

\* A link there is, is shown; an error is left silent.
LookupAnswered(u) ==
  /\ lookups[u].at \in {"served", "failed"}
  /\ claim' = IF lookups[u].link > 0 THEN [user |-> u, link |-> lookups[u].link] ELSE claim
  /\ lookups' = [lookups EXCEPT ![u] = NoAsk] /\ checking' = FALSE
  /\ UNCHANGED <<server, page, adminPage, result, searching, making, history>>

GenerateClaimToken ==
  /\ page = "support" /\ result \in Unclaimed /\ claim = NoClaim /\ ~checking
  /\ making.at = "idle" /\ Act
  /\ making' = [at |-> "sent", user |-> result, link |-> 0]
  /\ UNCHANGED <<server, page, adminPage, result, searching, claim, lookups, checking, calm, patient>>

ServeGenerate ==
  /\ making.at = "sent"
  /\ \/ /\ links' = [links EXCEPT ![making.user] = acts]
        /\ making' = [making EXCEPT !.at = "served", !.link = acts]
     \/ making' = [making EXCEPT !.at = "failed"] /\ UNCHANGED links
  /\ UNCHANGED <<admins, page, adminPage, result, searching, claim, lookups, checking, history>>

LinkLost ==
  /\ making.at = "served" /\ making' = [making EXCEPT !.at = "failed"]
  /\ UNCHANGED <<server, page, adminPage, result, searching, claim, lookups, checking, history>>

Generated ==
  /\ making.at \in {"served", "failed"} /\ making' = NoAsk
  /\ claim' = IF making.at = "served" THEN [user |-> making.user, link |-> making.link] ELSE claim
  /\ UNCHANGED <<server, page, adminPage, result, searching, lookups, checking, history>>

Next ==
  \/ CheckAdminStatus \/ ServeAdd \/ AddAnswered \/ ChangeLost \/ LinkLost
  \/ Found \/ GenerateClaimToken \/ ServeGenerate \/ Generated
  \/ \E p \in Person : \/ AddSupportAdmin(p) \/ RemoveSupportAdmin(p) \/ ServeRemoval(p)
                       \/ RemovalAnswered(p)
  \/ \E r \in DOMAIN reads : ServeRead(r) \/ ListArrives(r)
  \/ \E u \in User : Search(u) \/ ServeLookup(u) \/ LookupAnswered(u)

Spec == Init /\ [][Next]_vars

-----------------------------------------------------------------------------
(* Properties. *)

\* When nothing is under way the page lists the support admins there are.
AdminsAreListed ==
  calm /\ page = "admin" /\ add.at = "idle" /\ ~ReadsOut
       /\ (\A p \in Person : removals[p] = "idle") => list = admins

\* The claim link shown is the newest one of the user it is shown with.
LinkIsOfTheUser ==
  patient /\ result # Nobody /\ claim # NoClaim =>
    claim.user = result /\ claim.link = links[result]

-----------------------------------------------------------------------------
(* The inductive invariants of the two. *)

AnyAsk == [at : Stage, user : User \cup {Nobody}, link : Int]

Typed ==
  /\ admins \subseteq Person /\ list \subseteq Person /\ links \in [User -> Int] /\ acts \in Int
  /\ reads \in [{"first", "after"} -> Read] /\ removals \in [Person -> Stage]
  /\ add \in [at : Stage \cup {"reading"}, who : Person \cup {Nobody}]
  /\ add.at # "idle" => add.who \in Person
  /\ searching \in User \cup {Nobody} /\ lookups \in [User -> AnyAsk] /\ making \in AnyAsk

Removed == {p \in Person : removals[p] = "served"}

\* While a list is asked for, no removal is on its way to the page; what comes back is what
\* there is; and a list on the page lacks nothing but an addition that is about to be read,
\* and has nothing more than the removals that are about to be told.
ListInv ==
  /\ page = "checking" => \A p \in Person : removals[p] = "idle"
  /\ calm /\ ReadsOut => Removed = {}
  /\ calm => \A r \in DOMAIN reads : reads[r].at = "served" => reads[r].list = admins
  /\ calm /\ page = "admin" /\ ~ReadsOut /\ add.at # "served" => admins = list \ Removed

\* If no search is begun while a link is asked for, one link is asked for at a time, for the
\* user shown.
LinkInv ==
  patient =>
    /\ searching # Nobody => result = Nobody /\ claim = NoClaim /\ ~LinkAsked
    /\ \A u \in User : lookups[u].at # "idle" =>
         /\ result = u /\ checking /\ making.at = "idle" /\ claim = NoClaim
         /\ lookups[u].link > 0 => lookups[u].link = links[u]
    /\ making.at # "idle" =>
         /\ making.user = result /\ result \in User /\ claim = NoClaim
         /\ making.at = "served" => making.link = links[result]
    /\ claim # NoClaim => claim.user = result /\ claim.link = links[result]
=============================================================================
