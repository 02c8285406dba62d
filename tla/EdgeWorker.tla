------------------------------ MODULE EdgeWorker ------------------------------
(***************************************************************************)
(* The edge worker that serves divine.video and its subdomains             *)
(* (compute-js/src/index.js), with the cache in front of it. A request     *)
(* comes straight to a host or through divine-router, which asks one host  *)
(* of its own and names the one meant in X-Original-Host. The names of the *)
(* users are in a key-value store that changes under the requests. The     *)
(* cache keeps what says how long it is good for, under its URL and the    *)
(* headers it varies by; time goes in ticks of a minute, and no request is *)
(* under way for longer.                                                   *)
(***************************************************************************)
EXTENDS Integers

CONSTANTS PageAge,   \* how long a profile page is good for
          AnswerAge, \* how long a JSON answer and a video's tags are
          MaxTime,   \* bounds the clock
          MaxChange, \* bounds the changes of names
          MaxAsk     \* bounds the requests the worker gets

VARIABLES
  names,   \* the names store: who has a name, and whether it is active
  changed, \* when each name was last changed
  clock,
  changes, \* counts the changes
  asks,    \* counts the requests the worker got
  cache,   \* what the cache keeps
  flight   \* the requests the worker is at

vars == <<names, changed, clock, changes, asks, cache, flight>>

-----------------------------------------------------------------------------
(* Requests. *)

Name == {"alice", "bob"}
Key == {"k1", "k2"}
None == "none"
Apex == "apex"

Request ==
  [routed: BOOLEAN, host: Name \cup {Apex, "www"}, name: {None},
   path: {"page", "file", "assoc", "names", "press"}, crawler: {FALSE}]
  \cup [routed: BOOLEAN, host: Name \cup {Apex}, name: {None}, path: {"video"}, crawler: BOOLEAN]
  \cup [routed: BOOLEAN, host: {Apex}, name: Name, path: {"names"}, crawler: {FALSE}]

\* What the cache sees of the address.
Url(r) == <<IF r.routed THEN "router" ELSE r.host, r.path, r.name>>

\* What it sees of the headers an answer may vary by.
Header(r, h) ==
  CASE h = "X-Original-Host" -> IF r.routed THEN r.host ELSE None
    [] h = "User-Agent" -> IF r.crawler THEN "crawler" ELSE "browser"

\* A host below an apex domain is a user's, but for the reserved ones.
getSubdomain(host) == IF host \in Name THEN host ELSE None

\* Link previews ask under names of their own.
isSocialMediaCrawler(r) == r.crawler

-----------------------------------------------------------------------------
(* Answers. An answer with age 0 is not kept. *)

NoVary == {}
Plain(kind) == [kind |-> kind, of |-> None, pk |-> None, age |-> 0, vary |-> NoVary]

jsonResponse(of, pk) ==
  [kind |-> "names", of |-> of, pk |-> pk, age |-> AnswerAge, vary |-> NoVary]

\* What the names store has for a name; an inactive name keeps its key.
Entry == {[pk |-> None, active |-> FALSE]} \cup [pk: Key, active: BOOLEAN]

\* An error is a JSON answer like the others, and is kept as long.
jsonError == [jsonResponse(None, None) EXCEPT !.kind = "error"]

\* The apex answers for any name asked for that has an entry, unless the store fails; it
\* refuses to answer for none ...
handleNip05(r, entry) ==
  IF r.name = None THEN {jsonError} ELSE {jsonResponse(r.name, entry.pk), jsonError}

handleSubdomainNip05_Any(r, entry) ==
  IF entry.pk # None THEN jsonResponse(r.host, entry.pk) ELSE Plain("missing")

\* ... and a subdomain for its own if it is active.
handleSubdomainNip05(r, entry) ==
  IF entry.pk # None /\ entry.active THEN jsonResponse(r.host, entry.pk) ELSE Plain("missing")

ProfilePage_Same(r, entry) ==
  [kind |-> "profile", of |-> r.host, pk |-> entry.pk, age |-> PageAge, vary |-> NoVary]

\* The application with the user put into it; it varies by the host that is meant.
ProfilePage(r, entry) ==
  [kind |-> "profile", of |-> r.host, pk |-> entry.pk, age |-> PageAge,
   vary |-> {"X-Original-Host"}]

handleSubdomainProfile_Any(r, entry) ==
  IF r.path = "file" THEN {Plain("file")}
  ELSE IF entry.pk = None THEN {Plain("missing")}
  ELSE {ProfilePage(r, entry), Plain("redirect")}

\* A subdomain's files are the site's. Any other path is its user's page, whatever the
\* API says of the user; a page that is not in the content store becomes a redirect to
\* the apex.
handleSubdomainProfile(r, entry) ==
  IF r.path = "file" THEN {Plain("file")}
  ELSE IF entry.pk = None \/ ~entry.active THEN {Plain("missing")}
  ELSE {ProfilePage(r, entry), Plain("redirect")}

\* What the API knows of a video, if it answers: words of its own, or its numbers.
fetchVideoMetadata == {"words", "numbers", "neither", None}

\* A page of tags for the crawlers that asks browsers on; it varies by the agent.
handleVideoOgTags ==
  {[kind |-> "tags", of |-> d, pk |-> None, age |-> AnswerAge, vary |-> {"User-Agent"}]
   : d \in fetchVideoMetadata}

\* The file, if the publisher has it and does not give the application for it. A
\* subdomain's does not vary by the host. It is good for an hour: longer than the clock.
WellKnown(r) ==
  {Plain("missing"),
   [kind |-> "file", of |-> None, pk |-> None, age |-> MaxTime + 1,
    vary |-> IF getSubdomain(r.host) = None THEN {"X-Original-Host"} ELSE NoVary]}

Application ==
  [kind |-> "app", of |-> None, pk |-> None, age |-> PageAge, vary |-> {"X-Original-Host"}]

\* The worker's routes in their order, with what the names store said.
Answers(r, entry) ==
  IF r.host = "www" THEN {Plain("redirect")}
  ELSE IF getSubdomain(r.host) # None
    THEN IF r.path = "names" THEN {handleSubdomainNip05(r, entry)}
         ELSE IF r.path = "assoc" THEN WellKnown(r)
         ELSE handleSubdomainProfile(r, entry)
  ELSE IF r.path = "press" THEN {Plain("redirect")}
  ELSE IF r.path = "names" THEN handleNip05(r, entry)
  ELSE IF r.path = "assoc" THEN WellKnown(r)
  ELSE IF r.path = "video" /\ isSocialMediaCrawler(r) THEN handleVideoOgTags
  ELSE {Application}

\* The name a request is about.
NameOf(r) == IF getSubdomain(r.host) # None THEN r.host ELSE r.name

-----------------------------------------------------------------------------
(* The cache: an answer is given again for the same address and the same  *)
(* value of each header it varies by.                                      *)

Kept(r, a) ==
  [url |-> Url(r), at |-> clock, answer |-> a,
   by |-> [h \in a.vary |-> Header(r, h)]]

Hits(e, r) ==
  e.url = Url(r) /\ \A h \in DOMAIN e.by : e.by[h] = Header(r, h)

Good(e) == clock < e.at + e.answer.age

\* An answer takes the place of those it would be given for.
Stored(r, a) ==
  IF a.age = 0 THEN cache
  ELSE {e \in cache : ~(e.url = Url(r) /\ e.by = Kept(r, a).by)} \cup {Kept(r, a)}

-----------------------------------------------------------------------------
(* Steps. *)

Init ==
  /\ names = [n \in Name |-> [pk |-> IF n = "bob" THEN "k2" ELSE "k1", active |-> TRUE]]
  /\ changed = [n \in Name |-> 0]
  /\ clock = 0 /\ changes = 0 /\ asks = 0
  /\ cache = {} /\ flight = {}

\* A request the cache has no answer for goes to the worker ...
Ask(r) ==
  /\ asks < MaxAsk /\ asks' = asks + 1
  /\ ~\E e \in cache : Good(e) /\ Hits(e, r)
  /\ flight' = flight \cup {[r |-> r, got |-> {}]}
  /\ UNCHANGED <<names, changed, clock, changes, cache>>

\* ... which looks the name up ...
LookUp(f) ==
  /\ f.got = {} /\ NameOf(f.r) # None
  /\ flight' = (flight \ {f}) \cup {[f EXCEPT !.got = {names[NameOf(f.r)]}]}
  /\ UNCHANGED <<names, changed, clock, changes, asks, cache>>

\* ... and answers, after what else it asks for.
Answer(f) ==
  /\ f.got # {} \/ NameOf(f.r) = None
  /\ \E entry \in IF f.got = {} THEN {[pk |-> None, active |-> FALSE]} ELSE f.got :
       \E a \in Answers(f.r, entry) : cache' = Stored(f.r, a)
  /\ flight' = flight \ {f}
  /\ UNCHANGED <<names, changed, clock, changes, asks>>

\* External: the names service gives a name out, takes it back or switches it off.
Rename(n, entry) ==
  /\ changes < MaxChange /\ changes' = changes + 1
  /\ entry # names[n]
  /\ names' = [names EXCEPT ![n] = entry]
  /\ changed' = [changed EXCEPT ![n] = clock]
  /\ UNCHANGED <<clock, asks, cache, flight>>

\* External: a minute goes by. What is no longer good is dropped.
Tick ==
  /\ clock < MaxTime /\ flight = {}
  /\ clock' = clock + 1
  /\ cache' = {e \in cache : clock' < e.at + e.answer.age}
  /\ UNCHANGED <<names, changed, changes, asks, flight>>

Next ==
  \/ \E r \in Request : Ask(r)
  \/ \E f \in flight : LookUp(f) \/ Answer(f)
  \/ \E n \in Name, entry \in Entry : Rename(n, entry)
  \/ Tick

Spec == Init /\ [][Next]_vars

-----------------------------------------------------------------------------
(* Properties. *)

TypeOK ==
  /\ names \in [Name -> Entry] /\ changed \in [Name -> 0..MaxTime]
  /\ clock \in 0..MaxTime /\ changes \in 0..MaxChange /\ asks \in 0..MaxAsk
  /\ \A e \in cache : e.at \in 0..MaxTime /\ DOMAIN e.by \subseteq {"X-Original-Host", "User-Agent"}
  /\ \A f \in flight : f.r \in Request /\ f.got \subseteq Entry

\* Whatever came before it through the router, a page the cache gives for a host is the
\* host's: the user's own on a subdomain, the application on the apex (index.js:175 "so
\* CDN doesn't mix subdomain and apex cached responses").
PageIsTheHosts ==
  \A e \in cache, r \in Request :
    Hits(e, r) /\ r.path = "page" =>
      IF r.host \in Name THEN e.answer.kind = "profile" /\ e.answer.of = r.host
                         ELSE e.answer.kind = "app"

\* Who a page or an answer for a name says the user is holds the name, or has held it
\* within the time the answer is good for, with requests that looked the name up before
\* a change and answered after it. The router's answers for names are left out: they do
\* not vary by the host.
LapsesInTime ==
  \A e \in cache, r \in Request :
    /\ Hits(e, r) /\ e.answer.pk # None
    /\ r.path = "page" \/ ~r.routed \/ r.name # None
    => \/ /\ e.answer.pk = names[NameOf(r)].pk
          /\ r.host \in Name => names[NameOf(r)].active
       \/ clock < changed[NameOf(r)] + e.answer.age

-----------------------------------------------------------------------------
(* The inductive invariants of the two. *)

\* What is known of a name while a request is at the worker: no minute goes by meanwhile.
Typed ==
  /\ clock \in Nat /\ \A n \in Name : changed[n] \in 0..clock
  /\ names \in [Name -> Entry] /\ DOMAIN changed = Name
  /\ \A f \in flight :
       /\ f = [r |-> f.r, got |-> f.got] /\ f.r \in Request
       /\ f.got # {} =>
            \E entry \in Entry :
              f.got = {entry} /\ (entry = names[NameOf(f.r)] \/ changed[NameOf(f.r)] = clock)

\* What an entry of the cache was kept for: its address, the host it varies by, and whose
\* it is. The name was the user's when the entry was kept, or has changed since.
OfRequest(e, r) ==
  /\ e.url = Url(r)
  /\ r.path = "page" =>
       /\ e.by = [h \in {"X-Original-Host"} |-> Header(r, h)]
       /\ IF r.host \in Name THEN e.answer.kind = "profile" /\ e.answer.of = r.host
                             ELSE e.answer.kind = "app"
  /\ e.answer.pk # None =>
       /\ NameOf(r) \in Name
       /\ \/ /\ e.answer.pk = names[NameOf(r)].pk
             /\ r.host \in Name => names[NameOf(r)].active
          \/ e.at <= changed[NameOf(r)]

CacheInv ==
  \A e \in cache :
    /\ e.at \in 0..clock /\ e.answer.age \in Nat /\ Good(e)
    /\ \E r \in Request : OfRequest(e, r)
=============================================================================
