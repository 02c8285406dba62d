------------------------------ MODULE FeedSource ------------------------------
(***************************************************************************)
(* Where a feed gets its videos from: the REST API of the Divine relay or  *)
(* its WebSocket, chosen each time the page is drawn by a circuit breaker  *)
(* that all requests to the API share. A query is retried; leaving a page  *)
(* cancels its queries, and the API's client takes the cancellation for a  *)
(* failure. A home page without videos goes to the discovery page.         *)
(*                                                                         *)
(* The relay is one that has the API. What the videos are, see FeedPages,  *)
(* and the age of cached answers are left out.                             *)
(***************************************************************************)
EXTENDS Integers

CONSTANTS
  CIRCUIT_BREAKER_THRESHOLD,
  Retries,   \* how often react-query asks again
  MaxAct     \* bound: navigations, and other requests to the API that end

VARIABLES
  errors,    \* errorCount of the API, which only matters up to the threshold
  recent,    \* whether lastChecked is less than CIRCUIT_BREAKER_RESET_MS ago
  page,      \* "home", "discovery", or "other"
  drawn,     \* whether the page has been drawn since something it looks at changed
  source,    \* dataSource of the last drawing
  query,     \* the queries of each feed
  follows,   \* whether the follow list has been loaded
  names,     \* the query of the authors of the videos shown, and whom it asks
  acts

vars == <<errors, recent, page, drawn, source, query, follows, names, acts>>

Feed == {"home", "discovery"}
Status == {"none", "asked", "waiting", "empty", "some", "error"}
Query == [st : Status, tries : 0..Retries]
None == [st |-> "none", tries |-> 0]

TypeOK ==
  /\ errors \in 0..CIRCUIT_BREAKER_THRESHOLD /\ {recent, drawn, follows} \subseteq BOOLEAN
  /\ page \in Feed \cup {"other"} /\ source \in {"api", "ws"}
  /\ query \in [Feed -> [{"api", "ws"} -> Query]]
  /\ names \in [q : Query, of : {"api", "ws"}] /\ acts \in 0..MaxAct

Init ==
  /\ errors = 0 /\ recent = FALSE /\ page = "other" /\ drawn = FALSE /\ source = "api"
  /\ query = [f \in Feed |-> [s \in {"api", "ws"} |-> None]] /\ follows \in BOOLEAN
  /\ names = [q |-> None, of |-> "api"] /\ acts = 0

\* Mutant: a query that is not enabled counts as loading (isPending, not isLoading).
Loading_Pending(q) == q.st \in {"none", "asked", "waiting"}

Loading(q) == q.st \in {"asked", "waiting"}

-----------------------------------------------------------------------------
(* The circuit breaker. *)

\* isFunnelcakeAvailable: status.available was cleared by the third failure, and it is
\* what is returned when enough time has passed.
Available ==
  /\ ~(errors >= CIRCUIT_BREAKER_THRESHOLD /\ recent)
  /\ errors < CIRCUIT_BREAKER_THRESHOLD

RecordSuccess == errors' = 0 /\ recent' = TRUE

RecordFailure ==
  /\ errors' = IF errors < CIRCUIT_BREAKER_THRESHOLD THEN errors + 1 ELSE errors
  /\ recent' = TRUE

Record(ok) == IF ok THEN RecordSuccess ELSE RecordFailure

\* CIRCUIT_BREAKER_RESET_MS pass without a request.
Pass == recent /\ recent' = FALSE
        /\ UNCHANGED <<errors, page, drawn, source, query, follows, names, acts>>

\* A request of another page, which does not look at the circuit.
Other ==
  /\ acts < MaxAct /\ acts' = acts + 1 /\ \E ok \in BOOLEAN : Record(ok)
  /\ UNCHANGED <<page, drawn, source, query, follows, names>>

-----------------------------------------------------------------------------
(* Drawing a page. *)

Choice == IF Available THEN "api" ELSE "ws"

\* The home feed waits for the follow list when it comes from the WebSocket.
Enabled(f, s) == f = "home" /\ s = "ws" => follows

\* The query of a source is asked when it comes into use without an answer.
Started(f, s) ==
  LET q == query[f][s]
      begins == q.st = "none" \/ (q.st = "error" /\ source # s)
  IN  IF begins /\ Enabled(f, s) THEN [query EXCEPT ![f][s] = [st |-> "asked", tries |-> 0]]
      ELSE query

\* The page f is left: its queries are cancelled, and so is that of the authors.
Cancelled(qs, f) ==
  [qs EXCEPT ![f] = [s \in {"api", "ws"} |-> IF Loading(@[s]) THEN None ELSE @[s]]]

Aborted(f) ==
  query[f]["api"].st = "asked" \/ (names.q.st = "asked" /\ names.of = "api")

Leave(f) ==
  /\ IF Aborted(f) THEN RecordFailure ELSE UNCHANGED <<errors, recent>>
  /\ names' = [q |-> None, of |-> "api"]

\* VideoFeed: the redirection does not ask why a home feed has no videos.
Draw ==
  /\ page # "other" /\ ~drawn /\ source' = Choice
  /\ LET qs == Started(page, Choice)
     IN  \/ /\ page = "home" /\ ~Loading(qs[page][Choice]) /\ qs[page][Choice].st # "some"
            /\ page' = "discovery" /\ drawn' = FALSE /\ query' = Cancelled(qs, "home")
            /\ Leave("home")
         \/ /\ page = "home" => Loading(qs[page][Choice]) \/ qs[page][Choice].st = "some"
            /\ drawn' = TRUE /\ query' = qs /\ UNCHANGED <<page, errors, recent, names>>
  /\ UNCHANGED <<follows, acts>>

\* Something else on the page changes.
Redraw ==
  /\ drawn /\ drawn' = FALSE
  /\ UNCHANGED <<errors, recent, page, source, query, follows, names, acts>>

Navigate(to) ==
  /\ acts < MaxAct /\ acts' = acts + 1 /\ to # page /\ page' = to /\ drawn' = FALSE
  /\ IF page = "other" THEN UNCHANGED <<query, errors, recent, names>>
     ELSE query' = Cancelled(query, page) /\ Leave(page)
  /\ UNCHANGED <<source, follows>>

FollowsLoaded ==
  /\ ~follows /\ follows' = TRUE /\ drawn' = FALSE
  /\ UNCHANGED <<errors, recent, page, source, query, names, acts>>

-----------------------------------------------------------------------------
(* Queries. *)

Failed(q) ==
  IF q.tries < Retries THEN [st |-> "waiting", tries |-> q.tries + 1]
  ELSE [st |-> "error", tries |-> 0]

\* A request of a feed ends; it is given 5 seconds by the API, 10 by a relay.
Answer(f, s) ==
  LET q == query[f][s]
      To(new) == query' = [query EXCEPT ![f][s] = new] /\ drawn' = (drawn /\ Loading(new))
  IN  /\ q.st = "asked"
      /\ \/ \E st \in {"empty", "some"} :
              To([st |-> st, tries |-> 0])
              /\ IF s = "api" THEN RecordSuccess ELSE UNCHANGED <<errors, recent>>
         \/ To(Failed(q)) /\ IF s = "api" THEN RecordFailure ELSE UNCHANGED <<errors, recent>>
      /\ UNCHANGED <<page, source, follows, names, acts>>

Retry(f, s) ==
  /\ query[f][s].st = "waiting" /\ query' = [query EXCEPT ![f][s].st = "asked"]
  /\ UNCHANGED <<errors, recent, page, drawn, source, follows, names, acts>>

\* "Try again" on the page of an error.
TryAgain ==
  /\ acts < MaxAct /\ acts' = acts + 1 /\ drawn /\ query[page][source].st = "error"
  /\ query' = [query EXCEPT ![page][source] = [st |-> "asked", tries |-> 0]] /\ drawn' = FALSE
  /\ UNCHANGED <<errors, recent, page, source, follows, names>>

\* useBatchedAuthors: the API first, and the relay within the same try.
AskNames ==
  /\ drawn /\ query[page][source].st = "some" /\ names.q.st \in {"none", "waiting"}
  /\ names' = [q |-> [names.q EXCEPT !.st = "asked"], of |-> Choice]
  /\ UNCHANGED <<errors, recent, page, drawn, source, query, follows, acts>>

NamesAre(q) == names' = [q |-> q, of |-> "api"]

NamesAnswer ==
  /\ names.q.st = "asked"
  /\ \/ /\ names.of = "api" /\ RecordSuccess /\ NamesAre([st |-> "some", tries |-> 0])
     \/ /\ names.of = "api" /\ RecordFailure /\ names' = [names EXCEPT !.of = "ws"]
     \/ /\ names.of = "ws" /\ UNCHANGED <<errors, recent>>
        /\ NamesAre([st |-> "some", tries |-> 0]) \/ NamesAre(Failed(names.q))
  /\ UNCHANGED <<page, drawn, source, query, follows, acts>>

Next ==
  \/ Pass \/ Other \/ Draw \/ Redraw \/ FollowsLoaded \/ TryAgain \/ AskNames \/ NamesAnswer
  \/ \E to \in Feed \cup {"other"} : Navigate(to)
  \/ \E f \in Feed, s \in {"api", "ws"} : Answer(f, s) \/ Retry(f, s)

\* React draws, requests time out, and the timers of the retries run.
Fairness ==
  /\ WF_vars(Draw) /\ WF_vars(AskNames) /\ WF_vars(NamesAnswer)
  /\ \A f \in Feed, s \in {"api", "ws"} : WF_vars(Answer(f, s)) /\ WF_vars(Retry(f, s))

Spec == Init /\ [][Next]_vars /\ Fairness

-----------------------------------------------------------------------------
(* Properties. *)

Reading == page \in Feed
Settled == page = "other" \/ (drawn /\ ~Loading(query[page][source]))

\* Whatever fails, a feed shows videos, that there are none, or an error in the end;
\* it never loads for ever, while sources change, follows load and pages redirect.
FeedSettles == Reading ~> Settled

\* "Enough time has passed, allow one retry": an open circuit lets a request through
\* once CIRCUIT_BREAKER_RESET_MS have passed.
OneRetryIsAllowed == errors >= CIRCUIT_BREAKER_THRESHOLD /\ ~recent => Available
=============================================================================
