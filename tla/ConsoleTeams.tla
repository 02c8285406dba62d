----------------------------- MODULE ConsoleTeams -----------------------------
(***************************************************************************)
(* The console's pages about teams: the list of the teams, the page of a   *)
(* team with its members, keys and policies (its items, of which item 1 is *)
(* a key), the page of that key with its authorizations, and the forms     *)
(* that add an item or an authorization. A page loads what it shows once,  *)
(* when it is opened; what is removed on it is taken from what it shows,   *)
(* and a form that succeeded goes to the page of what it added. No form is *)
(* disabled while its request is under way, and an answer may come back    *)
(* when its page was left.                                                 *)
(***************************************************************************)
EXTENDS Integers, FiniteSets

CONSTANTS MaxMake, MaxAct \* bounds: things ever made, what the user does

VARIABLES
  things,  \* server: what there is of each kind
  page,    \* the page that is open
  shown,   \* what it lists
  read,    \* its only request: none, sent, served, failed, loaded
  answer,  \* what that request brings
  asks,    \* the other requests: what, of which thing, how far, and whether their page is open
  modal,   \* the authorization whose bunker URL is shown, 0 for none
  taken,   \* authorizations whose URL the user was shown
  made, acts,
  calm,    \* history: every change was served to the page that asked for it, once loaded,
           \* and told to it
  single   \* history: nothing took the user from the form of an authorization before its answer
           \* was read, neither a second submission, nor a link, nor a late answer elsewhere,
           \* and that answer was not lost

vars == <<things, page, shown, read, answer, asks, modal, taken, made, acts, calm, single>>

Kind == {"team", "item", "auth"}
Lists == [p \in {"teams", "team", "key"} |->
            IF p = "teams" THEN "team" ELSE IF p = "team" THEN "item" ELSE "auth"]
Page == DOMAIN Lists \cup {"newItem", "newAuth"}
Thing == 1..MaxMake
Create == {"team", "item", "auth"}
Drop == {"drop team", "drop item", "drop auth", "drop key"}
Ask == [what : Create \cup Drop, id : Thing, at : {"sent", "served", "refused"}, here : BOOLEAN]

TypeOK ==
  /\ things \in [Kind -> SUBSET Thing] /\ page \in Page /\ shown \subseteq Thing
  /\ read \in {"none", "sent", "served", "failed", "loaded"} /\ answer \subseteq Thing
  /\ asks \subseteq Ask /\ modal \in 0..MaxMake /\ taken \subseteq Thing
  /\ made \in 0..MaxMake /\ acts \in 0..MaxAct /\ calm \in BOOLEAN /\ single \in BOOLEAN

Init ==
  /\ things = [k \in Kind |-> IF k = "auth" THEN {} ELSE {1}]
  /\ page = "teams" /\ shown = {} /\ read = "sent" /\ answer = {}
  /\ asks = {} /\ modal = 0 /\ taken = {} /\ made = 1 /\ acts = 0 /\ calm = TRUE /\ single = TRUE

Act == acts < MaxAct /\ acts' = acts + 1
Here == {r \in asks : r.here}

\* The page is opened anew; answers to the one that was left find nobody. The form of an
\* authorization loads the policies.
Open(p, rs) ==
  /\ page' = p /\ shown' = {} /\ modal' = 0 /\ answer' = {}
  /\ read' = IF p = "newItem" THEN "none" ELSE "sent"
  /\ asks' = {[r EXCEPT !.here = FALSE] : r \in rs}

\* goto keeps the page when it is open already.
Goto(p, rs) ==
  IF p = page THEN asks' = rs /\ UNCHANGED <<page, shown, read, answer, modal>> ELSE Open(p, rs)

Links == [teams |-> {"team"}, team |-> {"teams", "key", "newItem"}, key |-> {"team", "newAuth"},
          newItem |-> {"team"}, newAuth |-> {"key", "team"}]

Follow(p) ==
  /\ p \in Links[page] /\ modal = 0 /\ Act /\ Open(p, asks)
  /\ single' = (single /\ ~\E r \in Here : r.what = "auth")
  /\ UNCHANGED <<things, taken, made, calm>>

ServeRead ==
  /\ read = "sent"
  /\ \/ read' = "served" /\ answer' = IF page \in DOMAIN Lists THEN things[Lists[page]] ELSE {}
     \/ read' = "failed" /\ answer' = {}
  /\ UNCHANGED <<things, page, shown, asks, modal, taken, made, acts, calm, single>>

\* A failure leaves the page empty.
Loaded ==
  /\ read \in {"served", "failed"} /\ read' = "loaded" /\ shown' = answer
  /\ calm' = (calm /\ read = "served")
  /\ UNCHANGED <<things, page, answer, asks, modal, taken, made, acts, single>>

-----------------------------------------------------------------------------
(* What the user asks for. *)

New(k) ==
  /\ made < MaxMake /\ made' = made + 1 /\ Act
  /\ asks' = asks \cup {[what |-> k, id |-> made + 1, at |-> "sent", here |-> TRUE]}
  /\ UNCHANGED <<things, page, shown, read, answer, modal, taken, calm>>

\* The form for a team is on the page of the teams.
CreateTeam == page = "teams" /\ New("team") /\ UNCHANGED single

\* A key, a teammate or a policy.
CreateItem == page = "newItem" /\ New("item") /\ UNCHANGED single

CreateAuthorization ==
  /\ page = "newAuth" /\ read = "loaded" /\ modal = 0 /\ New("auth")
  /\ single' = (single /\ ~\E r \in asks : r.what = "auth")

\* The button of an authorization is disabled while its deletion is under way; the others
\* may be pressed again.
Delete(what, id) ==
  /\ read = "loaded" /\ Act
  /\ \/ what = "drop auth" /\ page = "key" /\ id \in shown
     \/ what = "drop item" /\ page = "team" /\ id \in shown \ {1}
     \/ what = "drop key" /\ page = "key" /\ id = 1
     \/ what = "drop team" /\ page = "team" /\ id = 1
  /\ asks' = asks \cup {[what |-> what, id |-> id, at |-> "sent", here |-> TRUE]}
  /\ asks' # asks
  /\ UNCHANGED <<things, page, shown, read, answer, modal, taken, made, calm, single>>

-----------------------------------------------------------------------------
(* The server. *)

\* With a key go its authorizations, with a team all it had.
Effect(r) ==
  CASE r.what \in Create -> [things EXCEPT ![r.what] = @ \cup {r.id}]
    [] r.what = "drop item" -> [things EXCEPT !["item"] = @ \ {r.id}]
    [] r.what = "drop auth" -> [things EXCEPT !["auth"] = @ \ {r.id}]
    [] r.what = "drop key" -> [things EXCEPT !["item"] = @ \ {1}, !["auth"] = {}]
    [] r.what = "drop team" -> [things EXCEPT !["team"] = @ \ {1}, !["item"] = {}, !["auth"] = {}]

\* What a thing is added to, or taken from, must be there: the team, of which the user is
\* an admin, the key, and the authorization that is deleted.
Possible(r) ==
  /\ r.what # "team" => 1 \in things["team"]
  /\ r.what \in {"auth", "drop auth", "drop key"} => 1 \in things["item"]
  /\ r.what = "drop auth" => r.id \in things["auth"]

Serve(r) ==
  /\ r.at = "sent"
  /\ \/ /\ Possible(r) /\ things' = Effect(r)
        /\ asks' = (asks \ {r}) \cup {[r EXCEPT !.at = "served"]}
        /\ calm' = (calm /\ r.here /\ read \in {"loaded", "none"})
     \/ /\ asks' = (asks \ {r}) \cup {[r EXCEPT !.at = "refused"]} /\ UNCHANGED <<things, calm>>
  /\ UNCHANGED <<page, shown, read, answer, modal, taken, made, acts, single>>

\* The answer to a change is lost, which the page takes for a refusal.
AnswerLost(r) ==
  /\ r.at = "served" /\ asks' = (asks \ {r}) \cup {[r EXCEPT !.at = "refused"]}
  /\ calm' = FALSE /\ single' = (single /\ r.what # "auth")
  /\ UNCHANGED <<things, page, shown, read, answer, modal, taken, made, acts>>

-----------------------------------------------------------------------------
(* Answers. *)

\* Mutant: the form of an authorization goes to the key's page as the other forms do.
AuthAnswer_Goes(r) == Goto("key", asks \ {r})

\* The URL is shown, and only now.
AuthAnswer(r) ==
  /\ modal' = IF r.here THEN r.id ELSE modal
  /\ asks' = asks \ {r} /\ UNCHANGED <<page, shown, read, answer>>

\* Mutant: the thing stays on the page until it is loaded again.
Gone_Later(r) == shown

Gone(r) == IF r.here THEN shown \ {r.id} ELSE shown

Answered(r) ==
  /\ r.at = "served"
  /\ \/ r.what = "team" /\ shown' = (IF r.here /\ read = "loaded" THEN shown \cup {r.id} ELSE shown)
        /\ asks' = asks \ {r} /\ UNCHANGED <<page, read, answer, modal>>
     \/ r.what \in {"drop item", "drop auth"} /\ shown' = Gone(r)
        /\ asks' = asks \ {r} /\ UNCHANGED <<page, read, answer, modal>>
     \/ r.what = "item" /\ Goto("team", asks \ {r})
     \/ r.what = "auth" /\ AuthAnswer(r)
     \/ r.what = "drop key" /\ Goto("team", asks \ {r})
     \/ r.what = "drop team" /\ Goto("teams", asks \ {r})
  /\ single' = (single /\ (page' = page \/ (modal = 0 /\ ~\E q \in Here \ {r} : q.what = "auth")))
  /\ UNCHANGED <<things, taken, made, acts, calm>>

Refused(r) ==
  /\ r.at = "refused" /\ asks' = asks \ {r}
  /\ UNCHANGED <<things, page, shown, read, answer, modal, taken, made, acts, calm, single>>

CloseSuccessModal ==
  /\ modal # 0 /\ taken' = taken \cup {modal} /\ Open("key", asks)
  /\ UNCHANGED <<things, made, acts, calm, single>>

Next ==
  \/ ServeRead \/ Loaded \/ CreateTeam \/ CreateItem \/ CreateAuthorization \/ CloseSuccessModal
  \/ \E p \in Page : Follow(p)
  \/ \E what \in Drop, id \in Thing : Delete(what, id)
  \/ \E r \in asks : Serve(r) \/ AnswerLost(r) \/ Answered(r) \/ Refused(r)

Spec == Init /\ [][Next]_vars

-----------------------------------------------------------------------------
(* Properties. *)

\* A page that is loaded and waits for nothing lists what there is.
PageIsServers ==
  calm /\ page \in DOMAIN Lists /\ read = "loaded" /\ Here = {} => shown = things[Lists[page]]

\* The user was shown the bunker URL of every authorization there is, which nobody can
\* show again.
UrlWasShown ==
  single => \A a \in things["auth"] :
              a = modal \/ a \in taken \/ \E r \in asks : r.what = "auth" /\ r.id = a

-----------------------------------------------------------------------------
(* The inductive invariants of the two. *)

AnyAsk == [what : Create \cup Drop, id : Int, at : {"sent", "served", "refused"}, here : BOOLEAN]

\* What is asked for by the page that is open was asked on that page.
Typed ==
  /\ things \in [Kind -> SUBSET Int] /\ asks \subseteq AnyAsk /\ made \in Nat /\ page \in Page
  /\ \A r \in Here : CASE r.what = "team" -> page = "teams"
                       [] r.what = "item" -> page = "newItem"
                       [] r.what = "auth" -> page = "newAuth"
                       [] r.what \in {"drop item", "drop team"} -> page = "team"
                       [] r.what \in {"drop auth", "drop key"} -> page = "key"

\* Changes that were served and that the open page does not know of yet.
Told == {r \in Here : r.at = "served"}
Ids(what) == {r.id : r \in {q \in Told : q.what \in what}}

\* As long as changes are served to the page that asked for them and is loaded, it lists
\* what there is but for the changes it is about to be told of, or is about to be left.
PageInv ==
  calm =>
    /\ read \in {"sent", "served", "failed"} => Told = {}
    /\ read = "served" /\ page \in DOMAIN Lists => answer = things[Lists[page]]
    /\ read = "loaded" /\ page \in DOMAIN Lists
         /\ (\A r \in Told : r.what \notin {"drop key", "drop team"}) =>
         things[Lists[page]] = (shown \cup Ids({"team"})) \ Ids({"drop item", "drop auth"})

Authorizations == {r \in asks : r.what = "auth"}

\* One authorization is made at a time, and its form is open until its URL is on the screen.
UrlInv ==
  /\ things["auth"] \subseteq 1..made /\ \A r \in Authorizations : r.id \in 1..made
  /\ single =>
       /\ \A r \in Authorizations :
            /\ r.here /\ modal = 0 /\ Authorizations = {r}
            /\ r.at # "served" => r.id \notin things["auth"]
       /\ \A a \in things["auth"] : a = modal \/ a \in taken \/ \E r \in Authorizations : r.id = a
=============================================================================
