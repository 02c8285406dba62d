---------------------------- MODULE ConsoleSession ----------------------------
(***************************************************************************)
(* The keycast console in one browser tab: the session the server holds    *)
(* for the browser's cookie, the user the tab believes is signed in, and   *)
(* the dashboard with its list of app connections. Pages are mounted and   *)
(* left while their requests are under way; a request that outlives its    *)
(* page still sets the user and still navigates. E-mail addresses, copied  *)
(* keys, the open cards and the documentation sections are left out.       *)
(***************************************************************************)
EXTENDS Integers, FiniteSets

CONSTANTS
  User,
  MaxAct   \* bound: what the user does

VARIABLES
  session,   \* server: whose the cookie is
  conns,     \* server: each user's connections
  user,      \* the tab: who is signed in
  method,    \* how: cookie or nip07
  page,
  auth,      \* auth-status requests: slot, who asks, what the server says
  home,      \* the dashboard: checking, loading, the list and the two dialogs
  reads,     \* its reads of the list
  entry,     \* a sign-in, sign-up or sign-out under way
  verify,    \* the verification page's polling
  gate,      \* the admin status an admin page waits for
  acts,
  calm       \* history: no failure, and nothing begun while something else was under way

vars == <<session, conns, user, method, page, auth, home, reads, entry, verify, gate, acts,
          calm>>

None == "none"
Page == {"home", "login", "register", "verify", "admin", "support-admin", "teams"}
Conn == 1..2
MaxAsked == 2                                    \* bound: auth-status requests at a time
Slot == 1..MaxAsked + 2
Asked == "asked"                                 \* the server has not looked yet
Unread == {0}
Home == [checking : BOOLEAN, loading : BOOLEAN, list : SUBSET Conn,
         dialog : {"closed", "form", "ready"}, creating : {"no", "sent", "made"},
         revoke : SUBSET Conn, revoking : BOOLEAN]
Fresh == [checking |-> TRUE, loading |-> TRUE, list |-> {}, dialog |-> "closed",
          creating |-> "no", revoke |-> {}, revoking |-> FALSE]
Quiet == [what |-> "nothing", who |-> None, at |-> "sent"]

TypeOK ==
  /\ {session, user} \subseteq User \cup {None} /\ conns \in [User -> SUBSET Conn]
  /\ method \in {None, "cookie", "nip07"} /\ page \in Page
  /\ auth \subseteq [slot : Slot, by : {"header", "home", "email", "left"},
                     says : User \cup {None, Asked}]
  /\ \A f, g \in auth : {f.by, g.by} = {"home"} => f = g
  /\ home \in Home
  /\ reads \subseteq [slot : Slot, first : BOOLEAN, says : (SUBSET Conn) \cup {Unread}]
  /\ entry \in [what : {"nothing", "login", "register", "nip07", "status", "logout"},
                who : User \cup {None}, at : {"sent", "done", "failed"}]
  /\ verify \in {"idle", "polling", "leaving"}
  /\ gate \in {None, "admin", "support-admin"} /\ acts \in 0..MaxAct /\ calm \in BOOLEAN

\* A tab that was loaded at page p knows of nobody.
Loaded(p) ==
  [auth |-> IF p = "home" THEN {[slot |-> 1, by |-> "home", says |-> Asked]}
            ELSE IF p \in {"login", "register", "verify"} THEN {}
            ELSE {[slot |-> 1, by |-> "header", says |-> Asked]},
   verify |-> IF p = "verify" THEN "polling" ELSE "idle",
   gate |-> IF p \in {"admin", "support-admin"} THEN p ELSE None]

Init ==
  /\ session \in User \cup {None} /\ conns = [u \in User |-> {1}]
  /\ method \in {None, "cookie", "nip07"} /\ page \in Page /\ user = None
  /\ auth = Loaded(page).auth /\ verify = Loaded(page).verify /\ gate = Loaded(page).gate
  /\ home = Fresh /\ reads = {} /\ entry = Quiet /\ acts = 0 /\ calm = TRUE

server == <<session, conns>>
who == <<user, method>>
rest == <<entry, verify, acts, calm>>

Act == acts < MaxAct /\ acts' = acts + 1
Free(s) == CHOOSE n \in Slot : \A x \in s : x.slot # n
Waiting == auth # {} \/ reads # {} \/ entry # Quiet \/ verify = "polling"
           \/ gate # None

-----------------------------------------------------------------------------
(* Pages. *)

\* The header is there, except on the sign-in pages and the welcome page.
showHeader(p, u) == p \notin {"login", "register", "verify"} /\ (u # None \/ p # "home")

Request(s, by) == s \cup {[slot |-> Free(s), by |-> by, says |-> Asked]}

\* What a page begins when it is mounted for user u.
HeaderAsks(p, u, s) ==
  IF showHeader(p, u) /\ ~showHeader(page, user) /\ u = None THEN Request(s, "header") ELSE s
HomeAsks(p, u, s) ==
  IF p # "home" \/ (u # None /\ method' = "nip07") THEN s
  ELSE Request(s, IF u = None THEN "home" ELSE "email")

\* The requests of a dashboard that is left go on without it.
Orphans == {IF f.by = "home" THEN [f EXCEPT !.by = "left"] ELSE f
              : f \in {g \in auth : g.by # "email"}}

\* goto(p) with u signed in; what is mounted already stays.
Go(p, u) ==
  /\ page' = p /\ Cardinality(auth) <= MaxAsked
  /\ IF p = page THEN UNCHANGED <<auth, home, reads, gate>>
     ELSE /\ auth' = HomeAsks(p, u, HeaderAsks(p, u, Orphans))
          /\ home' = Fresh /\ reads' = {}
          /\ gate' = IF p \in {"admin", "support-admin"} THEN p ELSE gate

\* A link. The verification page is only reached from the e-mail.
Visit(p) ==
  /\ p \notin {page, "verify"} /\ Act
  /\ UNCHANGED who /\ Go(p, user) /\ calm' = (calm /\ ~Waiting)
  /\ UNCHANGED <<server, entry, verify>>

\* The tab is loaded anew.
LoadTab(p) ==
  /\ Act /\ page' = p /\ user' = None /\ home' = Fresh /\ reads' = {} /\ entry' = Quiet
  /\ auth' = Loaded(p).auth /\ verify' = Loaded(p).verify /\ gate' = Loaded(p).gate
  /\ calm' = (calm /\ ~Waiting)
  /\ UNCHANGED <<server, method>>

-----------------------------------------------------------------------------
(* Who is signed in. *)

AuthServed(f) ==
  /\ f \in auth /\ f.says = Asked
  /\ auth' = (auth \ {f}) \cup {[f EXCEPT !.says = session]}
  /\ UNCHANGED <<server, who, page, home, reads, gate, rest>>

First(s) == s \cup {[slot |-> Free(s), first |-> TRUE, says |-> Unread]}

\* The dashboard's mount goes on: the check is over, the first load begins.
Checked(u) ==
  IF page = "home" /\ u # None THEN First(reads) ELSE reads

\* An answer, or a failure, which says nobody. The tab believes it even when somebody has
\* signed in or out meanwhile.
AuthArrives(f) ==
  \E says \in {f.says, None} :
    LET u == IF says # None /\ f.by # "email" THEN says ELSE user IN
    /\ f \in auth /\ f.says # Asked /\ auth' = auth \ {f}
    /\ user' = u
    /\ method' = IF u # user /\ method = None THEN "cookie" ELSE method
    /\ calm' = (calm /\ says = f.says)
    /\ IF f.by \in {"home", "email"}
       THEN home' = [home EXCEPT !.checking = FALSE] /\ reads' = Checked(u)
       ELSE UNCHANGED <<home, reads>>
    /\ UNCHANGED <<server, page, entry, verify, gate, acts>>

\* The effect that loads the dashboard for a user who signs in later also runs when the
\* check is over: the list is loaded a second time.
LoadEffect ==
  /\ page = "home" /\ user # None /\ home.loading /\ ~home.checking
  /\ Cardinality({r \in reads : r.first}) < 2
  /\ reads' = First(reads)
  /\ UNCHANGED <<server, who, page, auth, home, gate, rest>>

\* With an extension's user the dashboard asks for nothing before it loads.
MountNip07 ==
  /\ page = "home" /\ home.checking /\ ~\E f \in auth : f.by \in {"home", "email"}
  /\ home' = [home EXCEPT !.checking = FALSE] /\ reads' = Checked(user)
  /\ UNCHANGED <<server, who, page, auth, gate, rest>>

-----------------------------------------------------------------------------
(* Signing in, up and out. *)

Begin(what, u) ==
  /\ Act /\ entry = Quiet /\ entry' = [what |-> what, who |-> u, at |-> "sent"]
  /\ calm' = (calm /\ ~Waiting)
  /\ UNCHANGED <<server, who, page, auth, home, reads, verify, gate>>

Login(u) == page = "login" /\ Begin("login", u)
Register(u) == page = "register" /\ Begin("register", u)
CanSignIn == (page = "login" \/ user = None) /\ page # "verify"
Nip07(u) == CanSignIn /\ Begin("nip07", u)
SignOut == user # None /\ showHeader(page, user) /\ Begin("logout", None)

\* The server signs the cookie in or out, or does not.
Served ==
  /\ entry.what \in {"login", "register", "nip07", "logout"} /\ entry.at = "sent"
  /\ \/ /\ entry' = [entry EXCEPT !.at = "done"] /\ session' = entry.who /\ UNCHANGED calm
     \/ /\ entry' = [entry EXCEPT !.at = "failed"] /\ UNCHANGED session
        /\ calm' = (calm /\ entry.what # "logout")
  /\ UNCHANGED <<conns, who, page, auth, home, reads, verify, gate, acts>>

\* The form signs its user in and goes to the dashboard, or where it was asked to.
Entered ==
  /\ entry.what \in {"login", "register"} /\ entry.at = "done" /\ entry' = Quiet
  /\ user' = entry.who /\ method' = "cookie"
  /\ \E p \in IF entry.what = "login" THEN {"home", "admin", "support-admin"} ELSE {"home"} :
       Go(p, entry.who)
  /\ UNCHANGED <<server, verify, acts, calm>>

\* A refusal, or a sign-up that waits for its e-mail to be verified.
Refused ==
  /\ entry.what \in {"login", "register", "nip07"} /\ entry.at = "failed" /\ entry' = Quiet
  /\ UNCHANGED <<server, who, page, auth, home, reads, verify, gate, acts, calm>>

\* The extension's user, and then the role that tells where to go.
Nip07Entered ==
  /\ entry.what = "nip07" /\ entry.at = "done" /\ entry' = [entry EXCEPT !.what = "status"]
  /\ user' = entry.who /\ method' = "nip07"
  /\ UNCHANGED <<server, page, auth, home, reads, verify, gate, acts, calm>>

Nip07Goes ==
  /\ entry.what = "status" /\ entry' = Quiet /\ UNCHANGED who
  /\ \E p \in {"admin", "support-admin", "teams", "home"} : Go(p, user)
  /\ UNCHANGED <<server, verify, acts, calm>>

\* Mutant: only the server is told.
Forgotten_Kept == UNCHANGED who

Forgotten == user' = None /\ method' = None

\* Whatever the server says, the tab forgets the user.
SignedOut ==
  /\ entry.what = "logout" /\ entry.at # "sent" /\ entry' = Quiet
  /\ Forgotten /\ Go("home", user')
  /\ UNCHANGED <<server, verify, acts, calm>>

\* The polling, thirty times at most, ends with a refusal or leads elsewhere, or the server
\* signs the cookie in and a timer starts.
Verified(u) ==
  /\ verify = "polling"
  /\ \/ verify' = "idle" /\ UNCHANGED <<session, calm>>
     \/ verify' = "leaving" /\ session' = u /\ calm' = (calm /\ page = "verify")
  /\ UNCHANGED <<conns, who, page, auth, home, reads, entry, gate, acts>>

\* The timer goes to the dashboard, whatever page is shown by then.
VerifyGoes ==
  /\ verify = "leaving" /\ verify' = "idle" /\ UNCHANGED who /\ Go("home", user)
  /\ calm' = (calm /\ page \in {"verify", "home"})
  /\ UNCHANGED <<server, entry, acts>>

SentTo(g) == {"login"} \cup (IF g = "admin" THEN {"home", "support-admin"} ELSE {})

\* An admin page's status: stay, or be sent to the page one may see or the sign-in.
Gate ==
  /\ gate # None /\ UNCHANGED who
  /\ \/ gate' = None /\ UNCHANGED <<page, auth, home, reads>>
     \/ \E p \in SentTo(gate) :
          /\ p # page /\ page' = p /\ home' = Fresh /\ reads' = {}
          /\ auth' = HomeAsks(p, user, HeaderAsks(p, user, Orphans))
          /\ gate' = IF p = "support-admin" THEN p ELSE None
  /\ Cardinality(auth) <= MaxAsked
  /\ UNCHANGED <<server, rest>>

-----------------------------------------------------------------------------
(* The dashboard's connections. *)

Dashboard == page = "home" /\ user # None /\ ~home.checking /\ ~home.loading
Mine == IF session = None THEN {} ELSE conns[session]

ReadServed(r) ==
  /\ r \in reads /\ r.says = Unread
  /\ reads' = (reads \ {r}) \cup {[r EXCEPT !.says = Mine]}
  /\ UNCHANGED <<server, who, page, auth, home, gate, rest>>

\* An answer; a failure empties the list.
ReadArrives(r) ==
  \E says \in {r.says, {}} :
    /\ r \in reads /\ r.says # Unread /\ reads' = reads \ {r}
    /\ home' = [home EXCEPT !.list = says, !.loading = @ /\ ~r.first]
    /\ calm' = (calm /\ says = r.says)
    /\ UNCHANGED <<server, who, page, auth, entry, verify, gate, acts>>

loadSessions(h) ==
  /\ home' = h
  /\ reads' = IF user = None THEN reads
              ELSE reads \cup {[slot |-> Free(reads), first |-> FALSE, says |-> Unread]}

Still == UNCHANGED <<who, page, auth, entry, verify, gate>>

OpenDialog ==
  /\ Dashboard /\ method # "nip07" /\ home.dialog = "closed" /\ Act
  /\ home' = [home EXCEPT !.dialog = IF home.creating = "made" THEN "ready" ELSE "form",
                          !.creating = IF @ = "made" THEN "no" ELSE @]
  /\ calm' = (calm /\ ~home.revoking) /\ UNCHANGED <<server, reads>> /\ Still

Create ==
  /\ Dashboard /\ home.dialog = "form" /\ home.creating = "no" /\ session # None
  /\ home' = [home EXCEPT !.creating = "sent"] /\ calm' = (calm /\ reads = {})
  /\ UNCHANGED <<server, reads, acts>> /\ Still

\* The connection is made; the dialog shows its address, at once or when it is opened again.
Created ==
  /\ home.creating = "sent" /\ session # None /\ Mine # Conn
  /\ conns' = [conns EXCEPT ![session] = @ \cup {CHOOSE c \in Conn : c \notin @}]
  /\ home' = IF home.dialog = "form" THEN [home EXCEPT !.dialog = "ready", !.creating = "no"]
             ELSE [home EXCEPT !.creating = "made"]
  /\ UNCHANGED <<session, reads, acts, calm>> /\ Still

CreateFails ==
  /\ home.creating = "sent" /\ home' = [home EXCEPT !.creating = "no"]
  /\ UNCHANGED <<server, reads, acts, calm>> /\ Still

\* Mutant: closing does not load the list.
CloseDialog_Only ==
  /\ home.dialog # "closed" /\ home' = [home EXCEPT !.dialog = "closed"]
  /\ UNCHANGED <<server, reads, acts, calm>> /\ Still

\* Closing after a success loads the list again. A click beside the dialog closes it even
\* while the request is under way.
CloseDialog ==
  /\ home.dialog # "closed" /\ Cardinality(reads) < 3
  /\ IF home.dialog = "ready" THEN loadSessions([home EXCEPT !.dialog = "closed"])
     ELSE home' = [home EXCEPT !.dialog = "closed"] /\ UNCHANGED reads
  /\ calm' = (calm /\ home.creating # "sent")
  /\ UNCHANGED <<server, acts>> /\ Still

\* A group of connections of one app is revoked one by one.
Revoke(group) ==
  /\ Dashboard /\ method # "nip07" /\ home.dialog = "closed" /\ home.revoke = {} /\ Act
  /\ group # {} /\ home' = [home EXCEPT !.revoke = group, !.revoking = TRUE]
  /\ calm' = (calm /\ reads = {} /\ home.creating = "no")
  /\ UNCHANGED <<server, reads>> /\ Still

Revoked(c) ==
  /\ home.revoking /\ c \in home.revoke /\ session # None
  /\ conns' = [conns EXCEPT ![session] = @ \ {c}]
  /\ home' = [home EXCEPT !.revoke = @ \ {c}]
  /\ UNCHANGED <<session, reads, acts, calm>> /\ Still

AllRevoked ==
  /\ home.revoking /\ home.revoke = {} /\ Cardinality(reads) < 3
  /\ loadSessions([home EXCEPT !.revoking = FALSE])
  /\ UNCHANGED <<server, acts, calm>> /\ Still

\* One of them fails: those before it are revoked, the list is not loaded again.
RevokeFails ==
  /\ home.revoking /\ home.revoke # {}
  /\ home' = [home EXCEPT !.revoke = {}, !.revoking = FALSE] /\ calm' = FALSE
  /\ UNCHANGED <<server, reads, acts>> /\ Still

-----------------------------------------------------------------------------
Next ==
  \/ \E p \in Page : Visit(p) \/ LoadTab(p)
  \/ \E f \in auth : AuthServed(f) \/ AuthArrives(f)
  \/ LoadEffect \/ MountNip07
  \/ \E u \in User : Login(u) \/ Register(u) \/ Nip07(u) \/ Verified(u)
  \/ SignOut \/ Served \/ Entered \/ Refused \/ Nip07Entered \/ Nip07Goes \/ SignedOut
  \/ VerifyGoes \/ Gate
  \/ \E r \in reads : ReadServed(r) \/ ReadArrives(r)
  \/ OpenDialog \/ Create \/ Created \/ CreateFails \/ CloseDialog
  \/ \E group \in SUBSET home.list : Revoke(group)
  \/ \E c \in Conn : Revoked(c)
  \/ AllRevoked \/ RevokeFails

Spec == Init /\ [][Next]_vars

-----------------------------------------------------------------------------
(* Who the tab says is signed in is who the server will act for, once      *)
(* nothing is under way, if one thing was done after another.              *)
UserIsSession ==
  (calm /\ ~Waiting /\ user # None) => user = session

(* The dashboard then lists the connections the server has.                *)
ListIsServers ==
  (calm /\ ~Waiting /\ Dashboard /\ method = "cookie" /\ ~home.revoking
     /\ home.dialog # "ready") => home.list = Mine

\* Why: whoever signs in or out does so while nothing else is asked, so an answer says who
\* the server acts for; until the tab hears that a sign-in or a sign-out was done, and on
\* the verification page, where nobody is signed in.
SessionInv ==
  /\ \A f \in auth : f = [slot |-> f.slot, by |-> f.by, says |-> f.says]
  /\ entry = [what |-> entry.what, who |-> entry.who, at |-> entry.at]
  /\ page = "verify" => entry = Quiet /\ user = None /\ auth = {} /\ gate = None
  /\ calm =>
       /\ entry # Quiet => auth = {} /\ gate = None
       /\ verify = "polling" => page = "verify"
       /\ \A f \in auth : f.says \in {Asked, session}
       /\ entry.at # "done" \/ entry.what = "status" => user \in {None, session}
       /\ entry.at = "done" /\ entry.what # "status" => session = entry.who

\* What the dashboard is made of. Its own check is under way only while it is checking, and
\* its dialogs are opened when it has loaded; a dashboard that is left is gone.
HomeInv ==
  /\ home = [checking |-> home.checking, loading |-> home.loading, list |-> home.list,
             dialog |-> home.dialog, creating |-> home.creating, revoke |-> home.revoke,
             revoking |-> home.revoking]
  /\ \A r \in reads : r = [slot |-> r.slot, first |-> r.first, says |-> r.says]
  /\ page # "home" => home = Fresh /\ reads = {}
  /\ \A f, g \in auth : {f.by, g.by} \subseteq {"home", "email"} => f = g
  /\ \A f \in auth : f.by \in {"home", "email"} => page = "home" /\ home.checking
  /\ home.checking \/ home.loading =>
       home.dialog = "closed" /\ home.creating = "no" /\ home.revoking = FALSE

\* With one thing done after another nothing is created or revoked while the list is read,
\* and whoever signs out does not sign in on the same dashboard, but with an extension.
ReadInv ==
  calm =>
    /\ home.creating # "no" => home.creating = "sent" /\ home.dialog = "form" /\ reads = {}
    /\ home.revoking => home.dialog = "closed" /\ home.creating = "no" /\ reads = {}
    /\ user = None /\ auth # {} => home.loading /\ reads = {}
    /\ entry.what \in {"login", "register"} => page \in {"login", "register"}
    /\ entry # Quiet /\ user # None /\ method # "nip07" =>
         entry.what = "logout" \/ page \in {"login", "register"}
    /\ user # None /\ method # "nip07" /\ entry = Quiet =>
         /\ \A r \in reads : r.says \in {Unread, Mine}
         /\ \/ home.loading \/ home.revoking \/ home.dialog = "ready" \/ reads # {}
            \/ home.list = Mine
=============================================================================
