---------------------------- MODULE KeycastLogin ----------------------------
(* The keycast-login library and the demo page of the console that uses it: *)
(* the authorization-code flow with PKCE, the session in localStorage, its  *)
(* refresh with one-time tokens, and logout.                                *)
(*                                                                          *)
(* Tabs share the storage.  A request has three moments: it is sent, the    *)
(* server acts, the answer arrives or is lost; a page that is left takes    *)
(* its handlers away, not the request.  A flow stands for its verifier, its *)
(* state and its code; an authorization for its handle and its bunker.      *)
EXTENDS Integers, Sequences, FiniteSets

CONSTANTS
  Tab,      \* tabs of one browser
  MaxFlow,  \* bound: authorization flows
  MaxToken  \* bound: refresh tokens the server makes

VARIABLES
  session,  \* localStorage keycast_session: [auth, token, age], or auth = 0
  handle,   \* localStorage keycast_auth_handle: an authorization, or 0
  pkce,     \* localStorage keycast_pkce: a flow, or 0
  tabs,     \* tab -> [page, flow, prev, cred, rpc, status, calling]
  calls,    \* requests: [n, tab, kind, arg, verifier, st, auth, token]
  flows,    \* flows started
  codes,    \* the server's codes: [flow, prev], prev an authorization or 0
  auths,    \* the server's authorizations: Seq of [token, revoked]
  made,     \* refresh tokens made
  patient   \* no two requests overlapped, no page was left with one under way

vars == <<session, handle, pkce, tabs, calls, flows, codes, auths, made, patient>>

Storage == <<session, handle, pkce>>
Server == <<codes, auths, made>>

NoSession == [auth |-> 0, token |-> 0, age |-> "fresh"]

\* A page whose script starts anew.
Blank == [page |-> "demo", flow |-> 0, prev |-> 0, cred |-> 0, rpc |-> 0,
          status |-> "idle", calling |-> FALSE]

Init ==
  /\ session = NoSession /\ handle = 0 /\ pkce = 0
  /\ tabs = [t \in Tab |-> Blank]
  /\ calls = {} /\ flows = 0
  /\ codes = {} /\ auths = <<>> /\ made = 0
  /\ patient = TRUE

Mine(t) == {c \in calls : c.tab = t}

\* The answers of a page that is left reach nobody.
Orphaned(t) == {IF c.tab = t THEN [c EXCEPT !.tab = "gone"] ELSE c : c \in calls}

Request(t, kind, arg, verifier) ==
  [n |-> CHOOSE n \in 1..3 : \A c \in calls : c.n # n, tab |-> t, kind |-> kind, arg |-> arg,
   verifier |-> verifier, st |-> "sent", auth |-> 0, token |-> 0]

-----------------------------------------------------------------------------
(* The page. *)

\* connectWithKeycast, connectWithBYOK up to the digest of the verifier.
Connect(t) ==
  /\ tabs[t].page = "demo" /\ tabs[t].cred = 0
  /\ tabs[t].status \in {"idle", "error"} /\ flows < MaxFlow
  /\ tabs' = [tabs EXCEPT ![t].status = "loading", ![t].page = "leaving"]
  /\ UNCHANGED <<Storage, calls, flows, Server, patient>>

\* getAuthorizationUrl after the digest: the verifier of any other flow goes.
AuthorizationUrl(t) ==
  /\ tabs[t].page = "leaving" /\ tabs[t].flow = 0
  /\ flows < MaxFlow
  /\ flows' = flows + 1
  /\ pkce' = flows + 1
  /\ tabs' = [tabs EXCEPT ![t].flow = flows + 1, ![t].prev = handle]
  /\ UNCHANGED <<session, handle, calls, Server, patient>>

\* A bound of the model, or the digest or the import of nostr-tools failing.
UrlFails(t) ==
  /\ tabs[t].page = "leaving"
  /\ tabs' = [tabs EXCEPT ![t].page = "demo", ![t].flow = 0, ![t].prev = 0,
                          ![t].status = "error"]
  /\ UNCHANGED <<Storage, calls, flows, Server, patient>>

\* window.location.href.
Leave(t) ==
  /\ tabs[t].page = "leaving" /\ tabs[t].flow # 0
  /\ tabs' = [tabs EXCEPT ![t] = [Blank EXCEPT !.page = "server", !.flow = tabs[t].flow,
                                               !.prev = tabs[t].prev]]
  /\ calls' = Orphaned(t)
  /\ patient' = (patient /\ Mine(t) = {})
  /\ UNCHANGED <<Storage, flows, Server>>

\* exchangeCode finds its verifier: the library's memory went with the page.
Verifier == pkce

\* onMount: the stored session, then the code of the URL.
Mounted(f) ==
  LET shown == [Blank EXCEPT !.cred = session.auth, !.flow = f,
                             !.status = IF session.auth # 0 THEN "success" ELSE "idle"]
  IN IF f = 0 THEN shown
     ELSE [shown EXCEPT !.status = IF Verifier = 0 THEN "error" ELSE "loading"]

Mount(t, f, cs, left) ==
  /\ tabs' = [tabs EXCEPT ![t] = Mounted(f)]
  /\ calls' = cs \union (IF f # 0 /\ Verifier # 0 THEN {Request(t, "exchange", f, Verifier)}
                         ELSE {})
  /\ patient' = (patient /\ ~left /\ (f # 0 => cs = {}))

\* The user approves, and the server redirects with a code.
Approve(t) ==
  /\ tabs[t].page = "server"
  /\ codes' = codes \union
       {[flow |-> tabs[t].flow,
         prev |-> IF tabs[t].prev # 0 /\ ~auths[tabs[t].prev].revoked THEN tabs[t].prev ELSE 0]}
  /\ Mount(t, tabs[t].flow, calls, FALSE)
  /\ UNCHANGED <<Storage, flows, auths, made>>

\* The user refuses: the page takes the error off its URL.
Deny(t) ==
  /\ tabs[t].page = "server"
  /\ tabs' = [tabs EXCEPT ![t] = [Mounted(0) EXCEPT !.status = "error"]]
  /\ UNCHANGED <<Storage, calls, flows, Server, patient>>

\* The URL keeps its code until an exchange succeeds.
Reload(t) ==
  /\ tabs[t].page = "demo"
  /\ Cardinality(calls) < 2
  /\ Mount(t, tabs[t].flow, Orphaned(t), Mine(t) # {})
  /\ UNCHANGED <<Storage, flows, Server>>

\* disconnect: logout and a reload; the server is not told.
Disconnect(t) ==
  /\ tabs[t].page = "demo" /\ tabs[t].cred # 0
  /\ session' = NoSession /\ handle' = 0 /\ pkce' = 0
  /\ tabs' = [tabs EXCEPT ![t] = [Blank EXCEPT !.flow = tabs[t].flow,
                                    !.status = IF tabs[t].flow = 0 THEN "idle" ELSE "error"]]
  /\ calls' = Orphaned(t)
  /\ patient' = (patient /\ Mine(t) = {})
  /\ UNCHANGED <<flows, Server>>

\* A press of one of the RPC buttons: initRpc keeps the client it has.
Press(t) ==
  /\ tabs[t].page = "demo" /\ tabs[t].cred # 0 /\ ~tabs[t].calling
  /\ tabs' = [tabs EXCEPT ![t].calling = TRUE,
                          ![t].rpc = IF tabs[t].rpc = 0 THEN tabs[t].cred ELSE tabs[t].rpc]
  /\ UNCHANGED <<Storage, calls, flows, Server, patient>>

\* The result, the error of the server or of the network.
Pressed(t) ==
  /\ tabs[t].calling
  /\ tabs' = [tabs EXCEPT ![t].calling = FALSE]
  /\ UNCHANGED <<Storage, calls, flows, Server, patient>>

-----------------------------------------------------------------------------
(* Requests. *)

\* Time passes for the access token: shouldRefresh.
Age ==
  /\ session.auth # 0 /\ session.age = "fresh"
  /\ session' = [session EXCEPT !.age = "old"]
  /\ UNCHANGED <<handle, pkce, tabs, calls, flows, Server, patient>>

\* getSessionWithRefresh by an application in the tab.
Refresh(t) ==
  /\ tabs[t].page = "demo" /\ session.auth # 0 /\ session.age = "old"
  /\ Cardinality(calls) < 2
  /\ calls' = calls \union {Request(t, "refresh", session.auth, session.token)}
  /\ patient' = (patient /\ calls = {})
  /\ UNCHANGED <<Storage, tabs, flows, Server>>

\* The server takes a code whose challenge the verifier meets, and deletes it, which
\* does not stop another exchange that has read it; and it revokes the authorization
\* the flow renewed.
ServeExchange(c) ==
  \E code \in codes :
    /\ code.flow = c.arg /\ c.arg = c.verifier /\ made < MaxToken
    /\ \/ codes' = codes \ {code}
       \/ codes' = codes /\ \E d \in calls \ {c} : d.kind = "exchange" /\ d.arg = c.arg
    /\ made' = made + 1
    /\ auths' = Append([a \in DOMAIN auths |->
                          IF a = code.prev THEN [token |-> 0, revoked |-> TRUE] ELSE auths[a]],
                       [token |-> made + 1, revoked |-> FALSE])
    /\ calls' = (calls \ {c}) \union
         {[c EXCEPT !.st = "ok", !.auth = Len(auths) + 1, !.token = made + 1]}

\* A refresh token is consumed and a new one made.
ServeRefresh(c) ==
  /\ auths[c.arg].token = c.verifier /\ made < MaxToken
  /\ made' = made + 1
  /\ auths' = [auths EXCEPT ![c.arg].token = made + 1]
  /\ calls' = (calls \ {c}) \union {[c EXCEPT !.st = "ok", !.auth = c.arg, !.token = made + 1]}
  /\ codes' = codes

Serve(c) ==
  /\ c.st = "sent"
  /\ \/ c.kind = "exchange" /\ ServeExchange(c)
     \/ c.kind = "refresh" /\ ServeRefresh(c)
  /\ UNCHANGED <<Storage, tabs, flows, patient>>

\* saveSession.
Saved(c) ==
  /\ session' = [auth |-> c.auth, token |-> c.token, age |-> "fresh"]
  /\ handle' = c.auth

\* Mutant: exchangeCode of the page leaves the RPC client to initRpc.
Connected_KeepsRpc(tab, c) ==
  [tab EXCEPT !.cred = c.auth, !.status = "success", !.flow = 0]

\* exchangeCode of the page, after the library's.
Connected(tab, c) ==
  [tab EXCEPT !.cred = c.auth, !.rpc = c.auth, !.status = "success", !.flow = 0]

Exchanged(c) ==
  /\ c.st = "ok" /\ c.kind = "exchange" /\ c.tab # "gone"
  /\ pkce' = 0 /\ Saved(c)
  /\ tabs' = [tabs EXCEPT ![c.tab] = Connected(@, c)]
  /\ calls' = calls \ {c}
  /\ UNCHANGED <<flows, Server, patient>>

Refreshed(c) ==
  /\ c.st = "ok" /\ c.kind = "refresh" /\ c.tab # "gone"
  /\ Saved(c)
  /\ calls' = calls \ {c}
  /\ UNCHANGED <<pkce, tabs, flows, Server, patient>>

\* Mutant: a refresh that failed leaves the session.
AfterFailure_Keeps(kind) == session

\* The catch of getSessionWithRefresh clears the session; an exchange's does not.
AfterFailure(kind) == IF kind = "refresh" THEN NoSession ELSE session

\* Refused by the server, or the request or its answer lost.
Fails(c) ==
  /\ c.tab # "gone"
  /\ session' = AfterFailure(c.kind)
  /\ tabs' = IF c.kind = "exchange" THEN [tabs EXCEPT ![c.tab].status = "error"] ELSE tabs
  /\ calls' = calls \ {c}
  /\ patient' = (patient /\ ~(c.kind = "exchange" /\ c.st = "ok"))
  /\ UNCHANGED <<handle, pkce, flows, Server>>

Forgotten(c) ==
  /\ c.tab = "gone"
  /\ calls' = calls \ {c}
  /\ UNCHANGED <<Storage, tabs, flows, Server, patient>>

Next ==
  \/ \E t \in Tab : \/ Connect(t) \/ AuthorizationUrl(t) \/ UrlFails(t) \/ Leave(t)
                    \/ Approve(t) \/ Deny(t) \/ Reload(t) \/ Disconnect(t)
                    \/ Press(t) \/ Pressed(t) \/ Refresh(t)
  \/ Age
  \/ \E c \in calls : Serve(c) \/ Exchanged(c) \/ Refreshed(c) \/ Fails(c) \/ Forgotten(c)

Spec == Init /\ [][Next]_vars

-----------------------------------------------------------------------------
(* Properties. *)

TypeOK ==
  /\ session.auth \in 0..Len(auths) /\ session.token \in 0..made
  /\ session.age \in {"fresh", "old"}
  /\ handle \in 0..Len(auths) /\ pkce \in 0..flows
  /\ \A t \in Tab : /\ tabs[t].page \in {"demo", "leaving", "server"}
                    /\ tabs[t].flow \in 0..flows /\ tabs[t].prev \in 0..Len(auths)
                    /\ tabs[t].cred \in 0..Len(auths) /\ tabs[t].rpc \in 0..Len(auths)
                    /\ tabs[t].status \in {"idle", "loading", "success", "error"}
                    /\ tabs[t].calling \in BOOLEAN
  /\ \A c \in calls : /\ c.tab \in Tab \union {"gone"} /\ c.kind \in {"exchange", "refresh"}
                      /\ c.st \in {"sent", "ok"}
  /\ flows \in 0..MaxFlow /\ made \in 0..MaxToken /\ patient \in BOOLEAN

\* With no request under way the stored session can be refreshed: refresh
\* tokens are good once, and a failed or lost refresh does not leave one that
\* is spent.
SessionIsLive ==
  patient /\ calls = {} /\ session.auth # 0 =>
    auths[session.auth].token = session.token

\* The RPC client signs with the credentials the page shows.
RpcIsOfCredentials ==
  \A t \in Tab : tabs[t].rpc # 0 => tabs[t].rpc = tabs[t].cred

\* "Clear all session data": only an exchange begins a session again.
LogoutIsFinal ==
  [][session.auth = 0 /\ session'.auth # 0 => \E c \in calls : c.kind = "exchange" /\ c \notin calls']_vars
\* Why: without haste there is one request at a time, whose page is there; the token of the
\* session is the server's, or an answer is on its way with the one that is.
Page == [page : {"demo", "leaving", "server"}, flow : Nat, prev : Nat, cred : Nat, rpc : Nat,
         status : {"idle", "loading", "success", "error"}, calling : BOOLEAN]

Authorization == [token : Nat, revoked : BOOLEAN]

Whole(c) ==
  /\ c = [n |-> c.n, tab |-> c.tab, kind |-> c.kind, arg |-> c.arg,
          verifier |-> c.verifier, st |-> c.st, auth |-> c.auth, token |-> c.token]
  /\ c.kind \in {"exchange", "refresh"} /\ c.arg \in Nat /\ c.auth \in Nat /\ c.token \in Nat

Typed ==
  /\ session \in [auth : Nat, token : Nat, age : {"fresh", "old"}]
  /\ handle \in Nat /\ flows \in Nat /\ made \in Nat
  /\ tabs \in [Tab -> Page] /\ auths \in Seq(Authorization)
  /\ \A c \in calls : Whole(c)

LiveInv ==
  patient =>
    /\ \A c, d \in calls : c = d
    /\ \A c \in calls :
         /\ c.tab # "gone" /\ (c.kind = "refresh" => c.arg \in DOMAIN auths)
         /\ c.st = "ok" => c.auth \in DOMAIN auths /\ auths[c.auth].token = c.token
    /\ session.auth # 0 =>
         /\ session.auth \in DOMAIN auths
         /\ auths[session.auth].token = session.token \/ \E c \in calls : c.st = "ok"

=============================================================================
