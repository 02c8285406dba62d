------------------------------ MODULE AppCaches ------------------------------
(***************************************************************************)
(* The service worker of the mobile app's web build (mobile/web/sw.js):    *)
(* the app's files and its fonts come from a cache and are asked for again *)
(* behind, images from the cache alone, and the API's answers from the     *)
(* network and, if that fails, from a cache. The site is deployed anew in  *)
(* the meantime; a file's version is the deployment it is of. Each file    *)
(* has an entry of its own: nothing ties their versions together.          *)
(***************************************************************************)
EXTENDS Integers, FiniteSets

CONSTANTS MaxDeploy, \* bounds the deployments
          MaxAsk     \* bounds the requests

VARIABLES
  server,    \* the deployment the site is at
  installed, \* the deployment whose worker is at work, or 0
  caches,    \* the version each cache has of a file, or 0, by the cache's name
  flight,    \* the requests on their way
  given,     \* the latest answer to each request
  asks,      \* counts the requests
  online,
  asked,     \* history: the deployment at the latest request for a file the worker looked after
  missed     \* history: the files whose latest request failed, overlapped another or was cleared

vars == <<server, installed, caches, flight, given, asks, online, asked, missed>>

-----------------------------------------------------------------------------
(* Requests and caches. *)

FLUTTER_CACHE == "openvine-flutter-cache"
API_CACHE == "openvine-api-cache"
OLD_CACHE == "an older cache"
Cache == {FLUTTER_CACHE, API_CACHE, OLD_CACHE}

\* A file that is cached at the installation, one that is not, a font, an image, an answer
\* of the API, and its analytics, which the worker lets through.
Request == {"main.dart.js", "late.json", "font", "photo", "api", "analytics"}
PRECACHE_ASSETS == {"main.dart.js"}

isFlutterAsset(r) == r \in {"main.dart.js", "late.json"}
isApiRequest(r) == r = "api"
isFontRequest(r) == r = "font"

Nothing == [r \in Request |-> 0]
Error == -1

Init ==
  /\ server = 1 /\ installed = 0 /\ online = TRUE
  /\ caches = [c \in Cache |-> Nothing]
  /\ flight = {} /\ asks = 0
  /\ given = Nothing /\ asked = Nothing /\ missed = {}

\* What the worker itself keeps of a request, from the cache it looks into first.
Kept(r) == IF isApiRequest(r) THEN caches[API_CACHE][r] ELSE caches[FLUTTER_CACHE][r]

-----------------------------------------------------------------------------
(* The worker's life. *)

\* A worker comes with a deployment, fetches what it wants at hand or else does not get
\* installed, takes over at once, and drops the caches it does not know.
Install ==
  /\ installed < server /\ online
  /\ installed' = server
  /\ caches' = [caches EXCEPT ![FLUTTER_CACHE] =
                  [r \in Request |-> IF r \in PRECACHE_ASSETS THEN server ELSE @[r]],
                  ![OLD_CACHE] = Nothing]
  /\ UNCHANGED <<server, flight, given, asks, online, asked, missed>>

\* CLEAR_CACHE, from the app. What a request has opened before is written to no longer.
Clear ==
  /\ installed # 0
  /\ caches' = [c \in Cache |-> Nothing]
  /\ flight' = {[f EXCEPT !.lost = ~isApiRequest(f.r)] : f \in flight}
  /\ missed' = missed \cup {f.r : f \in flight}
  /\ UNCHANGED <<server, installed, given, asks, online, asked>>

-----------------------------------------------------------------------------
(* Requests. *)

AsksBehind_Not(r) == isFontRequest(r)

\* An app file or a font that came from the cache is asked for again behind.
AsksBehind(r) == isFlutterAsset(r) \/ isFontRequest(r)

\* Whether a request is answered from the cache if that has it.
CacheFirst(r) == ~isApiRequest(r)

\* The page asks; what the cache has is given at once.
Ask(r) ==
  /\ installed # 0 /\ asks < MaxAsk /\ r # "analytics"
  /\ asks' = asks + 1
  /\ LET hit == CacheFirst(r) /\ Kept(r) # 0
         over == \E f \in flight : f.r = r
         asksOn == ~hit \/ AsksBehind(r)
     IN /\ given' = IF hit THEN [given EXCEPT ![r] = Kept(r)] ELSE given
        /\ flight' = IF asksOn
                       THEN flight \cup {[id |-> asks, r |-> r, behind |-> hit, v |-> 0, lost |-> FALSE]}
                       ELSE flight
        /\ asked' = [asked EXCEPT ![r] = server]
        /\ missed' = IF over THEN missed \cup {r} ELSE missed \ {r}
  /\ UNCHANGED <<server, installed, caches, online>>

\* Analytics go their own way.
AskThrough ==
  /\ asks < MaxAsk /\ asks' = asks + 1
  /\ given' = [given EXCEPT !["analytics"] = IF online THEN server ELSE Error]
  /\ UNCHANGED <<server, installed, caches, flight, online, asked, missed>>

\* The site answers with what it has, or with an error ...
Reply(f) ==
  /\ f.v = 0 /\ online
  /\ \E v \in {server, Error} : flight' = (flight \ {f}) \cup {[f EXCEPT !.v = v]}
  /\ UNCHANGED <<server, installed, caches, given, asks, online, asked, missed>>

\* ... and the answer comes to the worker, which keeps it if it is a good one.
Arrive(f) ==
  /\ f.v # 0
  /\ flight' = flight \ {f}
  /\ given' = IF f.behind THEN given ELSE [given EXCEPT ![f.r] = f.v]
  /\ IF f.v = Error
       THEN missed' = missed \cup {f.r} /\ UNCHANGED caches
       ELSE /\ caches' = IF f.lost THEN caches
                         ELSE [caches EXCEPT ![IF isApiRequest(f.r) THEN API_CACHE ELSE FLUTTER_CACHE][f.r] = f.v]
            /\ UNCHANGED missed
  /\ UNCHANGED <<server, installed, asks, online, asked>>

\* What is given when the network fails: the API's last answer kept, an error for a file of
\* the app, and for a font or an image what a second request brings, which is not kept.
Fallback(r) ==
  IF isApiRequest(r) THEN {IF Kept(r) # 0 THEN Kept(r) ELSE Error}
  ELSE IF isFlutterAsset(r) THEN {Error} ELSE {server, Error}

\* The network fails.
Fail(f) ==
  /\ f.v = 0 /\ ~online
  /\ flight' = flight \ {f}
  /\ \E v \in Fallback(f.r) : given' = IF f.behind THEN given ELSE [given EXCEPT ![f.r] = v]
  /\ missed' = missed \cup {f.r}
  /\ UNCHANGED <<server, installed, caches, asks, online, asked>>

\* External: the site and the network.
Deploy ==
  /\ server < MaxDeploy /\ server' = server + 1
  /\ UNCHANGED <<installed, caches, flight, given, asks, online, asked, missed>>

Switch ==
  /\ online' = ~online
  /\ UNCHANGED <<server, installed, caches, flight, given, asks, asked, missed>>

Next ==
  \/ Install \/ Clear \/ AskThrough \/ Deploy \/ Switch
  \/ \E r \in Request : Ask(r)
  \/ \E f \in flight : Reply(f) \/ Arrive(f) \/ Fail(f)

Spec == Init /\ [][Next]_vars

-----------------------------------------------------------------------------
(* Properties. *)

TypeOK ==
  /\ server \in 1..MaxDeploy /\ installed \in 0..server
  /\ caches \in [Cache -> [Request -> 0..server]]
  /\ given \in [Request -> Error..server] /\ asked \in [Request -> 0..server]
  /\ \A f \in flight : f.r \in Request /\ f.v \in Error..server
  /\ missed \subseteq Request

\* The app is behind by one visit at most: after a request for one of its files was
\* answered in full, from the cache or not, the cache has the file as it was deployed when
\* it was asked for, or a newer one, so that the next visit gets it. Requests that failed
\* behind, that overlapped another for the same file or that were on their way when the
\* caches were cleared are left out: their answers may be lost, or older ones come last.
CatchesUp ==
  \A r \in Request :
    /\ isFlutterAsset(r) \/ isFontRequest(r)
    /\ r \notin missed /\ Kept(r) # 0 /\ ~\E f \in flight : f.r = r
    => Kept(r) >= asked[r]

-----------------------------------------------------------------------------
(* The inductive invariant of CatchesUp. *)

Sent == [id: Nat, r: Request, behind: BOOLEAN, v: Int, lost: BOOLEAN]

Typed ==
  /\ server \in Nat /\ asks \in Nat /\ asked \in [Request -> Int]
  /\ caches \in [Cache -> [Request -> Int]] /\ flight \subseteq Sent

\* A file that is not missed is asked for by one request, which brings it as new as asked
\* for and writes it to the cache, or it is there.
FileInv ==
  /\ \A r \in Request : asked[r] <= server
  /\ \A r \in Request : AsksBehind(r) /\ r \notin missed =>
       /\ \A f \in flight : f.r = r =>
            /\ ~f.lost /\ (f.v \in {0, Error} \/ f.v >= asked[r])
            /\ \A g \in flight : g.r = r => g = f
       /\ (\A f \in flight : f.r # r) =>
            caches[FLUTTER_CACHE][r] = 0 \/ caches[FLUTTER_CACHE][r] >= asked[r]
=============================================================================
