----------------------------- MODULE VideoSource ------------------------------
(***************************************************************************)
(* Where one player gets its video from: the direct URLs and the HLS       *)
(* playlist, the preflight that asks whether they want authentication, the *)
(* overlay that confirms the viewer's age, and the load that every change  *)
(* of these starts again. Each load keeps the values it was started with,  *)
(* and only the fetch of a blob is aborted by the next one.                *)
(*                                                                         *)
(* Which sources the browser can play and whether the server wants         *)
(* authentication do not change. Playing, see ActivePlayer, dimensions,    *)
(* bandwidth and GIFs are left out.                                        *)
(***************************************************************************)
EXTENDS Integers, FiniteSets

CONSTANTS
  Urls,      \* how many direct URLs: the primary one and the fallbacks
  MaxEdition,\* bound: lists of URLs the player is given
  MaxLoad    \* bound: loads

VARIABLES
  world,     \* hls: none, js or native; good: the sources that can be played, 0 the
             \* playlist; gated: the server wants authentication; signer: logged in
  stored,    \* the confirmation kept in localStorage
  verified,  \* isAdultVerified, the player's own
  known,     \* the edition of allUrls, 0 before it is set
  index,     \* currentUrlIndex, from 1
  tried,     \* triedHls
  loading, failed, auth,  \* isLoading, hasError, requiresAuth
  due,       \* the load effect is due
  loads,     \* how many times it has run
  asked,     \* preflights under way
  hls,       \* hls.js instances that live
  ref,       \* hlsRef: the number of one, or 0
  fetched,   \* fetches of a blob under way
  src,       \* what the element was last given
  late       \* the overlay's confirmation will call back once more

vars == <<world, stored, verified, known, index, tried, loading, failed, auth, due, loads,
          asked, hls, ref, fetched, src, late>>
status == <<loading, failed, auth>>
position == <<known, index, tried>>
network == <<asked, hls, ref, fetched>>

Load == [n : 1..MaxLoad, ed : 0..MaxEdition, url : 0..Urls, ver : BOOLEAN]
Source == [kind : {"none", "mse", "native", "direct", "blob"}, ed : 0..MaxEdition,
           url : 0..Urls, state : {"open", "loaded", "broken"}]

TypeOK ==
  /\ {stored, verified, tried, loading, failed, auth, due, late} \subseteq BOOLEAN
  /\ known \in 0..MaxEdition /\ index \in 1..Urls /\ loads \in 0..MaxLoad /\ ref \in 0..MaxLoad
  /\ asked \cup hls \cup fetched \subseteq Load /\ src \in Source

Init ==
  /\ world \in [hls : {"none", "js", "native"}, good : SUBSET (0..Urls), gated : BOOLEAN,
                signer : BOOLEAN]
  /\ stored \in BOOLEAN /\ verified = FALSE /\ known = 0 /\ index = 1 /\ tried = FALSE
  /\ loading = TRUE /\ failed = FALSE /\ auth = FALSE /\ due = TRUE /\ loads = 0
  /\ asked = {} /\ hls = {} /\ ref = 0 /\ fetched = {} /\ late = FALSE
  /\ src = [kind |-> "none", ed |-> 0, url |-> 0, state |-> "broken"]

\* The server answers a request with this authorization.
Granted(ver) == ~world.gated \/ (ver /\ world.signer)

Given(kind, ed, url) == src' = [kind |-> kind, ed |-> ed, url |-> url, state |-> "open"]

-----------------------------------------------------------------------------
(* The load effect. *)

\* Mutant: the fetches of earlier loads go on.
Aborted_Never == fetched

\* The cleanup of the effect aborts what the last load fetches.
Aborted == {}

\* loadVideoSource for load l, with S the instances and F the fetches that are left.
Play(l, S, F) ==
  \/ /\ world.hls = "js" /\ hls' = S \cup {l} /\ ref' = l.n /\ fetched' = F
     /\ Given("mse", 0, 0) /\ loading' = TRUE /\ failed' = FALSE
  \/ /\ world.hls = "native" /\ Given("native", 0, 0) /\ loading' = TRUE /\ failed' = FALSE
     /\ hls' = S /\ fetched' = F
  \/ /\ world.hls = "none" /\ l.url = 0 /\ hls' = S /\ fetched' = F
     /\ UNCHANGED <<src, loading, failed>>
  \/ /\ world.hls = "none" /\ l.url > 0 /\ loading' = TRUE /\ failed' = FALSE /\ hls' = S
     /\ IF l.ver /\ world.signer THEN fetched' = F \cup {l} /\ UNCHANGED src
        ELSE fetched' = F /\ Given("direct", l.ed, l.url)

\* The instance hlsRef names is destroyed; a preflight is sent unless the viewer is
\* verified or there is no URL yet, and none that is under way is given up.
RunLoad ==
  LET l == [n |-> loads + 1, ed |-> known, url |-> IF known > 0 THEN index ELSE 0,
            ver |-> verified]
      S == {h \in hls : h.n # ref}
  IN  /\ due /\ loads < MaxLoad /\ due' = FALSE /\ loads' = loads + 1
      /\ IF auth
         THEN hls' = S /\ ref' = 0 /\ fetched' = Aborted /\ UNCHANGED <<asked, src, status>>
         ELSE IF ~verified /\ (world.hls # "none" \/ known > 0)
         THEN /\ asked' = asked \cup {l} /\ hls' = S /\ ref' = 0 /\ fetched' = Aborted
              /\ UNCHANGED <<src, status>>
         ELSE /\ Play(l, S, Aborted) /\ UNCHANGED <<asked, auth>>
              /\ world.hls # "js" => ref' = 0
      /\ UNCHANGED <<world, stored, verified, position, late>>

\* The first effects set allUrls and read the confirmation from localStorage.
Start ==
  /\ loads = 1 /\ known = 0 /\ known' = 1 /\ verified' = stored /\ due' = TRUE
  /\ UNCHANGED <<world, stored, index, tried, status, loads, network, src, late>>

\* The feed brings the video with other URLs.
NewUrls ==
  /\ known \in 1..MaxEdition-1 /\ known' = known + 1 /\ index' = 1 /\ due' = TRUE
  /\ UNCHANGED <<world, stored, verified, tried, status, loads, network, src, late>>

NeedAuth == auth' = TRUE /\ loading' = FALSE /\ due' = (due \/ ~auth) /\ UNCHANGED failed

\* checkMediaAuth: a request that fails is taken for an authorization.
Preflight(l) ==
  /\ l \in asked /\ asked' = asked \ {l}
  /\ \/ Play(l, hls, fetched) /\ UNCHANGED <<auth, due>> /\ (world.hls # "js" => ref' = ref)
     \/ /\ world.gated /\ NeedAuth /\ UNCHANGED <<hls, ref, fetched, src>>
  /\ UNCHANGED <<world, stored, verified, position, loads, late>>

-----------------------------------------------------------------------------
(* hls.js, the fetch and the element. *)

Manifest(h) ==
  /\ h \in hls /\ Granted(h.ver) /\ loading' = FALSE
  /\ UNCHANGED <<world, stored, verified, position, failed, auth, due, loads, network, src,
                 late>>

HlsDenied(h) ==
  /\ h \in hls /\ ~Granted(h.ver) /\ hls' = hls \ {h} /\ NeedAuth
  /\ UNCHANGED <<world, stored, verified, position, loads, asked, ref, fetched, src, late>>

\* A fatal error: direct playback of the URL the load was started with.
HlsFatal(h) ==
  /\ h \in hls /\ Granted(h.ver) /\ 0 \notin world.good /\ hls' = hls \ {h}
  /\ IF h.url > 0 THEN Given("direct", h.ed, h.url) ELSE UNCHANGED src
  /\ UNCHANGED <<world, stored, verified, position, status, due, loads, asked, ref, fetched,
                 late>>

Fetched(l) ==
  /\ l \in fetched /\ fetched' = fetched \ {l}
  /\ \/ Given("blob", l.ed, l.url) /\ UNCHANGED <<status, due>>
     \/ UNCHANGED <<src, auth, due>> /\ failed' = TRUE /\ loading' = FALSE
  /\ UNCHANGED <<world, stored, verified, position, loads, asked, hls, ref, late>>

\* handleLoadedData.
Loaded ==
  /\ src.state = "open" /\ src.url \in world.good
  /\ src.kind = "mse" => \E h \in hls : Granted(h.ver)
  /\ src.kind \in {"direct", "native"} => Granted(FALSE)
  /\ src' = [src EXCEPT !.state = "loaded"] /\ loading' = FALSE
  /\ UNCHANGED <<world, stored, verified, position, failed, auth, due, loads, network, late>>

\* Mutant: one fallback too far.
Following_Two == index + 2

Following == index + 1

\* handleError. The last resort is never loaded: nothing depends on triedHls.
Broken ==
  /\ src.state = "open" /\ src.kind # "mse"
  /\ src.url \notin world.good \/ (src.kind # "blob" /\ ~Granted(FALSE))
  /\ src' = [src EXCEPT !.state = "broken"]
  /\ \/ /\ index < Urls /\ index' = Following /\ loading' = TRUE /\ failed' = FALSE
        /\ due' = TRUE /\ UNCHANGED tried
     \/ /\ index = Urls /\ world.hls # "none" /\ ~tried
        /\ tried' = TRUE /\ loading' = TRUE /\ failed' = FALSE /\ UNCHANGED <<index, due>>
     \/ /\ index = Urls /\ (world.hls = "none" \/ tried)
        /\ failed' = TRUE /\ loading' = FALSE /\ UNCHANGED <<index, tried, due>>
  /\ UNCHANGED <<world, stored, verified, known, auth, loads, network, late>>

-----------------------------------------------------------------------------
(* The overlay. *)

\* handleAgeVerified: the player asks again, from the first URL.
AgeVerified ==
  /\ auth' = FALSE /\ loading' = TRUE /\ failed' = FALSE /\ index' = 1 /\ due' = TRUE
  /\ UNCHANGED <<world, verified, known, tried, loads, network, src>>

\* handleConfirm, of a viewer who is logged in: the overlay calls back at once, as
\* it is verified itself, and after 300 ms.
Confirm ==
  /\ auth /\ ~stored /\ world.signer /\ stored' = TRUE /\ late' = TRUE /\ AgeVerified

CallBack == late /\ late' = FALSE /\ AgeVerified /\ UNCHANGED stored

\* An overlay that finds the confirmation in localStorage.
AlreadyVerified == auth /\ stored /\ AgeVerified /\ UNCHANGED <<stored, late>>

Next ==
  \/ RunLoad \/ Start \/ NewUrls \/ Loaded \/ Broken \/ Confirm \/ CallBack \/ AlreadyVerified
  \/ \E l \in Load :
       Preflight(l) \/ Manifest(l) \/ HlsDenied(l) \/ HlsFatal(l) \/ Fetched(l)

Spec == Init /\ [][Next]_vars

-----------------------------------------------------------------------------
(* Properties. *)

\* A blob the element is given is that of the current URL: the fetch of an earlier
\* load, for a URL the player has left, never comes after it.
BlobStep ==
  src' # src /\ src'.kind = "blob" /\ src'.state = "open" /\ ~due =>
    src'.ed = known /\ src'.url = index
BlobIsCurrent == [][BlobStep]_vars

\* "All direct URLs failed, try HLS as last resort": a player that has come to its
\* last resort and shows that it is loading has something to wait for.
LastResortIsTried ==
  tried /\ loading =>
    due \/ auth \/ asked # {} \/ fetched # {} \/ hls # {} \/ src.state = "open"

\* A blob that is being fetched is of the URL the player is at, unless the load effect is
\* due, which aborts the fetch; what a preflight goes on to do is not authenticated, and
\* fetches none.
BlobInv ==
  /\ \A l \in asked : ~l.ver
  /\ ~due => \A l \in fetched : l.ed = known /\ l.url = index
=============================================================================
