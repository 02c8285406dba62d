------------------------------ MODULE VideoPage ------------------------------
(***************************************************************************)
(* The page of a video, alone or in the list it was opened from. The       *)
(* Funnelcake API and the relay are asked for the same thing at once; the  *)
(* page shows the API's video and list where it has them, the relay's      *)
(* where it has not, and goes through the list with the arrow keys. Each   *)
(* key press is a page of the browser's history, though never a new mount. *)
(*                                                                         *)
(* What the cards do, titles and names, the scrolling to the video and the *)
(* half second by which the other cards come later are left out.           *)
(***************************************************************************)
EXTENDS Integers, Sequences, FiniteSets, Functions

CONSTANTS
  Initial, More, Buffer,  \* INITIAL_RENDER_COUNT, LOAD_MORE_COUNT, and the 5 around the video
  MaxNav                  \* bound: pages of the history

VARIABLES
  url,       \* where the browser is; Away is another page
  past,      \* the history behind it
  api, ws,   \* the two sources, by key
  rendered   \* state maxRendered

vars == <<url, past, api, ws, rendered>>

Id == {"v1", "v2", "v3"}
Mode == {"tag", "plain", "none"}     \* a hashtag or a profile, other lists, no list
Pages == [id : Id, vine : BOOLEAN, mode : Mode]
Away == [id |-> "none", vine |-> FALSE, mode |-> "away"]
Key == Id \cup {"tag", "plain"}
Lists == {<<"v1", "v2", "v3">>, <<"v3", "v1">>, <<>>}
Query == [is : {"none", "asked", "failed", "here"}, list : Seq(Id)]
Idle == [is |-> "none", list |-> <<>>]

TypeOK ==
  /\ url \in Pages \cup {Away} /\ past \in Seq(Pages \cup {Away}) /\ Len(past) <= MaxNav
  /\ {api, ws} \subseteq [Key -> Query]
  /\ rendered \in Nat

-----------------------------------------------------------------------------
(* What is shown. *)

ApiKey(u) == IF u.mode = "tag" THEN u.mode ELSE u.id
WsKey(u) == IF u.mode = "none" THEN u.id ELSE u.mode
HasList(u) == u.mode = "tag"

\* The list, and the video if it is in the answer. A lookup of one video brings no list; the
\* relay knows no video by its vine id.
ApiVideos(a, u) == IF HasList(u) THEN a[ApiKey(u)].list ELSE <<>>
ApiHas(a, u) == u.id \in Range(a[ApiKey(u)].list)
WsHas(w, u) == ~u.vine /\ u.id \in Range(w[WsKey(u)].list)

UsesApi(a, u) == HasList(u) /\ a[ApiKey(u)].is = "here"

Videos(a, w, u) == IF UsesApi(a, u) THEN ApiVideos(a, u) ELSE w[WsKey(u)].list

Found(a, w, u) == ApiHas(a, u) \/ WsHas(w, u)

FirstIn(s, x) == IF x \in Range(s) THEN CHOOSE i \in DOMAIN s : s[i] = x ELSE 0

\* Mutant: the place is looked up in the relay's list.
Place_Ws(a, w, u) == FirstIn(w[WsKey(u)].list, u.id)

\* currentIndex + 1; 0 where the video is not in the list. Videos of the list have both ids.
Place(a, w, u) == FirstIn(Videos(a, w, u), u.id)

\* What the page shows. The feed comes with the list, whether the video is in it or not.
Screen(a, w, u) ==
  LET loading == a[ApiKey(u)].is = "asked" /\ w[WsKey(u)].is = "asked"
  IN  IF u = Away THEN "away"
      ELSE IF ~loading /\ ~Found(a, w, u) THEN "not found"
      ELSE IF u.mode # "none" /\ Videos(a, w, u) # <<>> THEN "feed"
      ELSE "video"

\* A card of a grid was opened, with the list it is in, or a link.
Init ==
  /\ url \in {u \in Pages : u.vine => u.mode = "none"} /\ past = <<Away>>
  /\ api = [k \in Key |-> [Idle EXCEPT !.is = IF k = ApiKey(url) THEN "asked" ELSE "none"]]
  /\ ws = [k \in Key |-> [Idle EXCEPT !.is = IF k = WsKey(url) THEN "asked" ELSE "none"]]
  /\ rendered = Initial

-----------------------------------------------------------------------------
(* A render. *)

\* Mutant: the window does not move with the video.
Window_Stays(a, w, u, n) == n

\* When the place of the video changes.
Window(a, w, u, n) ==
  LET p == Place(a, w, u)
  IN  IF p > 0 /\ (p - 1) + Buffer > n THEN (p - 1) + Buffer ELSE n

\* With what the page has after a step; fresh on mounting.
Rendered(a, w, u, fresh) ==
  LET before == IF url = Away \/ fresh THEN 0 ELSE Place(api, ws, url)
      n == IF fresh THEN Initial ELSE rendered
  IN  rendered' = IF Place(a, w, u) # before THEN Window(a, w, u, n) ELSE n

\* A query whose key the page leaves is cancelled; one that has no data is asked.
Cancelled(s, k) == IF s[k].is = "asked" THEN [s EXCEPT ![k] = Idle] ELSE s
Asked(s, k, new) ==
  IF s[k].is = "none" \/ (new /\ s[k].is = "failed") THEN [s EXCEPT ![k].is = "asked"] ELSE s

GoTo(u) ==
  /\ url' = u
  /\ IF u = Away
     THEN /\ api' = IF url = Away THEN api ELSE Cancelled(api, ApiKey(url))
          /\ ws' = IF url = Away THEN ws ELSE Cancelled(ws, WsKey(url))
          /\ rendered' = Initial
     ELSE LET fresh == url = Away
              a == IF fresh \/ ApiKey(url) = ApiKey(u) THEN api ELSE Cancelled(api, ApiKey(url))
              w == IF fresh \/ WsKey(url) = WsKey(u) THEN ws ELSE Cancelled(ws, WsKey(url))
          IN  /\ api' = Asked(a, ApiKey(u), fresh \/ ApiKey(url) # ApiKey(u))
              /\ ws' = Asked(w, WsKey(u), fresh \/ WsKey(url) # WsKey(u))
              /\ Rendered(api', ws', u, fresh)

Push(u) == Len(past) < MaxNav /\ past' = Append(past, url) /\ GoTo(u)

-----------------------------------------------------------------------------
(* The steps. *)

\* An answer to the page's own queries, or none.
ApiAnswers ==
  /\ url # Away /\ api[ApiKey(url)].is = "asked"
  /\ \E s \in IF HasList(url) THEN Lists ELSE {<<url.id>>, <<>>}, ok \in BOOLEAN :
       /\ ~ok => s = <<>>
       /\ api' = [api EXCEPT ![ApiKey(url)] = [is |-> IF ok THEN "here" ELSE "failed", list |-> s]]
  /\ Rendered(api', ws, url, FALSE) /\ UNCHANGED <<url, past, ws>>

WsAnswers ==
  /\ url # Away /\ ws[WsKey(url)].is = "asked"
  /\ \E s \in IF url.mode # "none" THEN Lists ELSE {<<url.id>>, <<>>}, ok \in BOOLEAN :
       /\ ~ok \/ url.vine => s = <<>>
       /\ ws' = [ws EXCEPT ![WsKey(url)] = [is |-> IF ok THEN "here" ELSE "failed", list |-> s]]
  /\ Rendered(api, ws', url, FALSE) /\ UNCHANGED <<url, past, api>>

\* An arrow key, or the zones at the sides of a single video: the next of the list or the one
\* before, under its event id.
Move ==
  /\ url # Away
  /\ LET p == Place(api, ws, url)
         s == Videos(api, ws, url)
     IN  \E n \in {p - 1, p + 1} \cap DOMAIN s :
           p > 0 /\ Push([url EXCEPT !.id = s[n], !.vine = FALSE])

\* The close button: the hashtag's or the profile's page, elsewhere the page before.
GoBack ==
  /\ url # Away
  /\ IF url.mode = "tag" THEN Push(Away)
     ELSE past # <<>> /\ past' = SubSeq(past, 1, Len(past) - 1) /\ GoTo(past[Len(past)])

BrowserBack == past # <<>> /\ past' = SubSeq(past, 1, Len(past) - 1) /\ GoTo(past[Len(past)])

\* Scrolled to the end of what is rendered.
ShowMore ==
  /\ Screen(api, ws, url) = "feed" /\ rendered < Len(Videos(api, ws, url))
  /\ rendered' = IF rendered + More < Len(Videos(api, ws, url)) THEN rendered + More
                 ELSE Len(Videos(api, ws, url))
  /\ UNCHANGED <<url, past, api, ws>>

Next ==
  \/ ApiAnswers \/ WsAnswers \/ Move \/ GoBack \/ BrowserBack \/ ShowMore

Spec == Init /\ [][Next]_vars

-----------------------------------------------------------------------------
(* Properties. *)

\* The video of the address is among those rendered, wherever it is in the list and whichever
\* source the list comes from: an answer may put another list under the page, in which the
\* video is farther down.
CurrentIsRendered ==
  Screen(api, ws, url) = "feed" =>
    \A i \in DOMAIN Videos(api, ws, url) :
      Videos(api, ws, url)[i] = url.id => i <= rendered

\* A key goes to a neighbour, in the list on the screen, of the video that is shown.
KeyStep ==
  url # Away /\ url' # Away /\ Len(past') > Len(past) =>
    LET s == Videos(api, ws, url)
    IN  \E i, j \in DOMAIN s : s[i] = url.id /\ s[j] = url'.id /\ (i = j + 1 \/ j = i + 1)

\* What a key is pressed on: the address, the history behind it and what has come of the
\* two sources.
PageInv ==
  /\ url \in Pages \cup {Away} /\ past \in Seq(Pages \cup {Away})
  /\ api \in [Key -> Query] /\ ws \in [Key -> Query]

\* What CurrentIsRendered is kept by: no list has a video twice, and the window reaches the
\* place of the video in the list the page has now, shown or not.
Once(s) == \A i, j \in DOMAIN s : s[i] = s[j] => i = j

RenderInv ==
  /\ PageInv /\ rendered \in Nat
  /\ \A k \in Key : Once(api[k].list) /\ Once(ws[k].list)
  /\ url # Away => Place(api, ws, url) <= rendered
=============================================================================
