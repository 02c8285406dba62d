----------------------------- MODULE ContactList -----------------------------
(***************************************************************************)
(* The contact list (kind 3) of the user of the web client: the relays     *)
(* that store its versions, the event cache of the page (memory over       *)
(* IndexedDB), the follow list kept in localStorage with its own IndexedDB *)
(* copy, the queries of the home page and of profile pages, and the        *)
(* publications, each a new version of the whole list.                     *)
(*                                                                         *)
(* Versions are numbered in the order of their created_at, which no two    *)
(* share; 0 is "none". Which version IndexedDB finds first (its keys are   *)
(* event ids), whether that one is older than its TTL and whether the list *)
(* of the profile's owner is cached are left open at every read. The other *)
(* tags of the event and the limit of the memory cache are left out.       *)
(***************************************************************************)
EXTENDS Integers, Sequences, FiniteSets, FiniteSetsExt, SequencesExt, TLAPS, WellFoundedInduction

CONSTANTS
  Person,       \* whom the user may follow
  Relay,        \* the profile relays, of which a publication needs one
  Start,        \* the list another client published before
  Theirs,       \* the lists it may publish meanwhile
  Divine,       \* whether the user's profile names a divine client
  MaxVersion,   \* bound: versions of the list, less one for each reload
  MaxReload     \* bound: reloads of the page

Unread == -1    \* a query that has no data yet

VARIABLES
  fol,          \* fol[v]: the people version v names
  relay,        \* relay[r]: the version relay r stores
  mem,          \* the version in the memory cache
  idb,          \* the versions in IndexedDB
  refresh,      \* whether a background refresh is in flight
  ls,           \* followListCache: localStorage, mirrored in IndexedDB
  load,         \* what loadFromIndexedDB calls in flight have read
  list, listPc, \* query follow-list: data, and idle, start or relay
  rel, relPc,   \* queries follow-relationship; stage of the mounted one
  stale,        \* the relationships that are refetched when mounted
  safe,         \* whether follow-list-safety-check warns of nothing
  page,         \* "home" or the person whose profile is mounted
  dialog,       \* whether the safety dialog is open
  mut,          \* publications under way
  settled,      \* history: newest version for a person whose onSuccess ran
  reloads

vars == <<fol, relay, mem, idb, refresh, ls, load, list, listPc, rel, relPc,
          stale, safe, page, dialog, mut, settled, reloads>>
caches == <<mem, idb>>
followCache == <<ls, load>>
queries == <<list, listPc, rel, relPc, stale, safe>>
remote == <<fol, relay>>

Newest(S) == Max(S \cup {0})
Versions == 1..Len(fol)
Names(v) == IF v > 0 THEN fol[v] ELSE {}   \* of an event or none

TypeOK ==
  /\ fol \in BoundedSeq(SUBSET Person, MaxVersion)
  /\ relay \in [Relay -> 0..Len(fol)] /\ mem \in 0..Len(fol)
  /\ idb \subseteq Versions /\ refresh \in BOOLEAN
  /\ ls \in 0..Len(fol) /\ load \subseteq Versions
  /\ list \in Unread..Len(fol) /\ rel \in [Person -> Unread..Len(fol)]
  /\ {listPc, relPc} \subseteq {"idle", "start", "relay"}
  /\ stale \subseteq Person /\ safe \in BOOLEAN
  /\ page \in {"home"} \cup Person /\ dialog \in BOOLEAN
  /\ mut \subseteq [t : Person, v : Versions, stored : BOOLEAN]
  /\ settled \in [Person -> 0..Len(fol)] /\ reloads \in 0..MaxReload

Init ==
  /\ fol = <<Start>>
  /\ relay \in [Relay -> {0, 1}] /\ \E r \in Relay : relay[r] = 1
  /\ mem = 0 /\ idb = {} /\ refresh = FALSE /\ ls = 0 /\ load = {}
  /\ list = Unread /\ listPc = "start"
  /\ rel = [p \in Person |-> Unread] /\ relPc = "idle"
  /\ stale = {} /\ safe = TRUE /\ page = "home" /\ dialog = FALSE
  /\ mut = {} /\ settled = [p \in Person |-> 0] /\ reloads = 0

-----------------------------------------------------------------------------
(* The event cache. *)

\* IndexedDBStore.query with limit 1: the first version by key, unless too old.
IdbReads == idb \cup {0}

\* HybridEventCache.query: memory, else IndexedDB, whose answer memory keeps.
CacheReads == IF mem > 0 THEN {mem} ELSE IdbReads

\* cacheResults, and eventCache.event of a publication.
StoreResults(v) == mem' = Newest({mem, v}) /\ idb' = idb \cup ({v} \ {0})

\* What the relays in S send before the query's time is up.
Answer(S) == Newest({relay[r] : r \in S})
Answers == {Answer(S) : S \in SUBSET Relay}

\* A refresh behind a cache hit: its answer goes to the event cache alone.
RefreshAnswer ==
  /\ refresh /\ refresh' = FALSE
  /\ \E v \in Answers : StoreResults(v)
  /\ UNCHANGED <<remote, followCache, queries, page, dialog, mut, settled, reloads>>

\* preloadUserEvents, when the page has loaded: IndexedDB into memory.
Preload ==
  /\ mem = 0 /\ \E v \in idb : mem' = v
  /\ UNCHANGED <<remote, idb, refresh, followCache, queries, page, dialog, mut,
                 settled, reloads>>

-----------------------------------------------------------------------------
(* The follow list cache and the query of the home page. *)

\* loadFromIndexedDB: IndexedDB answers late, and its answer is cached again.
LoadDone(v) ==
  /\ v \in load
  /\ load' = load \ {v}
  /\ ls' = v
  /\ UNCHANGED <<remote, caches, refresh, queries, page, dialog, mut, settled,
                 reloads>>

\* Mutant: a result is taken without isNewerThan.
Shown_Unguarded(v) == IF v = 0 THEN ls ELSE v

\* The list shown for a result: the cached one when it is as new, or the result
\* is empty.
Shown(v) == IF v = 0 \/ ls >= v THEN ls ELSE v

ListResult(v) ==
  /\ list' = Shown(v)
  /\ listPc' = "idle"
  /\ ls' = Shown(v)
  /\ UNCHANGED <<load, rel, relPc, stale, safe>>

\* Mutant: nothing is refreshed behind a hit.
Hit_NoRefresh(v) == mem' = Newest({mem, v}) /\ UNCHANGED <<idb, refresh>>

\* cachedNostr.query: a hit is the answer, and is refreshed behind it.
Hit(v) == mem' = Newest({mem, v}) /\ refresh' = TRUE /\ UNCHANGED idb

ListRead ==
  /\ page = "home" /\ listPc = "start"
  /\ \E v \in CacheReads :
       IF v > 0 THEN Hit(v) /\ ListResult(v)
       ELSE /\ listPc' = "relay"
            /\ UNCHANGED <<caches, refresh, followCache, list, rel, relPc, stale, safe>>
  /\ UNCHANGED <<remote, page, dialog, mut, settled, reloads>>

ListAnswer ==
  /\ page = "home" /\ listPc = "relay"
  /\ \E v \in Answers : StoreResults(v) /\ ListResult(v)
  /\ UNCHANGED <<remote, refresh, page, dialog, mut, settled, reloads>>

\* The user comes back to the tab when the list is older than its staleTime.
Focus ==
  /\ page = "home" /\ listPc = "idle"
  /\ listPc' = "start"
  /\ UNCHANGED <<remote, caches, refresh, followCache, list, rel, relPc, stale, safe,
                 page, dialog, mut, settled, reloads>>

-----------------------------------------------------------------------------
(* Profile pages. *)

\* Mutant: a fetch under way is joined.
Refetch_Joins(p) ==
  IF p = page /\ relPc = "idle" THEN relPc' = "start" ELSE UNCHANGED relPc

\* invalidateQueries cancels a mounted query's fetch and starts it again.
Refetch(p) == IF p = page THEN relPc' = "start" ELSE UNCHANGED relPc

RelResult(v) ==
  /\ rel' = [rel EXCEPT ![page] = v]
  /\ relPc' = "idle"
  /\ stale' = stale \ {page}
  /\ UNCHANGED <<list, listPc, safe>>

\* A cached list of p alone is a hit too, with nothing of the user's.
RelRead ==
  /\ page \in Person /\ relPc = "start"
  /\ \/ \E v \in CacheReads : Hit(v) /\ RelResult(v)
     \/ /\ mem = 0 /\ relPc' = "relay"
        /\ UNCHANGED <<caches, refresh, list, listPc, rel, stale, safe>>
  /\ UNCHANGED <<remote, followCache, page, dialog, mut, settled, reloads>>

\* No answer, an error or the timeout: no list.
RelAnswer ==
  /\ page \in Person /\ relPc = "relay"
  /\ \E v \in Answers : StoreResults(v) /\ RelResult(v)
  /\ UNCHANGED <<remote, refresh, followCache, page, dialog, mut, settled, reloads>>

\* Thirty seconds pass for a relationship, and five minutes out of sight.
RelAge(p) ==
  /\ rel[p] # Unread
  /\ \/ p \notin stale /\ stale' = stale \cup {p} /\ UNCHANGED rel
     \/ p # page /\ rel' = [rel EXCEPT ![p] = Unread] /\ stale' = stale \ {p}
  /\ UNCHANGED <<remote, caches, refresh, followCache, list, listPc, relPc, safe, page,
                 dialog, mut, settled, reloads>>

\* useFollowListSafetyCheck: unread and error are nothing to warn of; a hit on the
\* profile alone hides the list.
Unsafe(v) == Names(v) = {} /\ ~Divine
SafetyAnswer ==
  /\ page \in Person /\ safe
  /\ \E v \in {0, mem} \cup Answers : Unsafe(v)
  /\ safe' = FALSE
  /\ UNCHANGED <<remote, caches, refresh, followCache, list, listPc, rel, relPc, stale,
                 page, dialog, mut, settled, reloads>>

\* A page's queries are cancelled when it is left; the next page's start.
Go(p) ==
  /\ p # page
  /\ page' = p /\ dialog' = FALSE
  /\ IF p = "home"
     THEN /\ listPc' = "start" /\ relPc' = "idle"
          /\ list' = IF list = Unread /\ ls > 0 THEN ls ELSE list
     ELSE /\ listPc' = "idle"
          /\ relPc' = IF rel[p] = Unread \/ p \in stale THEN "start" ELSE "idle"
          /\ UNCHANGED list
  /\ UNCHANGED <<remote, caches, refresh, followCache, rel, stale, safe, mut, settled,
                 reloads>>

-----------------------------------------------------------------------------
(* Publications. *)

NewVersion(S) == Len(fol) + reloads < MaxVersion /\ fol' = Append(fol, S)

Base(p) == Names(rel[p])
Following(p) == p \in Base(p)

Publish(S) ==
  /\ NewVersion(S)
  /\ mut' = mut \cup {[t |-> page, v |-> Len(fol) + 1, stored |-> FALSE]}
  /\ UNCHANGED <<relay, caches, refresh, followCache, queries, page, settled, reloads>>

\* handleFollowToggle: the button is never disabled, and unread is nobody's list.
ClickFollow ==
  /\ page \in Person /\ ~dialog /\ ~Following(page)
  /\ IF ~safe
     THEN /\ dialog' = TRUE
          /\ UNCHANGED <<remote, caches, refresh, followCache, queries, page, mut,
                         settled, reloads>>
     ELSE Publish(Base(page) \cup {page}) /\ UNCHANGED dialog

ClickUnfollow ==
  /\ page \in Person /\ ~dialog /\ Following(page)
  /\ Publish(Base(page) \ {page}) /\ UNCHANGED dialog

Confirm ==
  /\ dialog /\ dialog' = FALSE
  /\ IF page \in Base(page)
     THEN UNCHANGED <<remote, caches, refresh, followCache, queries, page, mut, settled,
                      reloads>>
     ELSE Publish(Base(page) \cup {page})

Cancel ==
  /\ dialog /\ dialog' = FALSE
  /\ UNCHANGED <<remote, caches, refresh, followCache, queries, page, mut, settled,
                 reloads>>

\* A relay keeps the newest version it has been sent.
Accept(v, S) == relay' = [r \in Relay |-> IF r \in S THEN Newest({relay[r], v}) ELSE relay[r]]

\* The relays in S accept; the version is in the event cache before onSuccess.
Published(m) ==
  /\ m \in mut /\ ~m.stored
  /\ \E S \in SUBSET Relay \ {{}} : Accept(m.v, S)
  /\ StoreResults(m.v)
  /\ mut' = (mut \ {m}) \cup {[m EXCEPT !.stored = TRUE]}
  /\ UNCHANGED <<fol, refresh, followCache, queries, page, dialog, settled, reloads>>

Refused(m) ==
  /\ m \in mut /\ ~m.stored
  /\ mut' = mut \ {m}
  /\ UNCHANGED <<remote, caches, refresh, followCache, queries, page, dialog, settled,
                 reloads>>

\* Mutant: the relationship of the page is invalidated, not that of the target.
Invalidate_Page(p) ==
  /\ ls' = 0 /\ UNCHANGED load
  /\ stale' = stale \cup {page}
  /\ Refetch(p)
  /\ listPc' = IF page = "home" THEN "start" ELSE listPc
  /\ UNCHANGED <<list, rel, safe>>

\* onSuccess of useFollowUser and useUnfollowUser.
Invalidate(p) ==
  /\ ls' = 0 /\ UNCHANGED load
  /\ stale' = IF rel[p] = Unread THEN stale ELSE stale \cup {p}
  /\ Refetch(p)
  /\ listPc' = IF page = "home" THEN "start" ELSE listPc
  /\ UNCHANGED <<list, rel, safe>>

Succeed(m) ==
  /\ m \in mut /\ m.stored
  /\ mut' = mut \ {m}
  /\ Invalidate(m.t)
  /\ settled' = [settled EXCEPT ![m.t] = Newest({@, m.v})]
  /\ UNCHANGED <<remote, caches, refresh, page, dialog, reloads>>

-----------------------------------------------------------------------------
(* Another client, and the browser. *)

OtherClient ==
  /\ \E S \in Theirs : NewVersion(S)
  /\ \E S \in SUBSET Relay \ {{}} : Accept(Len(fol) + 1, S)
  /\ UNCHANGED <<caches, refresh, followCache, queries, page, dialog, mut, settled,
                 reloads>>

\* A reload, perhaps after the browser has dropped localStorage: EventCachePreloader
\* and useFollowList each start a load when it is empty.
Reload ==
  /\ reloads < MaxReload /\ Len(fol) + reloads < MaxVersion /\ reloads' = reloads + 1
  /\ mem' = 0 /\ refresh' = FALSE /\ mut' = {} /\ dialog' = FALSE /\ page' = "home"
  /\ \E kept \in BOOLEAN : ls' = IF kept THEN ls ELSE 0
  /\ load' = {ls} \ {ls', 0}
  /\ list' = IF ls' > 0 THEN ls' ELSE Unread
  /\ listPc' = "start" /\ rel' = [p \in Person |-> Unread] /\ relPc' = "idle"
  /\ stale' = {} /\ safe' = TRUE /\ settled' = [p \in Person |-> 0]
  /\ UNCHANGED <<remote, idb>>

Next ==
  \/ \E p \in {"home"} \cup Person : Go(p)
  \/ \E v \in Versions : LoadDone(v)
  \/ RefreshAnswer \/ Preload \/ ListRead \/ ListAnswer \/ Focus \/ RelRead \/ RelAnswer
  \/ \E p \in Person : RelAge(p)
  \/ SafetyAnswer \/ ClickFollow \/ ClickUnfollow \/ Confirm \/ Cancel
  \/ \E m \in mut : Published(m) \/ Refused(m) \/ Succeed(m)
  \/ OtherClient \/ Reload

Spec == Init /\ [][Next]_vars
-----------------------------------------------------------------------------
(* Properties. *)

\* The list the home page shows never gives way to an older version while the
\* page lives, nor to an empty one: with the caches filled by three writers and
\* relays that answer in part, the guards of useFollowList have to see to it.
FeedStep == list' >= list \/ reloads' # reloads
FeedNeverGoesBack == [][FeedStep]_vars

\* When the publication for a person has succeeded, the profile page of that
\* person at rest shows it or a newer one: queries that were under way when it
\* was published have not answered after it (onSuccess of useFollowUser).
SettledShown ==
  page \in Person /\ relPc = "idle" => rel[page] >= settled[page]

\* An answer that fills memory with what all relays have.
Answered == (RefreshAnswer \/ ListAnswer) /\ mem' >= Answer(Relay)

\* The home page follows whom the newest list stored names.
ListIsNewest == list = Answer(Relay)

\* If the user keeps coming back to the home page and what asks the relays again
\* and again gets the answer of each of them at times, the list shown becomes
\* and stays the newest one stored (cachedNostr answers from its cache and
\* refreshes it behind).
FollowListCatchesUp ==
  /\ []<><<Focus>>_vars
  /\ SF_vars(Answered)
  => <>[]ListIsNewest

-----------------------------------------------------------------------------
(* Proofs. *)

\* A set of versions has a newest one, which the relays and the caches answer with.
LEMMA NewestOf ==
  ASSUME NEW n \in Nat, NEW S, S \subseteq 0..n
  PROVE  Newest(S) \in 0..n /\ \A v \in S : v <= Newest(S)
<1> DEFINE U == S \cup {0}
           T == {n - v : v \in U}
<1>1. T \subseteq Nat /\ n \in T
  OBVIOUS
<1>2. PICK x \in T : \A y \in T : <<y, x>> \notin OpToRel(<, Nat)
  <2>1. T # {} /\ IsWellFoundedOn(OpToRel(<, Nat), Nat)
    BY <1>1, NatLessThanWellFounded
  <2> HIDE DEF T
  <2> QED BY <1>1, <2>1, WFMin
<1>3. \A y \in T : ~(y < x)
  <2> SUFFICES ASSUME NEW y \in T, y < x PROVE FALSE
    OBVIOUS
  <2>1. <<y, x>> \in Nat \X Nat
    BY <1>1
  <2>2. <<y, x>> \in OpToRel(<, Nat)
    BY <2>1 DEF OpToRel
  <2> QED BY <1>2, <2>2
<1>4. PICK w \in U : x = n - w
  OBVIOUS
<1>5. \A v \in U : w >= v
  <2> SUFFICES ASSUME NEW v \in U PROVE w >= v
    OBVIOUS
  <2>1. n - v \in T
    OBVIOUS
  <2>2. ~(n - v < n - w)
    BY <1>3, <1>4, <2>1
  <2> QED BY <2>2
<1>6. Newest(S) \in U /\ \A v \in U : Newest(S) >= v
  BY <1>5 DEF Newest, Max
<1>7. U \subseteq 0..n /\ S \subseteq U
  OBVIOUS
<1> HIDE DEF U
<1> QED BY <1>6, <1>7

LEMMA NewestOfTwo ==
  ASSUME NEW n \in Nat, NEW v \in 0..n, NEW w \in 0..n
  PROVE  Newest({v, w}) \in 0..n /\ v <= Newest({v, w}) /\ w <= Newest({v, w})
  BY NewestOf

-----------------------------------------------------------------------------
(* The types that the proofs need, for any number of versions. *)

People == Person \cup Start \cup UNION Theirs
Typed ==
  /\ fol \in Seq(SUBSET People)
  /\ relay \in [Relay -> 0..Len(fol)] /\ mem \in 0..Len(fol) /\ idb \subseteq 1..Len(fol)
  /\ ls \in 0..Len(fol) /\ load \subseteq 1..Len(fol)
  /\ list \in Unread..Len(fol) /\ rel \in [Person -> Unread..Len(fol)]
  /\ mut \subseteq [t : Person, v : 1..Len(fol), stored : BOOLEAN]
  /\ settled \in [Person -> 0..Len(fol)]
  /\ page \in {"home"} \cup Person /\ (dialog => page \in Person)
  /\ reloads \in Nat

LEMMA AnswersTyped ==
  ASSUME Typed
  PROVE  /\ Len(fol) \in Nat
         /\ \A v \in Answers : v \in 0..Len(fol)
         /\ \A v \in CacheReads : v \in 0..Len(fol) /\ (mem > 0 => v = mem)
<1>1. Len(fol) \in Nat
  BY DEF Typed
<1>2. ASSUME NEW S \in SUBSET Relay PROVE Answer(S) \in 0..Len(fol)
  <2>1. {relay[r] : r \in S} \subseteq 0..Len(fol)
    BY DEF Typed
  <2> QED BY <1>1, <2>1, NewestOf DEF Answer
<1>3. \A v \in CacheReads : v \in 0..Len(fol) /\ (mem > 0 => v = mem)
  BY <1>1 DEF CacheReads, IdbReads, Typed
<1> QED BY <1>1, <1>2, <1>3 DEF Answers

\* What is stored in the event cache makes its memory no older.
LEMMA StoreTyped ==
  ASSUME Typed, NEW v \in 0..Len(fol), StoreResults(v) \/ Hit(v)
  PROVE  mem' \in 0..Len(fol) /\ mem <= mem' /\ v <= mem' /\ idb' \subseteq 1..Len(fol)
<1>1. Len(fol) \in Nat /\ mem \in 0..Len(fol) /\ idb \subseteq 1..Len(fol)
  BY DEF Typed
<1>2. mem' = Newest({mem, v}) /\ idb' \subseteq idb \cup ({v} \ {0})
  BY DEF StoreResults, Hit
<1> QED BY <1>1, <1>2, NewestOfTwo

LEMMA AcceptTyped ==
  ASSUME NEW n \in Nat, relay \in [Relay -> 0..n], NEW v \in 0..n, NEW S, Accept(v, S)
  PROVE  relay' \in [Relay -> 0..n]
  BY NewestOfTwo DEF Accept

LEMMA Wider ==
  ASSUME Typed, NEW n, n = Len(fol) + 1
  PROVE  /\ relay \in [Relay -> 0..n] /\ mem \in 0..n /\ idb \subseteq 1..n
         /\ ls \in 0..n /\ load \subseteq 1..n
         /\ list \in Unread..n /\ rel \in [Person -> Unread..n]
         /\ mut \subseteq [t : Person, v : 1..n, stored : BOOLEAN]
         /\ settled \in [Person -> 0..n]
<1>1. Len(fol) \in Nat
  BY DEF Typed
<1>2. 0..Len(fol) \subseteq 0..n /\ 1..Len(fol) \subseteq 1..n /\ Unread..Len(fol) \subseteq Unread..n
  BY <1>1 DEF Unread
<1> QED BY <1>2 DEF Typed

\* A new version is newer than what is stored anywhere.
LEMMA Grown ==
  ASSUME Typed, NEW S \in SUBSET People, NewVersion(S)
  PROVE  fol' \in Seq(SUBSET People) /\ Len(fol') = Len(fol) + 1 /\ Len(fol) \in Nat
  BY DEF Typed, NewVersion

-----------------------------------------------------------------------------
(* What the steps do. *)

\* A step that makes no version leaves the types of what it leaves alone.
Answering == RefreshAnswer \/ ListRead \/ ListAnswer \/ RelRead \/ RelAnswer
Clicking == ClickFollow \/ ClickUnfollow \/ Confirm \/ Cancel

\* A publication of the page is of a person, and nothing else changes with it.
LEMMA PublishIs ==
  ASSUME Typed, NEW S \in SUBSET People, page \in Person, Publish(S)
  PROVE  /\ fol' \in Seq(SUBSET People) /\ Len(fol') = Len(fol) + 1 /\ Len(fol) \in Nat
         /\ mut' = mut \cup {[t |-> page, v |-> Len(fol) + 1, stored |-> FALSE]}
         /\ relay' = relay /\ mem' = mem /\ idb' = idb /\ ls' = ls /\ load' = load
         /\ list' = list /\ listPc' = listPc /\ rel' = rel /\ relPc' = relPc
         /\ stale' = stale /\ page' = page /\ settled' = settled /\ reloads' = reloads
  BY Grown DEF Publish, caches, followCache, queries

\* A click on the follow button, or in its dialog, publishes a list or changes no data.
LEMMA ClickingIs ==
  ASSUME Typed, Clicking
  PROVE  /\ \/ /\ fol' = fol /\ mut' = mut
            \/ /\ page \in Person
               /\ fol' \in Seq(SUBSET People) /\ Len(fol') = Len(fol) + 1
               /\ mut' = mut \cup {[t |-> page, v |-> Len(fol) + 1, stored |-> FALSE]}
         /\ relay' = relay /\ mem' = mem /\ idb' = idb /\ ls' = ls /\ load' = load
         /\ list' = list /\ listPc' = listPc /\ rel' = rel /\ relPc' = relPc
         /\ stale' = stale /\ page' = page /\ settled' = settled /\ reloads' = reloads
         /\ dialog' => page \in Person
<1>1. page \in Person => Base(page) \subseteq People
  <2> SUFFICES ASSUME page \in Person PROVE Names(rel[page]) \subseteq People
    BY DEF Base
  <2>1. rel[page] \in Unread..Len(fol) /\ fol \in Seq(SUBSET People)
    BY DEF Typed
  <2>2. rel[page] > 0 => fol[rel[page]] \in SUBSET People
    BY <2>1 DEF Unread
  <2> QED BY <2>2 DEF Names
<1>2. page \in Person =>
        Base(page) \cup {page} \in SUBSET People /\ Base(page) \ {page} \in SUBSET People
  BY <1>1 DEF People
<1>3. dialog => page \in Person
  BY DEF Typed
<1>4. CASE ClickFollow
  <2>1. CASE ~safe
    BY <1>4, <2>1 DEF ClickFollow, remote, caches, followCache, queries
  <2>2. CASE safe
    BY <1>2, <1>4, <2>2, PublishIs DEF ClickFollow
  <2> QED BY <2>1, <2>2
<1>5. CASE ClickUnfollow
  BY <1>2, <1>5, PublishIs DEF ClickUnfollow
<1>6. CASE Confirm
  <2>1. CASE page \in Base(page)
    BY <1>6, <2>1 DEF Confirm, remote, caches, followCache, queries
  <2>2. CASE page \notin Base(page)
    BY <1>2, <1>3, <1>6, <2>2, PublishIs DEF Confirm
  <2> QED BY <2>1, <2>2
<1>7. CASE Cancel
  BY <1>7 DEF Cancel, remote, caches, followCache, queries
<1> QED BY <1>4, <1>5, <1>6, <1>7 DEF Clicking

\* An answer or a read changes one of the two queries, or none; memory gets no older, and
\* what a query is given is no newer than memory then is.
HomeStays == list' = list /\ ls' = ls /\ listPc' = listPc
HomeMisses == page = "home" /\ mem = 0 /\ list' = list /\ ls' = ls /\ listPc' = "relay"
HomeResult ==
  /\ page = "home" /\ listPc' = "idle"
  /\ \E v \in 0..Len(fol) :
       /\ v <= mem' /\ list' = Shown(v) /\ ls' = Shown(v)
       /\ listPc = "relay" \/ v >= mem
ProfileStays == rel' = rel /\ relPc' = relPc /\ stale' = stale
ProfileMisses == page \in Person /\ mem = 0 /\ rel' = rel /\ relPc' = "relay" /\ stale' = stale
ProfileResult ==
  /\ page \in Person /\ relPc' = "idle" /\ stale' = stale \ {page}
  /\ \E v \in 0..Len(fol) :
       /\ rel' = [rel EXCEPT ![page] = v]
       /\ relPc = "relay" \/ v >= mem

LEMMA AnsweringIs ==
  ASSUME Typed, Answering
  PROVE  /\ fol' = fol /\ relay' = relay /\ load' = load /\ page' = page /\ dialog' = dialog
         /\ mut' = mut /\ settled' = settled /\ reloads' = reloads
         /\ mem' \in 0..Len(fol) /\ mem <= mem' /\ idb' \subseteq 1..Len(fol)
         /\ \/ HomeStays /\ (ProfileStays \/ ProfileMisses \/ ProfileResult)
            \/ (HomeMisses \/ HomeResult) /\ ProfileStays
<1>0. Len(fol) \in Nat /\ mem \in 0..Len(fol) /\ idb \subseteq 1..Len(fol)
  BY DEF Typed
<1>1. CASE RefreshAnswer
  <2> PICK v \in Answers : StoreResults(v)
    BY <1>1 DEF RefreshAnswer
  <2> QED
    BY <1>1, AnswersTyped, StoreTyped
    DEF RefreshAnswer, remote, followCache, queries, HomeStays, ProfileStays
<1>2. CASE ListRead
  <2> PICK v \in CacheReads :
        IF v > 0 THEN Hit(v) /\ ListResult(v)
        ELSE /\ listPc' = "relay"
             /\ UNCHANGED <<caches, refresh, followCache, list, rel, relPc, stale, safe>>
    BY <1>2 DEF ListRead
  <2>1. v \in 0..Len(fol) /\ (mem > 0 => v = mem)
    BY AnswersTyped
  <2>2. CASE v > 0
    <3>1. mem' \in 0..Len(fol) /\ mem <= mem' /\ v <= mem' /\ idb' \subseteq 1..Len(fol)
      BY <2>1, <2>2, StoreTyped
    <3>2. v >= mem
      BY <1>0, <2>1
    <3>3. HomeResult /\ ProfileStays
      BY <1>2, <2>1, <2>2, <3>1, <3>2 DEF ListRead, ListResult, HomeResult, ProfileStays
    <3> QED BY <1>2, <2>2, <3>1, <3>3 DEF ListRead, ListResult, remote
  <2>3. CASE ~(v > 0)
    <3>1. mem = 0 /\ mem' = mem /\ idb' = idb
      BY <1>0, <2>1, <2>3 DEF caches
    <3> QED
      BY <1>0, <1>2, <2>3, <3>1 DEF ListRead, followCache, remote, HomeMisses, ProfileStays
  <2> QED BY <2>2, <2>3
<1>3. CASE ListAnswer
  <2> PICK v \in Answers : StoreResults(v) /\ ListResult(v)
    BY <1>3 DEF ListAnswer
  <2>1. v \in 0..Len(fol)
    BY AnswersTyped
  <2>2. mem' \in 0..Len(fol) /\ mem <= mem' /\ v <= mem' /\ idb' \subseteq 1..Len(fol)
    BY <2>1, StoreTyped
  <2>3. HomeResult /\ ProfileStays
    BY <1>3, <2>1, <2>2 DEF ListAnswer, ListResult, HomeResult, ProfileStays
  <2> QED BY <1>3, <2>2, <2>3 DEF ListAnswer, ListResult, remote
<1>4. CASE RelRead
  <2>1. ASSUME NEW v \in CacheReads, Hit(v), RelResult(v)
        PROVE  /\ mem' \in 0..Len(fol) /\ mem <= mem' /\ idb' \subseteq 1..Len(fol)
               /\ ProfileResult
    <3>1. v \in 0..Len(fol) /\ v >= mem
      BY <1>0, AnswersTyped
    <3> QED BY <1>4, <2>1, <3>1, StoreTyped DEF RelRead, RelResult, ProfileResult
  <2>2. CASE \E v \in CacheReads : Hit(v) /\ RelResult(v)
    BY <1>4, <2>1, <2>2 DEF RelRead, RelResult, remote, followCache, HomeStays
  <2>3. CASE /\ mem = 0 /\ relPc' = "relay"
             /\ UNCHANGED <<caches, refresh, list, listPc, rel, stale, safe>>
    <3>1. mem' = mem /\ idb' = idb
      BY <2>3 DEF caches
    <3> QED
      BY <1>0, <1>4, <2>3, <3>1 DEF RelRead, remote, followCache, HomeStays, ProfileMisses
  <2> QED BY <1>4, <2>2, <2>3 DEF RelRead
<1>5. CASE RelAnswer
  <2> PICK v \in Answers : StoreResults(v) /\ RelResult(v)
    BY <1>5 DEF RelAnswer
  <2>1. v \in 0..Len(fol)
    BY AnswersTyped
  <2>2. ProfileResult
    BY <1>5, <2>1 DEF RelAnswer, RelResult, ProfileResult
  <2> QED
    BY <1>5, <2>1, <2>2, StoreTyped DEF RelAnswer, RelResult, remote, followCache, HomeStays
<1> QED BY <1>1, <1>2, <1>3, <1>4, <1>5 DEF Answering

\* onSuccess empties the follow list cache and has the queries of the person asked anew.
LEMMA SucceedIs ==
  ASSUME Typed, NEW m \in mut, Succeed(m)
  PROVE  /\ fol' = fol /\ relay' = relay /\ mem' = mem /\ idb' = idb /\ load' = load
         /\ page' = page /\ dialog' = dialog /\ reloads' = reloads /\ list' = list
         /\ rel' = rel /\ mut' = mut \ {m} /\ ls' = 0
         /\ m.t \in Person /\ m.v \in 1..Len(fol) /\ m.stored
         /\ stale' = (IF rel[m.t] = Unread THEN stale ELSE stale \cup {m.t})
         /\ relPc' = (IF m.t = page THEN "start" ELSE relPc)
         /\ listPc' = (IF page = "home" THEN "start" ELSE listPc)
         /\ settled' = [settled EXCEPT ![m.t] = Newest({settled[m.t], m.v})]
  BY DEF Succeed, Invalidate, Refetch, remote, caches, Typed

LEMMA TypedInit == Init => Typed
<1> SUFFICES ASSUME Init PROVE Typed
  OBVIOUS
<1>1. fol = <<Start>> /\ Start \in SUBSET People
  BY DEF Init, People
<1>2. fol \in Seq(SUBSET People) /\ Len(fol) = 1
  BY <1>1
<1> QED BY <1>2 DEF Init, Typed, Unread

LEMMA TypedStep == Typed /\ [Next]_vars => Typed'
<1> SUFFICES ASSUME Typed, [Next]_vars PROVE Typed'
  OBVIOUS
<1>0. Len(fol) \in Nat /\ Unread = -1
  BY DEF Typed, Unread
<1>1. CASE Answering
  <2>1. list' \in Unread..Len(fol) /\ ls' \in 0..Len(fol)
    BY <1>0, <1>1, AnsweringIs DEF HomeStays, HomeMisses, HomeResult, Shown, Typed
  <2>2. rel' \in [Person -> Unread..Len(fol)]
    BY <1>0, <1>1, AnsweringIs DEF ProfileStays, ProfileMisses, ProfileResult, Typed
  <2>3. /\ UNCHANGED <<fol, relay, load, page, dialog, mut, settled, reloads>>
        /\ mem' \in 0..Len(fol) /\ idb' \subseteq 1..Len(fol)
    BY <1>1, AnsweringIs
  <2> QED BY <2>1, <2>2, <2>3 DEF Typed
<1>2. CASE Clicking
  <2>1. CASE fol' = fol /\ mut' = mut
    BY <1>2, <2>1, ClickingIs DEF Typed
  <2>2. CASE /\ page \in Person
             /\ fol' \in Seq(SUBSET People) /\ Len(fol') = Len(fol) + 1
             /\ mut' = mut \cup {[t |-> page, v |-> Len(fol) + 1, stored |-> FALSE]}
    <3>1. [t |-> page, v |-> Len(fol) + 1, stored |-> FALSE]
             \in [t : Person, v : 1..Len(fol'), stored : BOOLEAN]
      BY <1>0, <2>2
    <3>2. UNCHANGED <<relay, mem, idb, ls, load, list, rel, settled, page, reloads>>
          /\ (dialog' => page \in Person)
      BY <1>2, ClickingIs
    <3> QED BY <2>2, <3>1, <3>2, Wider DEF Typed
  <2> QED BY <1>2, <2>1, <2>2, ClickingIs
<1>3. ASSUME NEW m \in mut, Succeed(m) PROVE Typed'
  <2>1. m.t \in Person /\ m.v \in 0..Len(fol) /\ settled[m.t] \in 0..Len(fol)
    BY <1>0, <1>3, SucceedIs DEF Typed
  <2>2. Newest({settled[m.t], m.v}) \in 0..Len(fol)
    BY <1>0, <2>1, NewestOfTwo
  <2>3. /\ UNCHANGED <<fol, relay, mem, idb, load, page, dialog, reloads, list, rel>>
        /\ mut' \subseteq mut /\ ls' = 0
        /\ settled' = [settled EXCEPT ![m.t] = Newest({settled[m.t], m.v})]
    BY <1>3, SucceedIs
  <2> QED BY <1>0, <2>2, <2>3 DEF Typed
<1>4. ASSUME NEW m \in mut, Published(m) PROVE Typed'
  <2>1. m \in [t : Person, v : 1..Len(fol), stored : BOOLEAN]
    BY DEF Typed
  <2>2. relay' \in [Relay -> 0..Len(fol)]
    <3>1. m.v \in 0..Len(fol) /\ relay \in [Relay -> 0..Len(fol)]
      BY <1>0, <2>1 DEF Typed
    <3> QED BY <1>0, <1>4, <3>1, AcceptTyped DEF Published
  <2>3. mem' \in 0..Len(fol) /\ idb' \subseteq 1..Len(fol)
    BY <1>0, <1>4, <2>1, StoreTyped DEF Published
  <2>4. mut' \subseteq [t : Person, v : 1..Len(fol), stored : BOOLEAN]
    BY <1>4, <2>1 DEF Published, Typed
  <2> QED BY <1>4, <2>2, <2>3, <2>4 DEF Published, followCache, queries, Typed
<1>5. ASSUME NEW m \in mut, Refused(m) PROVE Typed'
  BY <1>5 DEF Refused, remote, caches, followCache, queries, Typed
<1>6. CASE OtherClient
  <2> PICK S \in Theirs : NewVersion(S)
    BY <1>6 DEF OtherClient
  <2>1. fol' \in Seq(SUBSET People) /\ Len(fol') = Len(fol) + 1
    BY Grown DEF People
  <2>2. relay \in [Relay -> 0..Len(fol')] /\ Len(fol) + 1 \in 0..Len(fol') /\ Len(fol') \in Nat
    BY <1>0, <2>1, Wider
  <2>3. relay' \in [Relay -> 0..Len(fol')]
    BY <1>6, <2>2, AcceptTyped DEF OtherClient
  <2>5. UNCHANGED <<mem, idb, ls, load, list, rel, mut, settled, page, dialog, reloads>>
    BY <1>6 DEF OtherClient, caches, followCache, queries
  <2> QED BY <2>1, <2>3, <2>5, Wider DEF Typed
<1>7. CASE Reload
  <2>1. UNCHANGED <<fol, relay, idb>> /\ ls' \in {0, ls} /\ load' \subseteq {ls} \ {0}
        /\ list' \in {ls', Unread}
    BY <1>7 DEF Reload, remote
  <2>2. mem' = 0 /\ mut' = {} /\ dialog' = FALSE /\ page' = "home" /\ reloads' = reloads + 1
        /\ rel' = [p \in Person |-> Unread] /\ settled' = [p \in Person |-> 0]
    BY <1>7 DEF Reload
  <2> QED BY <1>0, <2>1, <2>2 DEF Typed
<1>8. ASSUME NEW p \in {"home"} \cup Person, Go(p) PROVE Typed'
  <2>1. UNCHANGED <<fol, relay, mem, idb, ls, load, rel, mut, settled, reloads>>
        /\ list' \in {list, ls} /\ page' = p /\ dialog' = FALSE
    BY <1>8 DEF Go, remote, caches, followCache
  <2> QED BY <1>0, <2>1 DEF Typed
<1>9. ASSUME NEW p \in Person, RelAge(p) PROVE Typed'
  <2>1. rel' \in {rel, [rel EXCEPT ![p] = Unread]}
        /\ UNCHANGED <<fol, relay, mem, idb, ls, load, list, mut, settled, page, dialog, reloads>>
    BY <1>9 DEF RelAge, remote, caches, followCache
  <2> QED BY <1>0, <2>1 DEF Typed
<1>10. ASSUME NEW v \in Versions, LoadDone(v) PROVE Typed'
  BY <1>0, <1>10 DEF LoadDone, remote, caches, queries, Typed
<1>11. CASE Preload
  BY <1>0, <1>11 DEF Preload, remote, followCache, queries, Typed
<1>12. CASE Focus \/ SafetyAnswer \/ UNCHANGED vars
  <2>1. UNCHANGED <<fol, relay, mem, idb, ls, load, list, rel, mut, settled, page, dialog, reloads>>
    BY <1>12 DEF Focus, SafetyAnswer, remote, caches, followCache, vars
  <2> QED BY <2>1 DEF Typed
<1> QED
  BY <1>1, <1>2, <1>3, <1>4, <1>5, <1>6, <1>7, <1>8, <1>9, <1>10, <1>11, <1>12
  DEF Next, Answering, Clicking

-----------------------------------------------------------------------------
(* A profile page at rest shows what has been published for the person. *)

\* Memory has every version that was published, so that a query that reads it, or starts
\* when there is nothing in it, gets none that is older; a query that asks the relays
\* began when nothing had been published for the person.
SettledInv ==
  /\ \A p \in Person : settled[p] <= mem
  /\ \A m \in mut : m.stored => m.v <= mem
  /\ page \in Person /\ relPc = "relay" => settled[page] = 0
  /\ \A p \in Person : rel[p] = Unread \/ p \in stale \/ rel[p] >= settled[p]
  /\ page \in Person /\ relPc = "idle" => rel[page] >= settled[page]

LEMMA SettledStep ==
  "home" \notin Person => (Typed /\ SettledInv /\ [Next]_vars => SettledInv')
<1> SUFFICES ASSUME "home" \notin Person, Typed, SettledInv, [Next]_vars PROVE SettledInv'
  OBVIOUS
<1>0. /\ Len(fol) \in Nat /\ Unread = -1 /\ mem \in 0..Len(fol)
      /\ \A p \in Person : settled[p] \in 0..Len(fol) /\ rel[p] \in Unread..Len(fol)
      /\ \A m \in mut : m.v \in 1..Len(fol)
  BY DEF Typed, Unread
<1>1. CASE Answering
  <2>1. UNCHANGED <<mut, settled, page>> /\ mem' \in 0..Len(fol) /\ mem <= mem'
    BY <1>1, AnsweringIs
  <2>2. \A p \in Person : settled'[p] <= mem'
    BY <1>0, <2>1 DEF SettledInv
  <2>3. \A m \in mut' : m.stored => m.v <= mem'
    BY <1>0, <2>1 DEF SettledInv
  <2>4. CASE ProfileStays
    BY <2>1, <2>2, <2>3, <2>4 DEF SettledInv, ProfileStays
  <2>5. CASE ProfileMisses
    BY <1>0, <2>1, <2>2, <2>3, <2>5 DEF SettledInv, ProfileMisses
  <2>6. CASE ProfileResult
    <3> PICK v \in 0..Len(fol) : rel' = [rel EXCEPT ![page] = v] /\ (relPc = "relay" \/ v >= mem)
      BY <2>6 DEF ProfileResult
    <3>1. page \in Person /\ relPc' = "idle" /\ stale' = stale \ {page}
      BY <2>6 DEF ProfileResult
    <3>2. v >= settled[page]
      BY <1>0, <3>1 DEF SettledInv
    <3>3. rel \in [Person -> Unread..Len(fol)]
      BY DEF Typed
    <3> QED BY <2>1, <2>2, <2>3, <3>1, <3>2, <3>3 DEF SettledInv
  <2> QED BY <1>1, <2>4, <2>5, <2>6, AnsweringIs
<1>2. CASE Clicking
  <2>1. UNCHANGED <<mem, rel, relPc, stale, page, settled>>
    BY <1>2, ClickingIs
  <2>2. \A m \in mut' : m \in mut \/ ~m.stored
    BY <1>2, ClickingIs
  <2> QED BY <2>1, <2>2 DEF SettledInv
<1>3. ASSUME NEW m \in mut, Succeed(m) PROVE SettledInv'
  <2>1. /\ UNCHANGED <<mem, page, rel>> /\ m.t \in Person /\ m.v <= mem /\ mut' \subseteq mut
        /\ stale' = (IF rel[m.t] = Unread THEN stale ELSE stale \cup {m.t})
        /\ relPc' = (IF m.t = page THEN "start" ELSE relPc)
        /\ settled' = [settled EXCEPT ![m.t] = Newest({settled[m.t], m.v})]
    BY <1>3, SucceedIs DEF SettledInv
  <2>2. Newest({settled[m.t], m.v}) \in 0..mem
    <3>1. settled[m.t] \in 0..mem /\ m.v \in 0..mem /\ mem \in Nat
      BY <1>0, <2>1 DEF SettledInv
    <3> QED BY <3>1, NewestOfTwo
  <2>3. settled \in [Person -> 0..Len(fol)]
    BY DEF Typed
  <2>4. \A p \in Person : p # m.t => settled'[p] = settled[p]
    BY <2>1, <2>3
  <2>5. settled'[m.t] \in 0..mem
    BY <2>1, <2>2, <2>3
  <2>6. \A p \in Person : settled'[p] <= mem'
    <3>1. mem' = mem /\ \A p \in Person : settled[p] <= mem
      BY <2>1 DEF SettledInv
    <3>2. settled'[m.t] <= mem
      BY <1>0, <2>5
    <3> QED BY <2>4, <3>1, <3>2
  <2>7. \A p \in Person :
          rel'[p] = Unread \/ p \in stale' \/ rel'[p] >= settled'[p]
    BY <2>1, <2>4 DEF SettledInv
  <2>8. page' \in Person =>
          /\ relPc' = "relay" => settled'[page'] = 0
          /\ relPc' = "idle" => rel'[page'] >= settled'[page']
    BY <2>1, <2>4 DEF SettledInv
  <2> QED BY <2>1, <2>6, <2>7, <2>8 DEF SettledInv
<1>4. ASSUME NEW m \in mut, Published(m) PROVE SettledInv'
  <2>1. UNCHANGED <<rel, relPc, stale, page, settled>>
    BY <1>4 DEF Published, queries
  <2>2. mem' \in 0..Len(fol) /\ mem <= mem' /\ m.v <= mem'
    <3>1. m.v \in 0..Len(fol)
      BY <1>0
    <3> QED BY <1>4, <3>1, StoreTyped DEF Published
  <2>3. \A k \in mut' : k \in mut \/ k.v = m.v
    <3>1. m \in [t : Person, v : 1..Len(fol), stored : BOOLEAN]
      BY DEF Typed
    <3> QED BY <1>4, <3>1 DEF Published
  <2> QED BY <1>0, <2>1, <2>2, <2>3 DEF SettledInv
<1>5. CASE Reload
  <2>1. /\ page' = "home" /\ mut' = {} /\ mem' = 0
        /\ rel' = [p \in Person |-> Unread] /\ settled' = [p \in Person |-> 0]
    BY <1>5 DEF Reload
  <2> QED BY <2>1 DEF SettledInv
<1>6. ASSUME NEW p \in {"home"} \cup Person, Go(p) PROVE SettledInv'
  <2>1. UNCHANGED <<mem, mut, settled, rel, stale>> /\ page' = p
        /\ relPc' \in {"idle", "start"}
        /\ (p \in Person /\ relPc' = "idle" => rel[p] # Unread /\ p \notin stale)
    BY <1>6 DEF Go, caches
  <2> QED BY <2>1 DEF SettledInv
<1>7. ASSUME NEW p \in Person, RelAge(p) PROVE SettledInv'
  <2>1. UNCHANGED <<mem, mut, settled, relPc, page>>
    BY <1>7 DEF RelAge, caches
  <2>2. CASE stale' = stale \cup {p} /\ UNCHANGED rel
    BY <2>1, <2>2 DEF SettledInv
  <2>3. CASE p # page /\ rel' = [rel EXCEPT ![p] = Unread] /\ stale' = stale \ {p}
    <3>1. rel \in [Person -> Unread..Len(fol)]
      BY DEF Typed
    <3> QED BY <2>1, <2>3, <3>1 DEF SettledInv
  <2> QED BY <1>7, <2>2, <2>3 DEF RelAge
<1>8. CASE Preload
  <2>1. UNCHANGED <<rel, relPc, stale, page, mut, settled>>
    BY <1>8 DEF Preload, queries
  <2>2. mem' \in 1..Len(fol) /\ mem = 0
    BY <1>8 DEF Preload, Typed
  <2> QED BY <1>0, <2>1, <2>2 DEF SettledInv
<1>9. ASSUME \/ \E m \in mut : Refused(m)
             \/ OtherClient \/ Focus \/ SafetyAnswer \/ UNCHANGED vars
             \/ \E v \in Versions : LoadDone(v)
      PROVE  SettledInv'
  <2>1. UNCHANGED <<mem, rel, relPc, stale, page, settled>> /\ mut' \subseteq mut
    BY <1>9 DEF Refused, OtherClient, Focus, SafetyAnswer, LoadDone, caches, queries, vars
  <2> QED BY <2>1 DEF SettledInv
<1> QED
  BY <1>1, <1>2, <1>3, <1>4, <1>5, <1>6, <1>7, <1>8, <1>9 DEF Next, Answering, Clicking

-----------------------------------------------------------------------------
(* The list of the home page never gives way to an older one. *)

\* What the home page shows is in memory, or in the follow list cache from before a
\* reload, and then older than what is being published; a load from IndexedDB is of
\* the latter kind, and a query that asks the relays began with an empty memory.
FeedInv ==
  /\ list <= mem \/ (list <= ls /\ \A m \in mut : list < m.v)
  /\ ls <= mem \/ (load = {} /\ \A m \in mut : ls < m.v)
  /\ \A v, w \in load : v = w
  /\ \A v \in load, m \in mut : v < m.v
  /\ listPc # "idle" => page = "home"
  /\ listPc = "relay" => list <= 0 \/ (list <= ls /\ load = {})

LEMMA FeedInvStep ==
  Typed /\ SettledInv /\ FeedInv /\ [Next]_vars => FeedInv' /\ FeedStep
<1> SUFFICES ASSUME Typed, SettledInv, FeedInv, [Next]_vars PROVE FeedInv' /\ FeedStep
  OBVIOUS
<1>0. /\ Len(fol) \in Nat /\ Unread = -1 /\ mem \in 0..Len(fol) /\ ls \in 0..Len(fol)
      /\ list \in Unread..Len(fol) /\ load \subseteq 1..Len(fol) /\ reloads \in Nat
      /\ \A m \in mut : m.v \in 1..Len(fol)
  BY DEF Typed, Unread
<1>1. CASE Answering
  <2>1. UNCHANGED <<load, page, mut>> /\ mem' \in 0..Len(fol) /\ mem <= mem'
    BY <1>1, AnsweringIs
  <2>2. CASE HomeStays
    BY <1>0, <2>1, <2>2 DEF FeedInv, FeedStep, HomeStays
  <2>3. CASE HomeMisses
    BY <1>0, <2>1, <2>3 DEF FeedInv, FeedStep, HomeMisses
  <2>4. CASE HomeResult
    <3> PICK v \in 0..Len(fol) :
          /\ v <= mem' /\ list' = Shown(v) /\ ls' = Shown(v)
          /\ listPc = "relay" \/ v >= mem
      BY <2>4 DEF HomeResult
    <3>1. listPc' = "idle" /\ list' = ls' /\ list' \in {ls, v} /\ list' >= ls /\ list' >= v
      BY <1>0, <2>4 DEF HomeResult, Shown
    <3>2. list' >= list
      BY <1>0, <3>1 DEF FeedInv
    <3>3. ls' <= mem' \/ (load' = {} /\ \A m \in mut' : ls' < m.v)
      BY <1>0, <2>1, <3>1 DEF FeedInv
    <3>4. list' <= mem' \/ (list' <= ls' /\ \A m \in mut' : list' < m.v)
      BY <1>0, <2>1, <3>1, <3>3 DEF FeedInv
    <3> QED BY <2>1, <3>1, <3>2, <3>3, <3>4 DEF FeedInv, FeedStep
  <2> QED BY <1>1, <2>2, <2>3, <2>4, AnsweringIs
<1>2. CASE Clicking
  <2>1. UNCHANGED <<mem, ls, load, list, listPc, page>>
    BY <1>2, ClickingIs
  <2>2. \A m \in mut' : m \in mut \/ m.v = Len(fol) + 1
    BY <1>2, ClickingIs
  <2> QED BY <1>0, <2>1, <2>2 DEF FeedInv, FeedStep
<1>3. ASSUME NEW m \in mut, Succeed(m) PROVE FeedInv' /\ FeedStep
  <2>1. UNCHANGED <<mem, load, page, list>> /\ mut' \subseteq mut /\ ls' = 0
        /\ listPc' = (IF page = "home" THEN "start" ELSE listPc)
    BY <1>3, SucceedIs
  <2>2. m.v <= mem
    BY <1>3, SucceedIs DEF SettledInv
  <2>3. list <= mem
    BY <1>0, <2>2 DEF FeedInv
  <2> QED BY <1>0, <2>1, <2>3 DEF FeedInv, FeedStep
<1>4. ASSUME NEW m \in mut, Published(m) PROVE FeedInv' /\ FeedStep
  <2>1. UNCHANGED <<ls, load, list, listPc, page>>
    BY <1>4 DEF Published, followCache, queries
  <2>2. mem' \in 0..Len(fol) /\ mem <= mem'
    <3>1. m.v \in 0..Len(fol)
      BY <1>0
    <3> QED BY <1>4, <3>1, StoreTyped DEF Published
  <2>3. \A k \in mut' : \E j \in mut : k.v = j.v
    <3>1. m \in [t : Person, v : 1..Len(fol), stored : BOOLEAN]
      BY DEF Typed
    <3>2. [m EXCEPT !.stored = TRUE].v = m.v
      BY <3>1
    <3> QED BY <1>4, <3>2 DEF Published
  <2> QED BY <1>0, <2>1, <2>2, <2>3 DEF FeedInv, FeedStep
<1>5. CASE Reload
  <2>1. /\ page' = "home" /\ mut' = {} /\ mem' = 0 /\ listPc' = "start"
        /\ ls' \in {0, ls} /\ load' = {ls} \ {ls', 0} /\ list' \in {ls', Unread}
        /\ reloads' = reloads + 1
    BY <1>5 DEF Reload
  <2>2. ls' <= 0 \/ load' = {}
    BY <1>0, <2>1
  <2>3. reloads' # reloads /\ (list' <= 0 \/ list' <= ls')
    BY <1>0, <2>1
  <2> QED BY <2>1, <2>2, <2>3 DEF FeedInv, FeedStep
<1>6. ASSUME NEW p \in {"home"} \cup Person, Go(p) PROVE FeedInv' /\ FeedStep
  <2>1. /\ UNCHANGED <<mem, ls, load, mut>> /\ page' = p /\ listPc' \in {"idle", "start"}
        /\ (listPc' = "start" => p = "home")
        /\ list' = list \/ (list = Unread /\ list' = ls)
    BY <1>6 DEF Go, caches, followCache
  <2> QED BY <1>0, <2>1 DEF FeedInv, FeedStep
<1>7. ASSUME NEW v \in Versions, LoadDone(v) PROVE FeedInv' /\ FeedStep
  <2>1. /\ UNCHANGED <<mem, list, listPc, page, mut>> /\ v \in load /\ ls' = v
        /\ load' = load \ {v}
    BY <1>7 DEF LoadDone, caches, queries
  <2>2. load' = {}
    BY <2>1 DEF FeedInv
  <2>3. list <= mem
    BY <1>0, <2>1 DEF FeedInv
  <2> QED BY <1>0, <2>1, <2>2, <2>3 DEF FeedInv, FeedStep
<1>8. CASE Preload
  <2>1. UNCHANGED <<ls, load, list, listPc, page, mut>>
    BY <1>8 DEF Preload, followCache, queries
  <2>2. mem' \in 1..Len(fol) /\ mem = 0
    BY <1>8 DEF Preload, Typed
  <2> QED BY <1>0, <2>1, <2>2 DEF FeedInv, FeedStep
<1>9. CASE Focus
  <2>1. UNCHANGED <<mem, ls, load, list, page, mut>> /\ page = "home" /\ listPc' = "start"
    BY <1>9 DEF Focus, caches, followCache
  <2> QED BY <1>0, <2>1 DEF FeedInv, FeedStep
<1>10. ASSUME \/ \E m \in mut : Refused(m)
              \/ \E p \in Person : RelAge(p)
              \/ OtherClient \/ SafetyAnswer \/ UNCHANGED vars
       PROVE  FeedInv' /\ FeedStep
  <2>1. UNCHANGED <<mem, ls, load, list, listPc, page>> /\ mut' \subseteq mut
    BY <1>10 DEF Refused, OtherClient, RelAge, SafetyAnswer, caches, followCache, queries, vars
  <2> QED BY <1>0, <2>1 DEF FeedInv, FeedStep
<1> QED
  BY <1>1, <1>2, <1>3, <1>4, <1>5, <1>6, <1>7, <1>8, <1>9, <1>10
  DEF Next, Answering, Clicking

LEMMA ContactsInit == "home" \notin Person /\ Init => Typed /\ SettledInv /\ FeedInv
<1> SUFFICES ASSUME "home" \notin Person, Init PROVE Typed /\ SettledInv /\ FeedInv
  OBVIOUS
<1>1. Typed
  BY TypedInit
<1> QED BY <1>1 DEF Init, SettledInv, FeedInv, Unread

\* For any people, relays, versions of the list and reloads: a profile page at rest shows
\* what was last published for its person, or something newer (onSuccess of useFollowUser
\* and the event cache behind useFollowRelationship).
THEOREM SettledShownHolds == "home" \notin Person => (Spec => []SettledShown)
<1> SUFFICES ASSUME "home" \notin Person PROVE Spec => []SettledShown
  OBVIOUS
<1>1. Typed /\ SettledInv /\ [Next]_vars => Typed' /\ SettledInv'
  BY TypedStep, SettledStep
<1>2. Init => Typed /\ SettledInv
  BY ContactsInit
<1>3. SettledInv => SettledShown
  BY DEF SettledInv, SettledShown
<1> QED BY <1>1, <1>2, <1>3, PTL DEF Spec

\* The home page's list never gives way to an older one while the page lives
\* (useFollowList's isNewerThan, over the three caches and the relays).
THEOREM FeedNeverGoesBackHolds == "home" \notin Person => (Spec => FeedNeverGoesBack)
<1> SUFFICES ASSUME "home" \notin Person PROVE Spec => FeedNeverGoesBack
  OBVIOUS
<1> DEFINE Inv == Typed /\ SettledInv /\ FeedInv
<1>1. Inv /\ [Next]_vars => Inv' /\ FeedStep
  BY TypedStep, SettledStep, FeedInvStep
<1>2. Init => Inv
  BY ContactsInit
<1>3. Inv /\ [Next]_vars => Inv' /\ [FeedStep]_vars
  BY <1>1
<1> QED BY <1>2, <1>3, PTL DEF Spec, FeedNeverGoesBack
=============================================================================
