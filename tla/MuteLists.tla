------------------------------ MODULE MuteLists ------------------------------
(***************************************************************************)
(* The user's mute list (kind 10001): the relay that stores one version of *)
(* it, the query that filters the feed and fills the settings page, and    *)
(* the changes, each of which reads the relay's version and publishes a    *)
(* new one. A muted thing is a type and a value; reasons, toasts and the   *)
(* debug panel are left out. The relay is the one of the default settings. *)
(***************************************************************************)
EXTENDS Integers, FiniteSets

CONSTANTS
  Thing,
  MaxChange,  \* bound: changes
  MaxSecond   \* bound: seconds

VARIABLES
  stored,   \* the relay's version: created_at (0 if none) and the things muted
  second,
  muted,    \* query mute-list: its data, nothing until it answers
  query,    \* idle, asked, or answered with heard on its way
  heard,
  changes,  \* changes under way
  count,    \* how many were begun
  wanted,   \* history: what the user has asked for
  calm      \* history: no change met another, a refusal or a tie of seconds

vars == <<stored, second, muted, query, heard, changes, count, wanted, calm>>

MuteList == [at : 0..MaxSecond, items : SUBSET Thing]
Change == [n : 1..MaxChange, on : BOOLEAN, x : Thing, v : MuteList, pc : {"read", "sent"}]

TypeOK ==
  /\ stored \in MuteList /\ second \in 1..MaxSecond
  /\ {muted, heard, wanted} \subseteq SUBSET Thing
  /\ query \in {"idle", "asked", "answered"}
  /\ changes \subseteq Change /\ count \in 0..MaxChange /\ calm \in BOOLEAN

Init ==
  /\ second = 1
  /\ stored \in {[at |-> 0, items |-> {}]} \cup {[at |-> 1, items |-> S] : S \in SUBSET Thing}
  /\ muted = {} /\ query = "asked" /\ heard = {}
  /\ changes = {} /\ count = 0 /\ wanted = stored.items /\ calm = TRUE

-----------------------------------------------------------------------------
(* The query. *)

history == <<wanted, calm>>
cache == <<muted, query, heard>>

\* useMuteList: the relay reads, then its answer arrives.
MuteRead ==
  /\ query = "asked" /\ query' = "answered" /\ heard' = stored.items
  /\ UNCHANGED <<stored, second, muted, changes, count, history>>

\* Mutant: the answer is added to what is known.
Items_Merged == muted \cup heard

\* parseMuteList of the newest version the answer holds.
Items == heard

MuteAnswer ==
  /\ query = "answered" /\ query' = "idle" /\ muted' = Items
  /\ UNCHANGED <<stored, second, heard, changes, count, history>>

MuteTimeout ==
  /\ query # "idle" /\ query' = "idle"
  /\ UNCHANGED <<stored, second, muted, heard, changes, count, history>>

\* A feed or the settings page mounts a minute after the last fetch.
Mount ==
  /\ query = "idle" /\ query' = "asked"
  /\ UNCHANGED <<stored, second, muted, heard, changes, count, history>>

-----------------------------------------------------------------------------
(* Changes. *)

Start(on, x) ==
  /\ count < MaxChange /\ count' = count + 1
  /\ changes' = changes \cup
       {[n |-> count + 1, on |-> on, x |-> x, v |-> [at |-> 0, items |-> {}], pc |-> "read"]}
  /\ wanted' = IF on THEN wanted \cup {x} ELSE wanted \ {x}
  /\ calm' = (calm /\ changes = {})
  /\ UNCHANGED <<stored, second, cache>>

\* From the settings page, a video or a comment: nothing waits for another.
Mute(x) == Start(TRUE, x)

\* Only what the settings page shows.
Unmute(x) == x \in muted /\ Start(FALSE, x)

\* Mutant: the new list starts from what the page has.
Base_Cached == muted

\* What useMuteItem and useUnmuteItem start from.
Base == stored.items

\* Nothing is published when there is nothing to change; useUnmuteItem publishes
\* a list it has not changed.
NeedsPublish(c) == IF c.on THEN c.x \notin Base ELSE stored.at > 0

Changed(c) ==
  [at |-> second, items |-> IF c.on THEN Base \cup {c.x} ELSE Base \ {c.x}]

\* mutate does not wait: onSuccess runs before the relay has the new version.
ReadAndSend(c) ==
  /\ c.pc = "read"
  /\ changes' = (changes \ {c}) \cup
                (IF NeedsPublish(c) THEN {[c EXCEPT !.v = Changed(c), !.pc = "sent"]} ELSE {})
  /\ query' = "asked"    \* invalidateQueries, which cancels a fetch under way
  /\ UNCHANGED <<stored, second, muted, heard, count, history>>

\* No answer within five seconds, or the relay did not take the event.
GiveUp(c) ==
  /\ changes' = changes \ {c} /\ calm' = FALSE
  /\ UNCHANGED <<stored, second, cache, count, wanted>>

\* The relay keeps the newer version, and of one second the lower id.
Store(c) ==
  /\ c.pc = "sent" /\ changes' = changes \ {c}
  /\ stored' \in (IF c.v.at >= stored.at THEN {c.v} ELSE {}) \cup
                 (IF c.v.at <= stored.at THEN {stored} ELSE {})
  /\ calm' = (calm /\ c.v.at # stored.at)
  /\ UNCHANGED <<second, cache, count, wanted>>

Clock ==
  /\ second < MaxSecond /\ second' = second + 1
  /\ UNCHANGED <<stored, cache, changes, count, history>>

Next ==
  \/ MuteRead \/ MuteAnswer \/ MuteTimeout \/ Mount \/ Clock
  \/ \E x \in Thing : Mute(x) \/ Unmute(x)
  \/ \E c \in changes : ReadAndSend(c) \/ GiveUp(c) \/ Store(c)

Spec == Init /\ [][Next]_vars

-----------------------------------------------------------------------------
(* Properties. *)

\* Unless changes met, were refused or shared a second, the relay's list is what
\* the user asked for: each starts from the relay's version, not from the page's.
CalmListIsWanted == calm /\ changes = {} => stored.items = wanted

\* The feed is filtered with the list the relay has.
FilterIsStored == muted = stored.items

\* If pages that need the list keep coming and its fetches are at times answered,
\* the list that filters the feed becomes and stays the one stored, although every
\* change invalidates the query before the relay has the new version.
FilterCatchesUp ==
  []<><<Mount>>_vars /\ SF_vars(MuteRead) /\ SF_vars(MuteAnswer)
  => <>[]FilterIsStored

-----------------------------------------------------------------------------
(* The inductive invariant of CalmListIsWanted. *)

\* In calm there is one change at most: one that has not read leads from the relay's list to
\* what is wanted; one that was sent has it, and is not older than the relay's.
CalmInv ==
  /\ second \in Nat /\ second > 0 /\ stored.at \in Nat /\ stored.at <= second
  /\ stored.at = 0 => stored.items = {}
  /\ calm => \A c, d \in changes : c = d
  /\ calm /\ changes = {} => stored.items = wanted
  /\ \A c \in changes :
       /\ c = [n |-> c.n, on |-> c.on, x |-> c.x, v |-> c.v, pc |-> c.pc]
       /\ c.v.at \in Nat /\ c.v.at <= second /\ (c.v.at = 0 => c.v.items = {})
       /\ calm /\ c.pc = "read" => wanted = IF c.on THEN Base \cup {c.x} ELSE Base \ {c.x}
       /\ calm /\ c.pc = "sent" => c.v.items = wanted /\ c.v.at >= stored.at
==============================================================================
