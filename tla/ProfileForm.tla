----------------------------- MODULE ProfileForm -----------------------------
(***************************************************************************)
(* The user's profile: the form that edits it, with the query it is filled *)
(* from, its publication, the copies of the API that a feed on the same    *)
(* page puts in the query's place, and the browser's cache of events,      *)
(* which answers the query before the relays are asked.                    *)
(*                                                                         *)
(* A profile has a name, a picture and the rest, all that the form has no  *)
(* field for; 0 is an empty field. The API's copy has not all of the rest. *)
(***************************************************************************)
EXTENDS Integers, Sequences, FiniteSets

CONSTANTS
  Limit,        \* how many events the query asks for
  MaxVersion,   \* bound: versions of the profile
  MaxUpload,    \* bound: pictures uploaded
  MaxAct        \* bound: reads, lists shown, names typed and visits elsewhere

VARIABLES
  here,      \* the route is the user's own profile page
  profiles,  \* relay: the versions of the user's profile
  api,       \* the version the API serves
  author,    \* query author: the version it has, 0 for none, and whether it is the API's copy
  fetch,     \* its request
  stored,    \* IndexedDB: the versions put in, which are never taken out
  batch,     \* query batched-authors of the feed: its data, and its request
  editing,   \* editProfileOpen
  form,      \* the fields of the form
  touched,   \* history: those the user has set since they were last reset
  uploads,   \* under way
  uploaded,  \* pictures chosen so far
  save,      \* the publication: what, from which version, and as which
  settled,   \* history: the version of the last successful save, 0 once another
             \* answer has come, or none
  missed,    \* history: the cache has not looked at all it has since then
  acts

vars == <<here, profiles, api, author, fetch, stored, batch, editing, form, touched, uploads, uploaded,
          save, settled, missed, acts>>

Field == {"name", "picture", "rest"}
Profile == [Field -> 0..MaxVersion + MaxUpload + 1]
Blank == [f \in Field |-> 0]
Idle == [st |-> "none", v |-> 0]
NoSave == [st |-> "none", data |-> Blank, base |-> Blank, whole |-> FALSE, touched |-> {}, v |-> 0]

TypeOK ==
  /\ {here, editing} \subseteq BOOLEAN /\ Len(profiles) <= MaxVersion
  /\ \A v \in 1..Len(profiles) : profiles[v] \in Profile
  /\ api \in 0..Len(profiles) /\ author \in [v : 0..Len(profiles), copy : BOOLEAN]
  /\ fetch \in [st : {"none", "asked", "served"}, v : 0..Len(profiles)]
  /\ stored \subseteq 1..Len(profiles) /\ missed \in BOOLEAN
  /\ batch.has \in -1..Len(profiles) /\ batch.st \in {"none", "asked"}
  /\ form \in Profile /\ touched \subseteq {"name", "picture"}
  /\ uploads \subseteq 1..MaxUpload /\ uploaded \in 0..MaxUpload
  /\ save.st \in {"none", "sent", "stored"} /\ {save.data, save.base} \subseteq Profile
  /\ save.v \in 0..Len(profiles)
  /\ settled \in 0..Len(profiles) /\ acts \in 0..MaxAct

Init ==
  /\ here = TRUE /\ profiles = <<[f \in Field |-> 1]>> /\ api \in {0, 1}
  /\ author = [v |-> 0, copy |-> FALSE] /\ fetch = [Idle EXCEPT !.st = "asked"]
  /\ stored \in SUBSET {1} /\ missed = FALSE
  /\ batch = [has |-> -1, st |-> "none"] /\ editing = FALSE /\ form = Blank /\ touched = {}
  /\ uploads = {} /\ uploaded = 0 /\ save = NoSave /\ settled = 0 /\ acts = 0

Act == acts < MaxAct /\ acts' = acts + 1

Form == <<editing, form, touched, uploads, uploaded, save>>
Cache == <<stored, missed>>
Profiles == <<profiles, api, author, fetch, batch, settled, Cache>>

-----------------------------------------------------------------------------
(* The profile: the relay's and the API's versions, and the query. *)

\* What the metadata of the query is.
Metadata(a) ==
  IF a.v = 0 THEN Blank
  ELSE [profiles[a.v] EXCEPT !["rest"] = IF a.copy THEN 0 ELSE @]

Mounted == editing /\ here

\* Mutant: the form is filled only once.
Filled_Once(a) ==
  IF Mounted /\ a.v # 0 /\ author.v = 0
  THEN form' = Metadata(a) /\ touched' = {}
  ELSE UNCHANGED <<form, touched>>

\* The form's effect on metadata: it is reset when there is some and it has changed.
Filled(a) ==
  IF Mounted /\ a.v # 0 /\ (author.v = 0 \/ Metadata(a) # Metadata(author))
  THEN form' = Metadata(a) /\ touched' = {}
  ELSE UNCHANGED <<form, touched>>

\* Another client of the user's.
Elsewhere ==
  /\ Act /\ Len(profiles) < MaxVersion
  /\ \E f \in {"name", "rest"} :
       profiles' = Append(profiles, [profiles[Len(profiles)] EXCEPT ![f] = Len(profiles) + 1])
  /\ UNCHANGED <<here, api, author, fetch, Cache, batch, editing, form, touched, uploads, uploaded,
                 save, settled>>

ApiCatchesUp ==
  /\ api < Len(profiles) /\ api' = Len(profiles)
  /\ UNCHANGED <<here, profiles, author, fetch, Cache, batch, settled, Form, acts>>

\* The data is old and the window is looked at again.
Focus ==
  /\ Act /\ fetch.st = "none" /\ fetch' = [Idle EXCEPT !.st = "asked"]
  /\ UNCHANGED <<here, profiles, api, author, Cache, batch, settled, Form>>

\* eventCache.query: what comes first by its id, up to the limit, and of that what was put in
\* within the last 30 minutes, which goes for the newest ones. They may be any number.
Found == IF Cardinality(stored) <= Limit THEN {stored}
         ELSE {S \in SUBSET stored : Cardinality(S) = Limit}
Hits(S) == {{v \in S : v >= oldest} : oldest \in 1..Len(profiles) + 1}

\* The cache answers if it has any, with the newest it has found; else the relays asked have
\* the newest, or none has any.
FetchServed ==
  /\ fetch.st = "asked"
  /\ \E S \in Found, v \in 0..Len(profiles) : \E hits \in Hits(S) :
       /\ IF hits # {}
          THEN v \in hits /\ (\A w \in hits : w <= v) /\ UNCHANGED stored
          ELSE v \in {0, Len(profiles)} /\ stored' = stored \cup ({v} \ {0})
       /\ fetch' = [st |-> "served", v |-> v] /\ missed' = (missed \/ S # stored)
  /\ UNCHANGED <<here, profiles, api, author, batch, settled, Form, acts>>

\* The newest comes into the cache, and not to the query: by what the cache asks for in the
\* background when it has answered, or another query for profiles.
RefreshInBackground ==
  /\ Len(profiles) \notin stored /\ stored' = stored \cup {Len(profiles)}
  /\ UNCHANGED <<here, profiles, api, author, fetch, missed, batch, settled, Form, acts>>

\* Fifteen seconds are over, three times: what there was stays.
FetchFails ==
  /\ fetch.st = "asked" /\ fetch' = Idle /\ settled' = 0
  /\ UNCHANGED <<here, profiles, api, author, Cache, batch, Form, acts>>

\* Nothing found is an answer, and the query's data.
FetchAnswer ==
  /\ fetch.st = "served" /\ fetch' = Idle
  /\ LET a == [v |-> fetch.v, copy |-> FALSE]
     IN  author' = a /\ Filled(a) /\ settled' = IF fetch.v = 0 THEN 0 ELSE settled
  /\ UNCHANGED <<here, profiles, api, Cache, batch, editing, uploads, uploaded, save, acts>>

\* The effect of useBatchedAuthors: its data becomes that of the author's query, also when
\* a feed is mounted on data it had cached.
Copied(v) ==
  LET a == [v |-> v, copy |-> TRUE]
  IN  author' = a /\ Filled(a) /\ settled' = 0

\* The page's list of videos: its feed asks for the authors, or has asked before.
ShowList ==
  /\ Act /\ here /\ ~editing
  /\ \/ batch.has > 0 /\ Copied(batch.has) /\ UNCHANGED batch
     \/ /\ batch.st = "none" /\ batch' = [batch EXCEPT !.st = "asked"]
        /\ UNCHANGED <<author, form, touched, settled>>
  /\ UNCHANGED <<here, profiles, api, fetch, Cache, editing, uploads, uploaded, save>>

BatchAnswer ==
  /\ batch.st = "asked" /\ api > 0 /\ batch' = [has |-> api, st |-> "none"] /\ Copied(api)
  /\ UNCHANGED <<here, profiles, api, fetch, Cache, editing, uploads, uploaded, save, acts>>

-----------------------------------------------------------------------------
(* The form. *)

\* "Edit Profile": the form is there before the profile is.
Edit ==
  /\ here /\ ~editing /\ editing' = TRUE
  /\ form' = Metadata(author) /\ touched' = {}
  /\ UNCHANGED <<here, Profiles, uploads, uploaded, save, acts>>

\* What goes on, goes on for a form that is no more.
CloseForm ==
  /\ Mounted /\ editing' = FALSE /\ form' = Blank /\ touched' = {} /\ uploads' = {}
  /\ UNCHANGED <<here, Profiles, uploaded, save, acts>>

\* A new name, or none.
Type ==
  /\ Act /\ Mounted /\ \E n \in {0, MaxVersion + MaxUpload + 1} :
       form' = [form EXCEPT !["name"] = n] /\ form' # form
  /\ touched' = touched \cup {"name"}
  /\ UNCHANGED <<here, Profiles, editing, uploads, uploaded, save>>

Choose ==
  /\ Mounted /\ uploaded < MaxUpload /\ uploaded' = uploaded + 1
  /\ uploads' = uploads \cup {uploaded'}
  /\ UNCHANGED <<here, Profiles, editing, form, touched, save, acts>>

\* uploadPicture: setValue when its upload is over, in whatever order they end.
Uploaded(u) ==
  /\ uploads' = uploads \ {u}
  /\ \/ form' = [form EXCEPT !["picture"] = MaxVersion + u] /\ touched' = touched \cup {"picture"}
     \/ UNCHANGED <<form, touched>>
  /\ UNCHANGED <<here, Profiles, editing, uploaded, save, acts>>

\* isPending || isUploading, which is the last upload's.
Disabled == save.st # "none" \/ (uploaded > 0 /\ uploaded \in uploads)

\* onSubmit: the values of the form over those of the metadata.
Merged(data) == [data EXCEPT !["rest"] = Metadata(author)["rest"]]

Submit ==
  /\ Mounted /\ ~Disabled /\ Len(profiles) < MaxVersion
  /\ save' = [st |-> "sent", data |-> Merged(form), base |-> Metadata(author),
              whole |-> author.v # 0, touched |-> touched, v |-> 0]
  /\ UNCHANGED <<here, Profiles, editing, form, touched, uploads, uploaded, acts>>

SaveStored ==
  /\ save.st = "sent" /\ Len(profiles) < MaxVersion
  /\ profiles' = Append(profiles, save.data)
  /\ save' = [save EXCEPT !.st = "stored", !.v = Len(profiles) + 1]
  /\ UNCHANGED <<here, api, author, fetch, Cache, batch, editing, form, touched, uploads, uploaded,
                 settled, acts>>

\* Mutant: a request under way is taken for the one after the change.
Refetch_Joins == fetch' = IF fetch.st = "none" THEN [Idle EXCEPT !.st = "asked"] ELSE fetch

\* invalidateQueries gives up a request under way.
Refetch == fetch' = [Idle EXCEPT !.st = "asked"]

\* What was published is cached, and the query asked again. The dialog closes, the next one
\* of a form opened meanwhile too.
SaveDone ==
  /\ save.st = "stored" /\ save' = NoSave /\ Refetch /\ editing' = FALSE
  /\ form' = Blank /\ touched' = {} /\ uploads' = {} /\ settled' = save.v
  /\ stored' = stored \cup {save.v} /\ missed' = FALSE
  /\ UNCHANGED <<here, profiles, api, author, batch, uploaded, acts>>

\* Whether it was stored or not.
SaveFails ==
  /\ save.st # "none" /\ save' = NoSave
  /\ UNCHANGED <<here, Profiles, editing, form, touched, uploads, uploaded, acts>>

\* To another page and back: editProfileOpen stays, and opens the form again.
Visit ==
  /\ Act /\ here' = ~here /\ uploads' = {}
  /\ IF here' /\ editing THEN form' = Metadata(author) /\ touched' = {}
     ELSE form' = Blank /\ touched' = {}
  /\ UNCHANGED <<Profiles, editing, uploaded, save>>

Next ==
  \/ Elsewhere \/ ApiCatchesUp \/ Focus \/ FetchServed \/ RefreshInBackground \/ FetchFails
  \/ FetchAnswer \/ ShowList \/ BatchAnswer \/ Edit \/ CloseForm \/ Type \/ Choose \/ Submit
  \/ SaveStored \/ SaveDone \/ SaveFails \/ Visit
  \/ \E u \in uploads : Uploaded(u)

Spec == Init /\ [][Next]_vars

-----------------------------------------------------------------------------
(* Properties. *)

\* A save changes of the profile it was made from what the user has set in the form, and
\* nothing else, whatever versions and copies came into the query while the form was open
\* ("Combine existing metadata with new values"). The profile it was made from is the
\* query's, which may be an older one than the relays', from the cache.
SaveChangesTouched ==
  save.st # "none" /\ save.whole =>
    \A f \in Field : save.data[f] # save.base[f] => f \in save.touched

\* Once a save has succeeded and the query is at rest, the next edit starts from what was
\* saved or from something newer, though the cache answers before the relays; unless the
\* relays failed to answer, a copy of the API came after it, or the cache had more versions
\* than it looks at.
SavedIsSeen == fetch.st = "none" /\ ~missed => author.v >= settled

-----------------------------------------------------------------------------
(* What the comments say and the code does not do. *)

\* "Invalidate queries to refresh the data": the same with any number of versions in the
\* cache. Not so: versions are not taken out of it, and a query looks at those that come
\* first by their ids.
EditsStartFromSaved == fetch.st = "none" => author.v >= settled

-----------------------------------------------------------------------------
(* The inductive invariant of SaveChangesTouched and SavedIsSeen. *)

\* Profiles, and saves of them, of any versions.
AnyProfile == [Field -> Int]
SaveOf == [st : {"none", "sent", "stored"}, data : AnyProfile, base : AnyProfile, whole : BOOLEAN,
           touched : SUBSET Field, v : Int]

\* The versions the parts of the page speak of are versions of the profile.
Typed ==
  /\ here \in BOOLEAN /\ editing \in BOOLEAN
  /\ profiles \in Seq(AnyProfile) /\ profiles # <<>>
  /\ api \in 0..Len(profiles) /\ author \in [v : 0..Len(profiles), copy : BOOLEAN]
  /\ fetch \in [st : {"none", "asked", "served"}, v : 0..Len(profiles)]
  /\ batch \in [has : -1..Len(profiles), st : {"none", "asked"}]
  /\ form \in AnyProfile /\ touched \in SUBSET Field
  /\ uploads \subseteq 1..uploaded /\ uploaded \in Nat
  /\ save \in SaveOf /\ save.v \in 0..Len(profiles) /\ (save.st = "stored" => save.v # 0)
  /\ settled \in 0..Len(profiles)
  /\ stored \subseteq 1..Len(profiles)

\* What the fields that have an input say, on a page that has a profile, is of the query's
\* profile or the user's.
FormIsOfAuthor ==
  Mounted /\ author.v # 0 =>
    \A f \in {"name", "picture"} : form[f] # Metadata(author)[f] => f \in touched

\* The last save is in the cache, and an answer under way is at least as new.
SettledInv ==
  /\ settled \in stored \cup {0}
  /\ fetch.st = "served" /\ fetch.v # 0 /\ ~missed => fetch.v >= settled
  /\ SavedIsSeen

ProfileInv == Typed /\ FormIsOfAuthor /\ SaveChangesTouched /\ SettledInv
=============================================================================
