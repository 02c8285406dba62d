----------------------------- MODULE ProfilePages ----------------------------
(***************************************************************************)
(* Profile pages of two people: the mark of a verified NIP-05 name, the    *)
(* page that looks for the profile with a name, and the dialog of          *)
(* followers, read page by page.                                           *)
(*                                                                         *)
(* Follow buttons, videos, the form and the report dialog are other        *)
(* modules. The way to another subdomain, which loads the page anew, and   *)
(* the counts of the header are left out.                                  *)
(***************************************************************************)
EXTENDS Integers, Sequences, FiniteSets
LOCAL INSTANCE SequencesExt

CONSTANTS
  PageSize,
  MaxFollower,  \* bound: followers there have been
  MaxAct        \* bound: visits, openings of the dialog and changes elsewhere

VARIABLES
  at,        \* the route: a profile page, or /u/ with a name
  claims,    \* who has the NIP-05 name in the profile
  named,     \* the one its domain names
  earned,    \* history: those it has named
  checks,    \* query nip05-validation, by person
  crowd,     \* the followers of the other, the newest first
  list,      \* the dialog: open, the pages of its query, its request, and for both who was
             \* there when the first page was read; nobody once one has left
  acts

vars == <<at, claims, named, earned, checks, crowd, list, acts>>

Person == {"me", "you"}
Closed == [open |-> FALSE, pages |-> <<>>, end |-> FALSE, st |-> "none", want |-> 0, got |-> <<>>,
           began |-> {}, there |-> {}]

TypeOK ==
  /\ at \in Person \cup {"lookup"} /\ claims \subseteq Person
  /\ named \in Person \cup {"nobody"} /\ earned \subseteq Person
  /\ checks \in [Person -> {"idle", "asked", "valid", "invalid"}]
  /\ ToSet(crowd) \cup ToSet(FlattenSeq(list.pages)) \subseteq 1..MaxFollower
  /\ list.st \in {"none", "asked", "served"} /\ {list.open, list.end} \subseteq BOOLEAN
  /\ acts \in 0..MaxAct

Init ==
  /\ at = "me" /\ claims \in SUBSET Person /\ named \in Person \cup {"nobody"}
  /\ earned = {named} \cap Person /\ checks = [p \in Person |-> "idle"]
  /\ \E n \in {0, PageSize, PageSize + 1} : crowd = [i \in 1..n |-> n + 1 - i]
  /\ list = Closed /\ acts = 0

Act == acts < MaxAct /\ acts' = acts + 1

Names == <<claims, named, earned, checks>>

-----------------------------------------------------------------------------
(* The route, and the mark of a verified name. *)

\* The query of the dialog is looked at: what is cached is read anew, page after page, if
\* it is old.
Watched ==
  {[list EXCEPT !.open = TRUE, !.st = "asked", !.got = <<>>,
                !.want = IF list.pages = <<>> THEN 1 ELSE Len(list.pages)]}
    \cup (IF list.pages = <<>> THEN {} ELSE {[list EXCEPT !.open = TRUE]})

\* Mutant: a verified name is anybody's.
Key_Any(p) == "me"

\* The key of query nip05-validation, by the person whose profile has the name.
Key(p) == p

\* A page with its header; from one profile to the next the dialog may stay open.
GoTo(p) ==
  /\ at # p /\ at' = p
  /\ IF p # "lookup" /\ p \in claims /\ checks[Key(p)] = "idle"
     THEN checks' = [checks EXCEPT ![Key(p)] = "asked"]
     ELSE UNCHANGED checks
  /\ \E open \in {FALSE, list.open /\ at # "lookup" /\ p # "lookup"} :
       list' \in IF open /\ p = "you" THEN Watched
                 ELSE {[list EXCEPT !.open = open, !.st = "none", !.got = <<>>]}
  /\ UNCHANGED <<claims, named, earned, crowd>>

Visit == Act /\ \E p \in Person \cup {"lookup"} : GoTo(p)

\* The page of a name leads to some profile that has it, verified or not.
Lookup == at = "lookup" /\ (\E p \in claims : GoTo(p)) /\ UNCHANGED acts

\* The domain's file: it is right, it is another's, or it cannot be read.
Checked(p) ==
  /\ checks[Key(p)] = "asked" /\ at = p
  /\ \/ checks' = [checks EXCEPT ![Key(p)] = IF named = p THEN "valid" ELSE "invalid"]
     \/ checks' = [checks EXCEPT ![Key(p)] = "invalid"]
  /\ UNCHANGED <<at, claims, named, earned, crowd, list, acts>>

Renamed ==
  /\ Act /\ named' \in (Person \cup {"nobody"}) \ {named} /\ earned' = earned \cup ({named'} \cap Person)
  /\ UNCHANGED <<at, claims, checks, crowd, list>>

-----------------------------------------------------------------------------
(* The dialog of followers. *)

Follow ==
  /\ Act /\ Len(crowd) < MaxFollower /\ Len(crowd) + 1 \notin ToSet(crowd)
  /\ crowd' = <<Len(crowd) + 1>> \o crowd
  /\ UNCHANGED <<at, Names, list>>

Unfollow ==
  /\ Act /\ crowd # <<>>
  /\ \E i \in 1..Len(crowd) : crowd' = SubSeq(crowd, 1, i - 1) \o SubSeq(crowd, i + 1, Len(crowd))
  /\ list' = [list EXCEPT !.began = {}, !.there = {}]
  /\ UNCHANGED <<at, Names>>

OpenList ==
  /\ Act /\ at = "you" /\ ~list.open /\ list' \in Watched
  /\ UNCHANGED <<at, Names, crowd>>

\* The query is no more that of a person: its request is aborted.
CloseList ==
  /\ list.open /\ list' = [list EXCEPT !.open = FALSE, !.st = "none", !.got = <<>>]
  /\ UNCHANGED <<at, Names, crowd, acts>>

\* Mutant: the offset of a page that begins one further on.
Offset_Skips(n) == IF n = 0 THEN 0 ELSE n + 1

\* getNextPageParam: as many as have been fetched.
Offset(n) == n

PageAt(n) ==
  LET last == IF Offset(n) + PageSize < Len(crowd) THEN Offset(n) + PageSize ELSE Len(crowd)
  IN  SubSeq(crowd, Offset(n) + 1, last)

\* A page of a read of all, or the next page; a page that is full is not the last.
PageServed ==
  /\ list.st = "asked"
  /\ LET page == PageAt(Len(FlattenSeq(list.got)))
         full == Len(page) >= PageSize
         got == Append(list.got, page)
     IN  list' = [list EXCEPT !.got = got, !.began = IF list.got = <<>> THEN ToSet(crowd) ELSE @,
                              !.st = IF full /\ Len(got) < list.want THEN "asked" ELSE "served"]
  /\ UNCHANGED <<at, Names, crowd, acts>>

PageAnswer ==
  /\ list.st = "served"
  /\ list' = [list EXCEPT !.st = "none", !.got = <<>>, !.pages = list.got, !.there = list.began,
                          !.end = Len(list.got[Len(list.got)]) < PageSize]
  /\ UNCHANGED <<at, Names, crowd, acts>>

\* The end of what is shown is near.
MorePages ==
  /\ list.open /\ at = "you" /\ list.st = "none" /\ list.pages # <<>> /\ ~list.end
  /\ list' = [list EXCEPT !.st = "asked", !.got = list.pages, !.began = list.there,
                        !.want = Len(list.pages) + 1]
  /\ UNCHANGED <<at, Names, crowd, acts>>

\* Also "No followers yet", when nothing had been read.
PageFails ==
  /\ list.st = "asked" /\ list' = [list EXCEPT !.st = "none", !.got = <<>>]
  /\ UNCHANGED <<at, Names, crowd, acts>>

Next ==
  \/ Visit \/ Lookup \/ Renamed \/ Follow \/ Unfollow \/ OpenList \/ CloseList
  \/ PageServed \/ PageAnswer \/ MorePages \/ PageFails
  \/ \E p \in Person : Checked(p)

Spec == Init /\ [][Next]_vars

-----------------------------------------------------------------------------
(* Properties. *)

\* A name is shown as verified only on the profile of one its domain has named, also when
\* another profile has the same name.
BadgeIsEarned == at \in claims /\ checks[Key(at)] = "valid" => at \in earned

\* A list of followers that ends has everyone who was there when its first page was read,
\* if nobody has left since.
FollowersWhole == list.end => list.there \subseteq ToSet(FlattenSeq(list.pages))

-----------------------------------------------------------------------------
(* The inductive invariant of BadgeIsEarned. *)

\* Only a person its domain has named is found to be so.
BadgeInv ==
  /\ claims \subseteq Person /\ checks \in [Person -> {"idle", "asked", "valid", "invalid"}]
  /\ named \in Person => named \in earned
  /\ \A p \in Person : checks[p] = "valid" => p \in earned
=============================================================================
