---------------------------- MODULE DiscoveryTabs ----------------------------
(***************************************************************************)
(* The tabs of the discovery page: the address names one, a state holds    *)
(* the one that is open, and three effects keep them together while the    *)
(* account signs in and out elsewhere and the browser goes back. "For you" *)
(* is there for accounts only.                                             *)
(*                                                                         *)
(* The feeds in the tabs are left out, and the switch for verified videos. *)
(***************************************************************************)
EXTENDS Integers, Sequences, FiniteSets

CONSTANTS MaxAct  \* bound: clicks, sign-ins and sign-outs

VARIABLES
  route,   \* params.tab
  past,    \* addresses of the page behind this one in the history
  active,  \* state activeTab
  signed,  \* isLoggedIn
  acts

vars == <<route, past, active, signed, acts>>

All == {"foryou", "classics", "hot"}                    \* hot stands for new and hashtags
Route == All \cup {"", "top", "rising"}                 \* none, the old name, and no tab at all

Allowed(s) == IF s THEN All ELSE All \ {"foryou"}

Default(s) == IF s THEN "foryou" ELSE "classics"
Normal(r) == IF r = "top" THEN "classics" ELSE r

TypeOK ==
  /\ route \in Route /\ past \in Seq(Route) /\ active \in All /\ signed \in BOOLEAN
  /\ acts \in 0..MaxAct

\* The address and the state once no effect has anything to do.
\* 1: the tab of the address, if there is one. 2: nobody stays in "for you" signed out.
\* 3: no address without a tab.
Settled(r, a, s) ==
  LET named == IF r = "top" THEN "classics" ELSE IF r = "" THEN Default(s) ELSE r
      opened == IF Normal(named) \in Allowed(s) THEN Normal(named) ELSE a
      out == ~s /\ opened = "foryou"
  IN  [route |-> IF out THEN "classics" ELSE named, active |-> IF out THEN "classics" ELSE opened]

\* Mutant: the effects look at the address only once.
Becomes_Once(r, a, s) ==
  route' = (IF r = "" THEN Default(s) ELSE r) /\ active' = a /\ signed' = s

\* A step to another address, tab or account, with the renders and effects that follow.
Becomes(r, a, s) ==
  route' = Settled(r, a, s).route /\ active' = Settled(r, a, s).active /\ signed' = s

First(r, s) == IF Normal(r) \in Allowed(s) THEN Normal(r) ELSE Default(s)

Init ==
  /\ signed \in BOOLEAN /\ past = <<>> /\ acts = 0
  /\ \E r \in Route :
       /\ route = Settled(r, First(r, signed), signed).route
       /\ active = Settled(r, First(r, signed), signed).active

Act == acts < MaxAct /\ acts' = acts + 1

\* onValueChange.
Click ==
  /\ Act /\ \E t \in Allowed(signed) \ {active} : Becomes(t, t, signed)
  /\ past' = Append(past, route)

\* A link of the site to some tab, or to none.
Link == Act /\ \E r \in Route : Becomes(r, active, signed) /\ past' = Append(past, route)

Back ==
  /\ past # <<>> /\ Becomes(past[Len(past)], active, signed)
  /\ past' = SubSeq(past, 1, Len(past) - 1) /\ UNCHANGED acts

SignInOrOut == Act /\ Becomes(route, active, ~signed) /\ UNCHANGED past

Next == Click \/ Link \/ Back \/ SignInOrOut

Spec == Init /\ [][Next]_vars

-----------------------------------------------------------------------------
(* Properties. *)

\* The tab that is open is one that is shown; and it is the address's, if the address names
\* one the account has. (An address that names none leaves whatever was open.)
TabIsOfTheAddress ==
  /\ active \in IF signed THEN All ELSE {"classics", "hot"}
  /\ route # "" /\ route # "top"
  /\ (route \in All /\ (signed \/ route # "foryou")) => active = route

-----------------------------------------------------------------------------
(* The inductive invariant of TabIsOfTheAddress. *)

TabsInv ==
  /\ route \in Route /\ past \in Seq(Route) /\ active \in All /\ signed \in BOOLEAN
  /\ TabIsOfTheAddress
=============================================================================
