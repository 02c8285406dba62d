-------------------------- MODULE SigningAuthority --------------------------
(***************************************************************************)
(* What an OAuth session promises about signatures, whatever instances,    *)
(* caches and commands stand between the database and the clients: a       *)
(* request is granted only while its authorization is live and held by the *)
(* requesting client or by nobody, only granted requests are signed, and   *)
(* an authorization that has ended stays so.                               *)
(***************************************************************************)
EXTENDS FiniteSets

CONSTANTS Bunker, Client, Req

VARIABLES
  phase,   \* life of each authorization
  holder,  \* its connected client, or "nobody"
  req,     \* who asks for what with each request
  stage    \* new, granted or signed

vars == <<phase, holder, req, stage>>

Unsent == [client |-> "nobody"]

Init ==
  /\ phase \in [Bunker -> {"absent", "live"}]
  /\ holder = [b \in Bunker |-> "nobody"]
  /\ req = [r \in Req |-> Unsent]
  /\ stage = [r \in Req |-> "new"]

Create(b) ==
  /\ phase[b] = "absent"
  /\ phase' = [phase EXCEPT ![b] = "live"]
  /\ UNCHANGED <<holder, req, stage>>

End(b) ==
  /\ phase[b] = "live"
  /\ phase' = [phase EXCEPT ![b] = "ended"]
  /\ UNCHANGED <<holder, req, stage>>

Hold(b) ==
  /\ \E c \in Client \cup {"nobody"} : holder' = [holder EXCEPT ![b] = c]
  /\ UNCHANGED <<phase, req, stage>>

Ask(r) ==
  /\ req[r] = Unsent
  /\ \E b \in Bunker, c \in Client :
       req' = [req EXCEPT ![r] = [bunker |-> b, client |-> c]]
  /\ UNCHANGED <<phase, holder, stage>>

Grant(r) ==
  /\ req[r] # Unsent /\ stage[r] = "new"
  /\ phase[req[r].bunker] = "live"
  /\ holder[req[r].bunker] \in {"nobody", req[r].client}
  /\ stage' = [stage EXCEPT ![r] = "granted"]
  /\ UNCHANGED <<phase, holder, req>>

Sign(r) ==
  /\ stage[r] = "granted"
  /\ stage' = [stage EXCEPT ![r] = "signed"]
  /\ UNCHANGED <<phase, holder, req>>

\* Granted requests may still be refused by the policy, or be lost together.
Refuse ==
  /\ \E S \in SUBSET {r \in Req : stage[r] = "granted"} :
       stage' = [r \in Req |-> IF r \in S THEN "new" ELSE stage[r]]
  /\ UNCHANGED <<phase, holder, req>>

Next ==
  \/ \E b \in Bunker : Create(b) \/ End(b) \/ Hold(b)
  \/ \E r \in Req : Ask(r) \/ Grant(r) \/ Sign(r)
  \/ Refuse

Spec == Init /\ [][Next]_vars

=============================================================================
