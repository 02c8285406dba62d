------------------------------ MODULE PolicyForm ------------------------------
(***************************************************************************)
(* The console's form for a policy. The user chooses the type of a         *)
(* permission and fills in its fields; an effect writes the fields into    *)
(* two configuration objects and, by the type chosen, points the           *)
(* permission's configuration to one of them. A permission added keeps the *)
(* pointer, not a copy: what is typed later changes it. A text is a        *)
(* number, 0 for an empty field.                                           *)
(***************************************************************************)
EXTENDS Integers, Sequences

CONSTANTS MaxText, MaxPermission \* bounds: texts of a field, permissions of a policy

VARIABLES
  identifier, config, \* of the permission being filled in; a configuration by its name
  text,               \* the fields, by configuration
  object,             \* the configuration objects
  due,                \* the effect is to run
  permissions,        \* those added: type and configuration
  saved               \* the request: what each permission says in it

vars == <<identifier, config, text, object, due, permissions, saved>>

None == "none"
Configured == {"allowed_kinds", "content_filter"}
Type == Configured \cup {"encrypt_to_self"}
Text == 0..MaxText
\* What a configuration says; an absent one says nothing.
Says(c, objects) == IF c = None THEN -1 ELSE objects[c]

TypeOK ==
  /\ identifier \in Type \cup {None} /\ config \in Configured \cup {None}
  /\ text \in [Configured -> Text] /\ object \in [Configured -> Text] /\ due \in BOOLEAN
  /\ Len(permissions) <= MaxPermission
  /\ \A i \in 1..Len(permissions) :
       permissions[i] \in [type : Type, config : Configured \cup {None}]
  /\ saved \in Seq([type : Type, says : Text \cup {-1}])

Init ==
  /\ identifier = None /\ config = None /\ text = [c \in Configured |-> 0]
  /\ object = text /\ due = FALSE /\ permissions = <<>> /\ saved = <<>>

Choose(t) ==
  /\ ~due /\ saved = <<>> /\ t # identifier /\ identifier' = t /\ due' = TRUE
  /\ UNCHANGED <<config, text, object, permissions, saved>>

\* A field is on the page while its type is chosen.
Fill(c, n) ==
  /\ ~due /\ saved = <<>> /\ identifier = c /\ text[c] # n
  /\ text' = [text EXCEPT ![c] = n] /\ due' = TRUE
  /\ UNCHANGED <<identifier, config, object, permissions, saved>>

\* Mutant: the first case falls through to the second.
Pointed_Falls == IF identifier \in Configured THEN "content_filter" ELSE config

\* The type that has no configuration leaves the pointer where it was.
Pointed == IF identifier \in Configured THEN identifier ELSE config

Effect ==
  /\ due /\ due' = FALSE /\ object' = text /\ config' = Pointed
  /\ UNCHANGED <<identifier, text, permissions, saved>>

\* The form's own fields keep their texts.
AddPermission ==
  /\ ~due /\ saved = <<>> /\ identifier # None /\ Len(permissions) < MaxPermission
  /\ permissions' = Append(permissions, [type |-> identifier, config |-> config])
  /\ identifier' = None /\ config' = None /\ due' = TRUE
  /\ UNCHANGED <<text, object, saved>>

CreatePolicy ==
  /\ ~due /\ permissions # <<>> /\ saved = <<>>
  /\ saved' = [i \in 1..Len(permissions) |->
                 [type |-> permissions[i].type, says |-> Says(permissions[i].config, object)]]
  /\ UNCHANGED <<identifier, config, text, object, due, permissions>>

Failed ==
  /\ saved # <<>> /\ saved' = <<>>
  /\ UNCHANGED <<identifier, config, text, object, due, permissions>>

Next ==
  \/ Effect \/ AddPermission \/ CreatePolicy \/ Failed
  \/ \E t \in Type \cup {None} : Choose(t)
  \/ \E c \in Configured, n \in Text : Fill(c, n)

Spec == Init /\ [][Next]_vars

-----------------------------------------------------------------------------
(* Properties. *)

\* Every permission of the policy that is sent says what the form's fields for its type say
\* when it is sent, whichever type is chosen then and whatever was typed since it was
\* added: of two permissions of a type, both say what was typed last.
SavedAsTheFormSays ==
  \A i \in 1..Len(saved) :
    saved[i].type \in Configured => saved[i].says = text[saved[i].type]

-----------------------------------------------------------------------------
(* The inductive invariant of SavedAsTheFormSays. *)

\* What is on the list, and what is sent.
Permission == [type : Type, config : Configured \cup {None}]
SavedOne == [type : Type, says : Int]

Typed ==
  /\ identifier \in Type \cup {None} /\ config \in Configured \cup {None}
  /\ text \in [Configured -> Int] /\ object \in [Configured -> Int] /\ due \in BOOLEAN
  /\ permissions \in Seq(Permission) /\ saved \in Seq(SavedOne)

\* Until the effect is due again, the objects say what the fields say and the configuration
\* is the one of the type; what was added points to the object of its type, and a request
\* says what the objects said when it was made, which do not change while it is there.
PolicyInv ==
  /\ Typed
  /\ ~due => object = text /\ (identifier \in Configured => config = identifier)
  /\ \A i \in 1..Len(permissions) :
       permissions[i].type \in Configured => permissions[i].config = permissions[i].type
  /\ saved # <<>> => ~due /\ Len(saved) = Len(permissions)
  /\ \A i \in 1..Len(saved) :
       /\ saved[i].type = permissions[i].type
       /\ saved[i].says = Says(permissions[i].config, object)
=============================================================================
