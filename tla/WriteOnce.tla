------------------------------ MODULE WriteOnce -----------------------------
(***************************************************************************)
(* What an immutable store promises: a name gets one content, for good,    *)
(* and who was told it is published was told the content it shows.         *)
(* ContentStore, ProductionVersions and ProductionPublication implement    *)
(* it.                                                                     *)
(***************************************************************************)
CONSTANTS Names, Contents, None

VARIABLES
    value,      \* what each name shows a reader, or None
    told        \* the content whose publisher was told it is published, or None

vars == <<value, told>>

\* A name has one content or none.
TypeOK ==
    /\ value \in [Names -> Contents \cup {None}]
    /\ told \in [Names -> Contents \cup {None}]

Init ==
    /\ value = [n \in Names |-> None]
    /\ told = [n \in Names |-> None]

Publish(n, c) ==
    /\ value[n] = None
    /\ value' = [value EXCEPT ![n] = c]
    /\ UNCHANGED told

Return(n) ==
    /\ value[n] # None
    /\ told' = [told EXCEPT ![n] = value[n]]
    /\ UNCHANGED value

\* A crash of the host, or an invalidation it undoes, takes back or gives back
\* what nobody was told of.
Settle ==
    /\ value' \in [Names -> Contents \cup {None}]
    /\ \A n \in Names : value'[n] # value[n] =>
          told[n] = None /\ None \in {value[n], value'[n]}
    /\ UNCHANGED told

Next ==
    \/ \E n \in Names : Return(n) \/ \E c \in Contents : Publish(n, c)
    \/ Settle

Spec == Init /\ [][Next]_vars
=============================================================================
