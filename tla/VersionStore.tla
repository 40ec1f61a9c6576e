---------------------------- MODULE VersionStore ----------------------------
(***************************************************************************)
(* What a client may build on, with no files in it: a store of whole       *)
(* versions.  A request claims the names it is going to change.  Only a    *)
(* claimant changes a name: first its value becomes unknown, then a new    *)
(* version appears at once, and only while nobody else claims the name.    *)
(* No read, no request on another name and no crash changes what is known. *)
(***************************************************************************)
CONSTANTS
    Clients,  \* who sends requests
    Names,    \* what is stored: objects and buckets
    Values,   \* whole versions, or nothing
    Unknown   \* any value, or the remains of several

VARIABLES
    stored,   \* by name
    claims    \* by client: the names its request may change

TypeOK ==
    /\ stored \in [Names -> Values \cup {Unknown}]
    /\ claims \in [Clients -> SUBSET Names]

Init ==
    /\ stored \in [Names -> Values]
    /\ claims = [c \in Clients |-> {}]

Claim(c) ==
    /\ claims[c] = {}
    /\ \E S \in SUBSET Names : claims' = [claims EXCEPT ![c] = S]
    /\ UNCHANGED stored

Alone(c, x) == \A o \in Clients \ {c} : x \notin claims[o]

Forget(c, x) == x \in claims[c] /\ stored'[x] = Unknown

Replace(c, x) ==
    /\ x \in claims[c] /\ Alone(c, x)
    /\ stored[x] = Unknown /\ stored'[x] \in Values

\* A request goes on, and may be over.
Work(c) ==
    /\ stored' \in [Names -> Values \cup {Unknown}]
    /\ \A x \in Names : stored'[x] = stored[x] \/ Forget(c, x) \/ Replace(c, x)
    /\ claims' \in {claims, [claims EXCEPT ![c] = {}]}

Restart == claims' = [c \in Clients |-> {}] /\ UNCHANGED stored

Next == (\E c \in Clients : Claim(c) \/ Work(c)) \/ Restart

Spec == Init /\ [][Next]_<<stored, claims>>

=============================================================================
