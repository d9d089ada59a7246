--------------------------- MODULE MCConfiguration --------------------------
(* A small instance of Configuration for TLC. *)
EXTENDS Configuration

MCKeys ==
    {"database", "path", "matching", "tolerance", "auto", "venues", "NYSE", "t_plus", "fix",
     "sla", "hours"}

MCTree(dicts, values) ==
    [p \in dicts \cup DOMAIN values |-> IF p \in dicts THEN Dict ELSE values[p]]

MCDefault ==
    MCTree({<<"database">>, <<"matching">>, <<"venues">>, <<"venues", "NYSE">>},
           (<<"database", "path">> :> "d0") @@ (<<"matching", "tolerance">> :> "t0")
           @@ (<<"matching", "auto">> :> "a0") @@ (<<"venues", "NYSE", "t_plus">> :> "2"))

\* Nothing; two sections of the defaults; a value where the defaults have a dictionary, at
\* the top and below; a new venue, a dictionary for what may be a value, a new section;
\* a database that is no dictionary, and more.
MCFiles ==
    {<<>>,
     MCTree({<<"database">>, <<"matching">>},
            (<<"database", "path">> :> "d1") @@ (<<"matching", "tolerance">> :> "t1")),
     MCTree({<<"venues">>}, (<<"matching">> :> "null") @@ (<<"venues", "NYSE">> :> "null")),
     MCTree({<<"venues">>, <<"venues", "NYSE">>, <<"sla">>},
            (<<"venues", "NYSE", "fix">> :> "f1") @@ (<<"sla", "hours">> :> "24")),
     MCTree({<<"matching">>},
            (<<"database">> :> "null") @@ (<<"matching", "auto">> :> "a1"))}

=============================================================================
