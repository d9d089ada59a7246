---------------------------- MODULE Configuration ---------------------------
(***************************************************************************)
(* load_config of python/recon/config.py, called several times in one      *)
(* process, and the option --db of the command match (python/recon/cli.py),*)
(* which writes into the configuration it was given.  An application, a    *)
(* scheduler or a test keeps a configuration while others are loaded.      *)
(*                                                                         *)
(* A dictionary with all that is nested in it is a function from paths,    *)
(* sequences of keys, to values; a nested dictionary has the value Dict.   *)
(* load_config copies _DEFAULT_CONFIG, but not the dictionaries in it: a   *)
(* section is one object, shared by the defaults and by all configurations *)
(* whose file has not put something else in its place.                     *)
(***************************************************************************)
EXTENDS Integers, SequencesExt, FiniteSetsExt

CONSTANTS
    Keys,            \* the keys of dictionaries
    Default,         \* _DEFAULT_CONFIG
    Files,           \* the contents of configuration files; an empty or absent one is <<>>
    Paths,           \* the database paths in RECONX_DB_PATH and in --db
    NoPath,          \* none given
    Dict,            \* the value of a path that leads to a dictionary
    MaxLoads, MaxMatches     \* bounds: calls of load_config and of match

KeyPaths == Seq(Keys) \ {<<>>}

\* What a path leads to lies in dictionaries.
IsTree(f) ==
    \A p \in DOMAIN f : \A n \in 1..(Len(p) - 1) :
        SubSeq(p, 1, n) \in DOMAIN f /\ f[SubSeq(p, 1, n)] = Dict

ASSUME TreeAssumption ==
    /\ {"database", "path"} \subseteq Keys
    /\ \A f \in Files \cup {Default} :
           f = [p \in DOMAIN f |-> f[p]] /\ DOMAIN f \subseteq KeyPaths /\ IsTree(f)
    /\ \A p \in DOMAIN Default : Len(p) = 1 => Default[p] = Dict
    /\ <<"database", "path">> \in DOMAIN Default
    /\ NoPath \notin Paths
ASSUME BoundAssumption == MaxLoads \in Nat /\ MaxMatches \in Nat

VARIABLES
    shared,          \* the sections of _DEFAULT_CONFIG
    configs,         \* the configurations returned: what each has of its own
    inputs,          \* history: what was written, for which configuration
    loads, matches   \* calls so far

vars == <<shared, configs, inputs, loads, matches>>

Database == <<"database", "path">>
Sections == {p[1] : p \in DOMAIN Default}

-----------------------------------------------------------------------------
(* Dictionaries. *)

Restricted(f, S) == [p \in {p \in DOMAIN f : p[1] \in S} |-> f[p]]

\* Wrong on purpose: a section that is given replaces the default one.
_deep_merge_Update(base, override) ==
    [p \in {p \in DOMAIN base : <<p[1]>> \notin DOMAIN override} \cup DOMAIN override |->
        IF p \in DOMAIN override THEN override[p] ELSE base[p]]

\* Where both have a dictionary they are merged; all else that is given replaces what was
\* there, with all that was below.
_deep_merge(base, override) ==
    LET Replaced(p) == \E q \in DOMAIN override :
                           IsStrictPrefix(q, p) /\ override[q] # Dict
    IN  [p \in {p \in DOMAIN base : ~Replaced(p)} \cup DOMAIN override |->
            IF p \in DOMAIN override THEN override[p] ELSE base[p]]

PathOf(db) == [p \in {<<"database">>, Database} |-> IF p = Database THEN db ELSE Dict]

\* The sections that a file replaces by something that is no dictionary.
ReplacedBy(file) ==
    {s \in Sections : <<s>> \in DOMAIN file /\ file[<<s>>] # Dict}

\* What a configuration looks like to who holds it.
View(c) ==
    _deep_merge(Restricted(shared, Sections \ {p[1] : p \in DOMAIN configs[c]}), configs[c])

-----------------------------------------------------------------------------

Init ==
    /\ shared = Default
    /\ configs = <<>> /\ inputs = <<>>
    /\ loads = 0 /\ matches = 0

\* What enters the shared sections, and what a configuration has for itself.
IntoShared(tree) == Restricted(tree, Sections \ ReplacedBy(tree))
OwnPart(tree)    == [p \in DOMAIN tree \ DOMAIN IntoShared(tree) |-> tree[p]]

\* What a call writes: the file, and then cfg["database"]["path"] = env_db.
Written(file, env_db) ==
    IF env_db = NoPath \/ "database" \in ReplacedBy(file) THEN file
    ELSE _deep_merge(file, PathOf(env_db))

\* Wrong on purpose: the file is merged into the dictionary of the defaults itself.
load_config_NoCopy(file, env_db) ==
    /\ loads < MaxLoads
    /\ env_db = NoPath \/ "database" \notin ReplacedBy(file)
    /\ shared' = _deep_merge(shared, Written(file, env_db))
    /\ configs' = Append(configs, <<>>)
    /\ inputs' = Append(inputs, [for |-> Len(configs) + 1, tree |-> Written(file, env_db)])
    /\ loads' = loads + 1
    /\ UNCHANGED matches

load_config(file, env_db) ==
    /\ loads < MaxLoads
    /\ env_db = NoPath \/ "database" \notin ReplacedBy(file)
    /\ shared' = _deep_merge(shared, IntoShared(Written(file, env_db)))
    /\ configs' = Append(configs, OwnPart(Written(file, env_db)))
    /\ inputs' = Append(inputs, [for |-> Len(configs) + 1, tree |-> Written(file, env_db)])
    /\ loads' = loads + 1
    /\ UNCHANGED matches

\* The environment names a database and the file has no dictionary for it: the call
\* raises after the file was merged.
load_config_raises(file, env_db) ==
    /\ loads < MaxLoads
    /\ env_db # NoPath /\ "database" \in ReplacedBy(file)
    /\ shared' = _deep_merge(shared, IntoShared(file))
    /\ inputs' = Append(inputs, [for |-> 0, tree |-> file])
    /\ loads' = loads + 1
    /\ UNCHANGED <<configs, matches>>

\* Whether configuration c has the section of the defaults, and not one of its own.
Shares(c, section) == section \in Sections /\ <<section>> \notin DOMAIN configs[c]

\* match --db: the command is given the configuration just loaded.  Where that has no
\* dictionary for the database, it raises.
match(db) ==
    LET c == Len(configs)
    IN  /\ matches < MaxMatches /\ c > 0
        /\ Shares(c, "database")
        /\ shared' = _deep_merge(shared, PathOf(db))
        /\ inputs' = Append(inputs, [for |-> c, tree |-> PathOf(db)])
        /\ matches' = matches + 1
        /\ UNCHANGED <<configs, loads>>

Next ==
    \/ \E file \in Files, env_db \in Paths \cup {NoPath} :
           load_config(file, env_db) \/ load_config_raises(file, env_db)
    \/ \E db \in Paths : match(db)

Spec == Init /\ [][Next]_vars

-----------------------------------------------------------------------------
(* Properties. *)

\* Dictionaries lie in dictionaries, and no section of the defaults is ever anything
\* but a dictionary with a path to a database, or whatever a file has put there.
TypeOK ==
    /\ IsTree(shared) /\ \A s \in Sections : shared[<<s>>] = Dict
    /\ {p[1] : p \in DOMAIN shared} = Sections
    /\ \A c \in DOMAIN configs : IsTree(configs[c]) /\ IsTree(View(c))
    /\ \A i \in DOMAIN inputs : inputs[i].for \in 0..Len(configs) /\ IsTree(inputs[i].tree)
    /\ loads \in 0..MaxLoads /\ matches \in 0..MaxMatches

\* Whether a dictionary says something about a path, and what: a value for it, or that
\* there is none, as a path to it ends before.
CutShort(tree, p) == \E q \in DOMAIN tree : IsStrictPrefix(q, p) /\ tree[q] # Dict
Says(tree, p)     == IF p \in DOMAIN tree THEN <<tree[p]>> ELSE <<>>

\* At any time, what a configuration has at a path is the last word: of the files, the
\* environment and --db it was itself made of, and in the sections it shares with the
\* defaults also of those of all other calls, earlier or later, failed ones included.  Where
\* nobody said anything it is the default.  So a configuration that is the only one of
\* its process is as documented, and a section that a file replaces by something else
\* is lost to nobody but its own configuration.
LastWordCounts ==
    \A c \in DOMAIN configs :
        \A p \in DOMAIN Default \cup DOMAIN View(c) \cup UNION {DOMAIN inputs[i].tree : i \in DOMAIN inputs} :
            LET heard == {i \in DOMAIN inputs :
                             /\ p \in DOMAIN inputs[i].tree \/ CutShort(inputs[i].tree, p)
                             /\ \/ inputs[i].for = c
                                \/ Shares(c, p[1]) /\ p[1] \notin ReplacedBy(inputs[i].tree)}
            IN  Says(View(c), p) = Says(IF heard = {} THEN Default ELSE inputs[Max(heard)].tree, p)

=============================================================================
