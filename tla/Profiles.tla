------------------------------- MODULE Profiles -------------------------------
(***************************************************************************)
(* ProfileLoader (harness/profiles.py): a profile is read along its        *)
(* `extends`, merged and validated. The file system is a function of       *)
(* directories, the bundled package the last of them, and names; a file is *)
(* absent, broken (no YAML, or no mapping), or a mapping from the sections *)
(* it sets. A section is a mapping from keys, or a value (null is one); no *)
(* mapping of the schema is deeper.                                        *)
(***************************************************************************)
EXTENDS Integers, Sequences, FiniteSetsExt

CONSTANTS Names,        \* the names of profiles
          Directories,  \* how many directories are searched, the bundled one included
          MaxDepth,     \* MAX_EXTENDS_DEPTH
          Absent, Broken, None, NotAString

ASSUME ProfilesAssumption == Directories \in Nat \ {0} /\ MaxDepth \in Nat \ {0}

VARIABLES files,    \* what is on disk
          name,     \* the profile _resolve is called for
          visited,  \* its `visited`
          chain,    \* what the calls have read, `extends` popped, child first
          verdict   \* loading, resolved, loaded, or the error

loaderVars == <<files, name, visited, chain, verdict>>

Mapping(f) == [mapping |-> TRUE, of |-> f]
Value(x)   == [mapping |-> FALSE, of |-> x]
File(parent, body) == [extends |-> parent, body |-> body]

LoaderInit ==
    /\ name \in Names
    /\ visited = <<>> /\ chain = <<>> /\ verdict = "loading"

-----------------------------------------------------------------------------
(* _resolve and _read *)

Places(n) == {d \in 1..Directories : files[d][n] # Absent}

\* _read: the first directory that has the file.
Read(n) == files[Min(Places(n))][n]

Refuse(why) ==
    /\ verdict' = why
    /\ UNCHANGED <<files, name, visited, chain>>

Fresh ==
    /\ verdict = "loading"
    /\ \A i \in DOMAIN visited : visited[i] # name

\* Variant: one file more than the cap.
ReadableOneMore == Fresh /\ Len(visited) <= MaxDepth /\ Places(name) # {}

Readable == Fresh /\ Len(visited) < MaxDepth /\ Places(name) # {}

Cycle ==
    /\ verdict = "loading" /\ ~ Fresh
    /\ Refuse("cycle")

TooDeep ==
    /\ Fresh /\ Len(visited) >= MaxDepth
    /\ Refuse("too deep")

NotFound ==
    /\ Fresh /\ Len(visited) < MaxDepth /\ Places(name) = {}
    /\ Refuse("not found")

\* _parse_yaml raises, or `extends` is no string.
Unusable ==
    /\ Readable
    /\ IF Read(name) = Broken THEN TRUE ELSE Read(name).extends = NotAString
    /\ Refuse("invalid")

\* The call reads its file, and calls itself for the parent or returns.
ReadOne ==
    /\ Readable
    /\ Read(name) # Broken
    /\ LET file == Read(name) IN
       /\ file.extends # NotAString
       /\ chain' = Append(chain, file.body)
       /\ visited' = Append(visited, name)
       /\ IF file.extends = None
          THEN verdict' = "resolved" /\ UNCHANGED name
          ELSE name' = file.extends /\ UNCHANGED verdict
    /\ UNCHANGED files

-----------------------------------------------------------------------------
(* _deep_merge and the validation *)

\* f, and g where f is not defined.
Over(f, g) == [k \in DOMAIN f \cup DOMAIN g |-> IF k \in DOMAIN f THEN f[k] ELSE g[k]]

\* Variant: a section is replaced, not merged.
DeepMergeShallow(parent, child) == Over(child, parent)

\* A child's section is merged into its parent's if both are mappings.
DeepMerge(parent, child) ==
    LET both == {s \in DOMAIN child \cap DOMAIN parent :
                    child[s].mapping /\ parent[s].mapping}
        merged == [s \in both |-> Mapping(Over(child[s].of, parent[s].of))]
    IN  Over(merged, Over(child, parent))

\* What the calls of _resolve return, the last one first.
Merged ==
    LET n == Len(chain)
        m[i \in 1..n] == IF i = n THEN chain[n] ELSE DeepMerge(m[i + 1], chain[i])
    IN  m[1]

Setting(p, section, key, default) ==
    IF section \in DOMAIN p /\ p[section].mapping /\ key \in DOMAIN p[section].of
    THEN p[section].of[key] ELSE default

\* ContextConfig.resolved_compaction_threshold
ResolvedThreshold(p) ==
    LET threshold == Setting(p, "context", "compaction_threshold", None)
    IN  IF threshold = None THEN (4 * p["context"].of["effective_budget"]) \div 5
        ELSE threshold

\* Profile.model_validate, of the schema in Sections.
Sections == {"model", "context", "error_handling"}

Valid(p) ==
    /\ DOMAIN p \subseteq Sections
    /\ Setting(p, "model", "provider", None) # None
    /\ "context" \in DOMAIN p /\ p["context"].mapping
    /\ "error_handling" \in DOMAIN p => p["error_handling"].mapping
    /\ {"max_tokens", "effective_budget"} \subseteq DOMAIN p["context"].of
    /\ LET budget == p["context"].of["effective_budget"]
       IN  /\ budget <= p["context"].of["max_tokens"]
           /\ ResolvedThreshold(p) < budget

Validate ==
    /\ verdict = "resolved"
    /\ verdict' = (IF Valid(Merged) THEN "loaded" ELSE "invalid")
    /\ UNCHANGED <<files, name, visited, chain>>

LoaderNext == Cycle \/ TooDeep \/ NotFound \/ Unusable \/ ReadOne \/ Validate

-----------------------------------------------------------------------------
(* Properties *)

\* "Inherited values are overridden key-by-key. Nested dicts are merged": a setting
\* of a profile is what the nearest of its files that says anything of it says, be
\* it by leaving a section empty.
NearestWins ==
    verdict \in {"resolved", "loaded"} =>
    \A section \in UNION {DOMAIN chain[i] : i \in DOMAIN chain} :
        LET Says(i, key) == /\ section \in DOMAIN chain[i]
                            /\ chain[i][section].mapping => key \in DOMAIN chain[i][section].of
            keys == UNION {DOMAIN chain[i][section].of :
                             i \in {j \in DOMAIN chain : section \in DOMAIN chain[j]
                                                        /\ chain[j][section].mapping}}
        IN  /\ section \in DOMAIN Merged
            /\ \A key \in keys :
                  LET nearest == Min({i \in DOMAIN chain : Says(i, key)})
                      said    == chain[nearest][section]
                  IN  Setting(Merged, section, key, Absent) =
                         IF said.mapping THEN said.of[key] ELSE Absent

\* What `extends` leads to from a name, with nothing but the files: the first names
\* of the path, up to one without a usable parent.
Parent(n) ==
    IF Places(n) = {} \/ Read(n) = Broken THEN None ELSE Read(n).extends

Path(origin) ==
    LET path[k \in 0..MaxDepth] ==
            IF k = 0 THEN origin
            ELSE IF path[k - 1] \in Names THEN Parent(path[k - 1]) ELSE None
    IN  path

\* A profile resolves just if its chain of `extends` has no name twice, is no longer
\* than the cap, and ends in a file that extends nothing: a cycle, wherever on the
\* path it begins, is refused as one, or as too deep, and the loader stops.
RefusesJustBadChains ==
    LET path  == Path(IF visited = <<>> THEN name ELSE visited[1])
        names == {k \in 0..MaxDepth : path[k] \in Names}
        cyclic == \E j, k \in names : j < k /\ path[j] = path[k]
        good == /\ ~ cyclic /\ MaxDepth \notin names
                /\ \A k \in names : Places(path[k]) # {} /\ Read(path[k]) # Broken
                                    /\ Read(path[k]).extends # NotAString
    IN  /\ verdict \in {"resolved", "loaded"} => good
        /\ verdict \in {"cycle", "too deep", "not found"} => ~ good
        /\ verdict = "cycle" => cyclic
==============================================================================
