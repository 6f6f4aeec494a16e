----------------------------- MODULE MCModelCall ------------------------------
(***************************************************************************)
(* An instance of ModelCall for TLC: two profiles of the user's, which may *)
(* extend anything or be of no use, and one that ships with the package    *)
(* and that a file of the user's may hide.                                 *)
(***************************************************************************)
EXTENDS ModelCall, TLC

CONSTANTS a, b, base

MCNames == {a, b, base}

Of(section, key, x) == section :> Mapping(key :> x)

\* The bundled profile.
Base == ("model" :> Mapping("provider" :> "anthropic"))
        @@ ("context" :> Mapping("max_tokens" :> 8 @@ "effective_budget" :> 8
                                 @@ "compaction_threshold" :> 6))

\* What a file that extends another may set.
Bodies == {<<>>,
           Of("context", "effective_budget", 5),
           Of("context", "compaction_threshold", None) @@ Of("model", "provider", "openai"),
           Of("error_handling", "max_retries", 1),
           Of("error_handling", "retry_on_transient", FALSE)
              @@ Of("context", "effective_budget", 7),
           "context" :> Value(None),
           "description" :> Value(None)}

UserFiles == {Absent, Broken}
             \cup {File(parent, body) : parent \in MCNames \cup {None, NotAString},
                                        body \in Bodies}

MCFileSystems ==
    {<<(a :> x @@ b :> y @@ base :> z), (a :> Absent @@ b :> Absent @@ base :> File(None, Base))>> :
        x \in UserFiles, y \in UserFiles,
        z \in {Absent, File(base, <<>>), File(None, Base)}}
==============================================================================
