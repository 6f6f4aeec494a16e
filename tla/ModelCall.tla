------------------------------ MODULE ModelCall -------------------------------
(***************************************************************************)
(* A turn's model call from the files on disk to the last chunk: a profile *)
(* is loaded (Profiles), projected to what the router reads of it          *)
(* (Profile.to_router_profile), and a completion is streamed (Router).     *)
(***************************************************************************)
EXTENDS Profiles, Router

CONSTANT FileSystems   \* the file systems the loader is tried on

\* What a file extends is a name, unless it is nothing or no string.
ASSUME FilesAssumption ==
    /\ None \notin Names /\ NotAString \notin Names
    /\ \A system \in FileSystems : \A d \in 1..Directories, n \in Names :
          system[d][n] \in {Absent, Broken} \/ system[d][n].extends \in Names \cup {None, NotAString}

vars == <<loaderVars, routerVars>>

\* Profile.to_router_profile, with the defaults of ErrorHandling.
ToRouterProfile(p) ==
    [provider           |-> Setting(p, "model", "provider", None),
     retry_on_transient |-> Setting(p, "error_handling", "retry_on_transient", TRUE),
     max_retries        |-> Setting(p, "error_handling", "max_retries", 3)]

NoFiles == [d \in 1..Directories |-> [n \in Names |-> Absent]]

Init ==
    /\ files \in FileSystems
    /\ profile = [provider |-> None, retry_on_transient |-> TRUE, max_retries |-> 0]
    /\ LoaderInit
    /\ RouterInit

\* The loaded profile is handed to the router. What the loader worked on is read no
\* more, and is forgotten.
Complete ==
    /\ verdict = "loaded" /\ pc = "idle"
    /\ profile' = ToRouterProfile(Merged)
    /\ pc' = "call"
    /\ verdict' = "used"
    /\ files' = NoFiles /\ name' = None /\ visited' = <<>> /\ chain' = <<>>
    /\ UNCHANGED <<owned, attempt, manager, client, tool_blocks, next, out, closing,
                   serverVars>>

Load == LoaderNext /\ UNCHANGED routerVars

Next == Load \/ Complete \/ (RouterNext /\ UNCHANGED loaderVars)

Spec == Init /\ [][Next]_vars

FairSpec == Spec /\ WF_vars(Load) /\ WF_vars(Complete) /\ RouterFairness

-----------------------------------------------------------------------------
(* Properties *)

\* The router gives out what a provider promises, and nothing after its end.
Promise == INSTANCE ModelStream WITH
              types <- [i \in DOMAIN out |-> out[i].type],
              over  <- pc \in {"ended", "raised", "abandoned"}

\* ProviderInterface: content, then usage and done, or one error, and nothing after.
ImplementsModelStream == Promise!Spec

\* A turn's model call ends: the loader refuses or the stream is over, whatever
\* `extends` what.
ModelCallEnds ==
    <>(verdict \in {"cycle", "too deep", "not found", "invalid"}
       \/ pc \in {"ended", "raised", "abandoned"})
==============================================================================
