------------------------------- MODULE Sandbox -------------------------------
(***************************************************************************)
(* The Sandbox service and its DockerBackend (sandbox/service.py,          *)
(* sandbox/backends/docker.py) in one process: concurrent callers that     *)
(* provision, execute, destroy and ask the status of sandboxes. Between    *)
(* two awaits a coroutine runs undisturbed; what it awaits runs in a       *)
(* worker thread, which goes on when the coroutine is cancelled.           *)
(***************************************************************************)
EXTENDS Naturals

CONSTANTS Callers,    \* coroutines that use the Sandbox
          Ids,        \* container ids Docker may give
          MaxFaults,  \* bound on failures and cancellations
          None        \* no status tracked, an idle caller's sandbox

\* SandboxStatus; PROVISIONING is never tracked.
Statuses == {"ready", "running", "idle", "error", "destroyed"}
Failed   == {"error", "destroyed"}

ASSUME SandboxAssumption == MaxFaults \in Nat /\ None \notin Ids \cup Statuses

VARIABLES
    docker,     \* each container: none, starting, running, paused, gone
    containers, \* DockerBackend._containers: the ids it tracks
    stopping,   \* ids with a worker thread in _safe_destroy
    killing,    \* ids with a worker thread in _safe_kill
    status,     \* Sandbox._status
    pc,         \* what each caller awaits
    box,        \* the sandbox its call is about
    view,       \* what Docker told its status call
    returned,   \* history: the ids provision has returned
    condemned,  \* history: the ids destroy was called for
    lost,       \* history: the containers a failure has put out of reach
    faults      \* history: failures and cancellations so far

threadVars == <<stopping, killing>>
callVars   == <<pc, box, view>>
histVars   == <<returned, condemned, lost, faults>>
vars == <<docker, containers, threadVars, status, callVars, histVars>>

\* ALLOWED_TRANSITIONS and assert_transition's no-op
ALLOWED_TRANSITIONS ==
    [s \in Statuses |-> CASE s = "ready"     -> {"running", "destroyed", "error"}
                          [] s = "running"   -> {"idle", "error", "destroyed"}
                          [] s = "idle"      -> {"running", "destroyed", "error"}
                          [] s = "error"     -> {"destroyed"}
                          [] s = "destroyed" -> {}]

Allowed(s, next) == s = next \/ next \in ALLOWED_TRANSITIONS[s]

\* execute takes a sandbox it does not track for a ready one.
Current(id) == IF status[id] = None THEN "ready" ELSE status[id]

Init ==
    /\ docker = [id \in Ids |-> "none"]
    /\ containers = {}
    /\ stopping = {} /\ killing = {}
    /\ status = [id \in Ids |-> None]
    /\ pc = [c \in Callers |-> "idle"]
    /\ box = [c \in Callers |-> None]
    /\ view = [c \in Callers |-> None]
    /\ returned = {} /\ condemned = {} /\ lost = {}
    /\ faults = 0

Enter(c, step, id) ==
    /\ pc[c] = "idle"
    /\ pc' = [pc EXCEPT ![c] = step]
    /\ box' = [box EXCEPT ![c] = id]
    /\ UNCHANGED view

Leave(c) ==
    /\ pc' = [pc EXCEPT ![c] = "idle"]
    /\ box' = [box EXCEPT ![c] = None]
    /\ view' = [view EXCEPT ![c] = None]

Track(id, next) == status' = [status EXCEPT ![id] = next]

Fault == faults < MaxFaults /\ faults' = faults + 1

-----------------------------------------------------------------------------
(* provision *)

ProvisionCall(c, id) ==
    /\ docker[id] = "none"
    /\ Enter(c, "provision", id)
    /\ docker' = [docker EXCEPT ![id] = "starting"]
    /\ UNCHANGED <<containers, threadVars, status, histVars>>

\* containers.run in the worker thread
ContainerStarts(id) ==
    /\ docker[id] = "starting"
    /\ docker' = [docker EXCEPT ![id] = "running"]
    /\ UNCHANGED <<containers, threadVars, status, callVars, histVars>>

ProvisionReturns(c) ==
    /\ pc[c] = "provision"
    /\ docker[box[c]] \notin {"none", "starting"}
    /\ containers' = containers \cup {box[c]}
    /\ Track(box[c], "ready")
    /\ returned' = returned \cup {box[c]}
    /\ Leave(c)
    /\ UNCHANGED <<docker, threadVars, condemned, lost, faults>>

\* The image cannot be pulled, or a step after containers.run fails: then the
\* container stays.
ProvisionFails(c) ==
    /\ pc[c] = "provision"
    /\ Fault
    /\ IF docker[box[c]] = "starting"
       THEN docker' = [docker EXCEPT ![box[c]] = "gone"] /\ UNCHANGED lost
       ELSE lost' = lost \cup {box[c]} /\ UNCHANGED docker
    /\ Leave(c)
    /\ UNCHANGED <<containers, threadVars, status, returned, condemned>>

-----------------------------------------------------------------------------
(* execute. A sandbox in error or destroyed refuses, and nothing changes. *)

Execute(c, id) ==
    /\ id \in returned \cap containers
    /\ Allowed(Current(id), "running")
    /\ Enter(c, "tool", id)
    /\ Track(id, "running")
    /\ UNCHANGED <<docker, containers, threadVars, histVars>>

\* SandboxNotFoundError: by way of RUNNING to ERROR without an await.
ExecuteUntracked(c, id) ==
    /\ pc[c] = "idle"
    /\ id \in returned \ containers
    /\ Allowed(Current(id), "running")
    /\ Track(id, "error")
    /\ UNCHANGED <<docker, containers, threadVars, callVars, histVars>>

\* Variant: the status is set without assert_transition.
SettleUnchecked(c, next) == Track(box[c], next) /\ Leave(c)

\* _transition as the call ends; what is not allowed raises and changes nothing.
Settle(c, next) ==
    /\ IF Allowed(Current(box[c]), next) THEN Track(box[c], next)
                                         ELSE UNCHANGED status
    /\ Leave(c)

\* The tool ends, well or not. An exception makes it an error, and so does an
\* error text that has "timeout" in it.
ToolReturns(c) ==
    /\ pc[c] = "tool"
    /\ \E next \in {"idle", "error"} : Settle(c, next)
    /\ UNCHANGED <<docker, containers, threadVars, histVars>>

ToolTimesOut(c) ==
    /\ pc[c] = "tool"
    /\ pc' = [pc EXCEPT ![c] = "kill"]
    /\ killing' = killing \cup {box[c]}
    /\ UNCHANGED <<docker, containers, stopping, status, box, view, histVars>>

KillRuns(id) ==
    /\ id \in killing
    /\ killing' = killing \ {id}
    /\ docker' = [docker EXCEPT ![id] = "gone"]
    /\ UNCHANGED <<containers, stopping, status, callVars, histVars>>

KillReturns(c) ==
    /\ pc[c] = "kill"
    /\ box[c] \notin killing
    /\ Settle(c, "error")
    /\ UNCHANGED <<docker, containers, threadVars, histVars>>

-----------------------------------------------------------------------------
(* destroy: allowed in every status *)

\* Variant: the backend forgets the container when it is gone.
DestroyPopsLate(c, id) ==
    /\ id \in returned \cap containers
    /\ Enter(c, "stop", id)
    /\ stopping' = stopping \cup {id}
    /\ condemned' = condemned \cup {id}
    /\ UNCHANGED <<docker, containers, killing, status, returned, lost, faults>>

\* Variant: an errored sandbox was killed already.
DestroySparesErrors(c, id) ==
    /\ id \in returned \cap containers
    /\ Enter(c, "stop", id)
    /\ containers' = containers \ {id}
    /\ stopping' = IF status[id] = "error" THEN stopping ELSE stopping \cup {id}
    /\ condemned' = condemned \cup {id}
    /\ UNCHANGED <<docker, killing, status, returned, lost, faults>>

Destroy(c, id) ==
    /\ id \in returned \cap containers
    /\ Enter(c, "stop", id)
    /\ containers' = containers \ {id}
    /\ stopping' = stopping \cup {id}
    /\ condemned' = condemned \cup {id}
    /\ UNCHANGED <<docker, killing, status, returned, lost, faults>>

\* A second destroy finds nothing to stop and does not wait for the first.
DestroyAgain(c, id) ==
    /\ pc[c] = "idle"
    /\ id \in returned \ containers
    /\ status' = [status EXCEPT ![id] = IF @ = None THEN None ELSE "destroyed"]
    /\ condemned' = condemned \cup {id}
    /\ UNCHANGED <<docker, containers, threadVars, callVars, returned, lost, faults>>

\* _safe_destroy: stop and remove.
StopRuns(id) ==
    /\ id \in stopping
    /\ stopping' = stopping \ {id}
    /\ docker' = [docker EXCEPT ![id] = "gone"]
    /\ UNCHANGED <<containers, killing, status, callVars, histVars>>

DestroyReturns(c) ==
    /\ pc[c] = "stop"
    /\ box[c] \notin stopping
    /\ Track(box[c], "destroyed")
    /\ Leave(c)
    /\ UNCHANGED <<docker, containers, threadVars, histVars>>

-----------------------------------------------------------------------------
(* status *)

StatusUntracked(c, id) ==
    /\ pc[c] = "idle"
    /\ id \in returned \ containers
    /\ status[id] # None
    /\ Track(id, "destroyed")
    /\ UNCHANGED <<docker, containers, threadVars, callVars, histVars>>

StatusCall(c, id) ==
    /\ id \in returned \cap containers
    /\ Enter(c, "reload", id)
    /\ UNCHANGED <<docker, containers, threadVars, status, histVars>>

\* _status_from_container in the worker thread: any error of Docker's is taken
\* for a destroyed container.
Reload(c) ==
    /\ pc[c] = "reload"
    /\ pc' = [pc EXCEPT ![c] = "reloaded"]
    /\ \E seen \in {"destroyed", CASE docker[box[c]] = "running" -> "idle"
                                  [] docker[box[c]] = "paused"  -> "error"
                                  [] OTHER                      -> "destroyed"} :
          view' = [view EXCEPT ![c] = seen]
    /\ UNCHANGED <<docker, containers, threadVars, status, box, histVars>>

\* A bad view is written over whatever the status has become meanwhile.
StatusReturns(c) ==
    /\ pc[c] = "reloaded"
    /\ IF view[c] \in Failed THEN Track(box[c], view[c]) ELSE UNCHANGED status
    /\ Leave(c)
    /\ UNCHANGED <<docker, containers, threadVars, histVars>>

-----------------------------------------------------------------------------
(* The world *)

\* The container exits, or an operator pauses it.
ContainerChanges(id) ==
    /\ docker[id] = "running"
    /\ \E state \in {"paused", "gone"} : docker' = [docker EXCEPT ![id] = state]
    /\ UNCHANGED <<containers, threadVars, status, callVars, histVars>>

\* _safe_kill and _safe_destroy swallow every error of Docker.
ThreadFails(id) ==
    /\ Fault
    /\ \/ /\ id \in stopping
          /\ stopping' = stopping \ {id}
          /\ lost' = lost \cup {id}
          /\ UNCHANGED killing
       \/ /\ id \in killing
          /\ killing' = killing \ {id}
          /\ UNCHANGED <<stopping, lost>>
    /\ UNCHANGED <<docker, containers, status, callVars, returned, condemned>>

\* The container of a provision that is cancelled starts all the same.
Cancel(c) ==
    /\ pc[c] # "idle"
    /\ Fault
    /\ lost' = IF pc[c] = "provision" THEN lost \cup {box[c]} ELSE lost
    /\ Leave(c)
    /\ UNCHANGED <<docker, containers, threadVars, status, returned, condemned>>

\* The process dies and is started again: Docker's containers stay, and callers
\* find the ids of old ones in the session's log.
Crash ==
    /\ Fault
    /\ containers' = {}
    /\ stopping' = {} /\ killing' = {}
    /\ status' = [id \in Ids |-> None]
    /\ pc' = [c \in Callers |-> "idle"]
    /\ box' = [c \in Callers |-> None]
    /\ view' = [c \in Callers |-> None]
    /\ docker' = [id \in Ids |-> IF docker[id] = "starting" THEN "gone" ELSE docker[id]]
    /\ lost' = lost \cup {id \in Ids : docker[id] \in {"running", "paused"}}
    /\ UNCHANGED <<returned, condemned>>

Next ==
    \/ \E c \in Callers, id \in Ids :
          \/ ProvisionCall(c, id)
          \/ Execute(c, id) \/ ExecuteUntracked(c, id)
          \/ Destroy(c, id) \/ DestroyAgain(c, id)
          \/ StatusCall(c, id) \/ StatusUntracked(c, id)
    \/ \E c \in Callers :
          \/ ProvisionReturns(c) \/ ProvisionFails(c)
          \/ ToolReturns(c) \/ ToolTimesOut(c) \/ KillReturns(c)
          \/ DestroyReturns(c) \/ Reload(c) \/ StatusReturns(c) \/ Cancel(c)
    \/ \E id \in Ids : \/ ContainerStarts(id) \/ KillRuns(id)
                       \/ StopRuns(id) \/ ThreadFails(id) \/ ContainerChanges(id)
    \/ Crash

Spec == Init /\ [][Next]_vars

-----------------------------------------------------------------------------
(* Properties *)

\* Every variable holds a value of its kind.
TypeOK ==
    /\ docker \in [Ids -> {"none", "starting", "running", "paused", "gone"}]
    /\ containers \subseteq returned /\ condemned \subseteq returned
    /\ returned \in SUBSET Ids /\ lost \in SUBSET Ids
    /\ stopping \in SUBSET Ids /\ killing \in SUBSET Ids
    /\ status \in [Ids -> Statuses \cup {None}]
    /\ pc \in [Callers -> {"idle", "provision", "tool", "kill", "stop", "reload",
                           "reloaded"}]
    /\ box \in [Callers -> Ids \cup {None}]
    /\ view \in [Callers -> {"idle", "error", "destroyed", None}]
    /\ faults \in 0..MaxFaults
    /\ \A c \in Callers : box[c] = None <=> pc[c] = "idle"

\* An execute in the sandbox would reach a container.
Usable(id) == id \in containers /\ status[id] \notin Failed

\* A sandbox that errored (a timed-out tool had it killed), was destroyed or was
\* reported gone never comes back into use, whatever late results and status
\* answers of other callers are still on their way.
DeadStaysDead ==
    [][\A id \in returned : ~ Usable(id) => ~ Usable(id)']_vars

\* No tool starts in a container that a destroy has begun to take down.
NoToolAfterDestroy ==
    [][\A c \in Callers :
          pc[c] # "tool" /\ pc'[c] = "tool" => box'[c] \notin condemned]_vars

\* Whatever fails, is cancelled or dies, a container that runs is tracked, being
\* provisioned or being stopped, so that destroy can still reach it; but for
\* those lost: a provision that was cancelled or failed after containers.run,
\* a stop that Docker refused, and what ran when the process died. An error, a
\* time-out, a failed kill and a cancelled execute, status or destroy lose none.
NothingLeaks ==
    \A id \in Ids \ lost :
        docker[id] \in {"starting", "running", "paused"} =>
            \/ id \in containers \cup stopping
            \/ \E c \in Callers : pc[c] = "provision" /\ box[c] = id
=============================================================================
