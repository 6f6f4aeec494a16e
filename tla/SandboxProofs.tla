---------------------------- MODULE SandboxProofs ----------------------------
(***************************************************************************)
(* Proofs about Sandbox, for any callers, container ids and faults.        *)
(***************************************************************************)
EXTENDS Sandbox, TLAPS

\* An id that is being provisioned has a container, one provisioner, and has
\* been returned to nobody.
ProvisionOK ==
    /\ \A id \in returned : docker[id] # "none"
    /\ \A c \in Callers : pc[c] = "provision" =>
          /\ docker[box[c]] # "none"
          /\ box[c] \notin returned
          /\ \A d \in Callers \ {c} : pc[d] = "provision" => box[d] # box[c]

\* What destroy was called for is tracked no more.
CondemnedOK == condemned \cap containers = {}

\* The strengthened invariant.
InductiveInvariant == TypeOK /\ ProvisionOK /\ CondemnedOK /\ NothingLeaks

-----------------------------------------------------------------------------
(* The steps one by one *)

\* A call that begins keeps callers' fields well-typed.
LEMMA EnterType ==
    ASSUME TypeOK, NEW c \in Callers, NEW id \in Ids,
           NEW step \in {"provision", "tool", "kill", "stop", "reload", "reloaded"},
           Enter(c, step, id)
    PROVE  /\ pc' = [pc EXCEPT ![c] = step] /\ box' = [box EXCEPT ![c] = id]
           /\ pc' \in [Callers -> {"idle", "provision", "tool", "kill", "stop",
                                   "reload", "reloaded"}]
           /\ box' \in [Callers -> Ids \cup {None}]
           /\ view' \in [Callers -> {"idle", "error", "destroyed", None}]
           /\ \A d \in Callers : box'[d] = None <=> pc'[d] = "idle"
  BY SandboxAssumption DEF TypeOK, Enter

\* So does a call that ends.
LEMMA LeaveType ==
    ASSUME TypeOK, NEW c \in Callers, Leave(c)
    PROVE  /\ pc' = [pc EXCEPT ![c] = "idle"] /\ box' = [box EXCEPT ![c] = None]
           /\ pc' \in [Callers -> {"idle", "provision", "tool", "kill", "stop",
                                   "reload", "reloaded"}]
           /\ box' \in [Callers -> Ids \cup {None}]
           /\ view' \in [Callers -> {"idle", "error", "destroyed", None}]
           /\ \A d \in Callers : box'[d] = None <=> pc'[d] = "idle"
  BY DEF TypeOK, Leave

\* A caller in a call has a sandbox.
LEMMA BoxOfCall ==
    ASSUME TypeOK, NEW c \in Callers, pc[c] # "idle"
    PROVE  box[c] \in Ids
  BY DEF TypeOK

-----------------------------------------------------------------------------
(* The invariant *)

\* The initial state has no container, no call and no history.
LEMMA InitInductive == Init => InductiveInvariant
  BY SandboxAssumption
     DEF Init, InductiveInvariant, TypeOK, ProvisionOK, CondemnedOK, NothingLeaks

\* provision: a fresh container, until its id is returned.
LEMMA ProvisionSteps ==
    ASSUME InductiveInvariant, NEW c \in Callers, NEW id \in Ids,
           ProvisionCall(c, id) \/ ProvisionReturns(c) \/ ProvisionFails(c)
    PROVE  InductiveInvariant'
<1>.  USE DEF InductiveInvariant
<1>1. CASE ProvisionCall(c, id)
  <2>1. TypeOK'
        BY <1>1, EnterType DEF ProvisionCall, TypeOK, threadVars, histVars
  <2>2. ProvisionOK'
        BY <1>1, EnterType DEF ProvisionCall, TypeOK, ProvisionOK, threadVars, histVars
  <2>3. CondemnedOK'
        BY <1>1 DEF ProvisionCall, CondemnedOK, histVars
  <2>4. NothingLeaks'
    <3>1. pc[c] = "idle" /\ pc' = [pc EXCEPT ![c] = "provision"]
          /\ box' = [box EXCEPT ![c] = id]
          BY <1>1 DEF ProvisionCall, Enter
    <3>2. \A d \in Callers : pc[d] = "provision" =>
             pc'[d] = "provision" /\ box'[d] = box[d]
          BY <3>1 DEF TypeOK
    <3>3. pc'[c] = "provision" /\ box'[c] = id
          BY <3>1 DEF TypeOK
    <3>.  QED  BY <1>1, <3>2, <3>3
               DEF ProvisionCall, TypeOK, NothingLeaks, threadVars, histVars
  <2>.  QED  BY <2>1, <2>2, <2>3, <2>4
<1>2. CASE ProvisionReturns(c)
  <2>1. box[c] \in Ids /\ box[c] \notin returned
        BY <1>2, BoxOfCall DEF ProvisionReturns, ProvisionOK
  <2>2. TypeOK'
        BY <1>2, <2>1, LeaveType DEF ProvisionReturns, TypeOK, Track, Statuses, threadVars
  <2>3. ProvisionOK'
        BY <1>2, <2>1, LeaveType DEF ProvisionReturns, TypeOK, ProvisionOK, threadVars
  <2>4. CondemnedOK' /\ NothingLeaks'
        BY <1>2, <2>1, LeaveType
        DEF ProvisionReturns, TypeOK, CondemnedOK, NothingLeaks, threadVars
  <2>.  QED  BY <2>2, <2>3, <2>4
<1>3. CASE ProvisionFails(c)
  <2>1. box[c] \in Ids
        BY <1>3, BoxOfCall DEF ProvisionFails
  <2>2. TypeOK'
        BY <1>3, <2>1, LeaveType, SandboxAssumption
        DEF ProvisionFails, Fault, TypeOK, threadVars
  <2>3. ProvisionOK' /\ CondemnedOK' /\ NothingLeaks'
        BY <1>3, <2>1, LeaveType
        DEF ProvisionFails, Fault, TypeOK, ProvisionOK, CondemnedOK, NothingLeaks, threadVars
  <2>.  QED  BY <2>2, <2>3
<1>.  QED  BY <1>1, <1>2, <1>3

\* execute: the status, a call, perhaps a kill.
LEMMA ExecuteSteps ==
    ASSUME InductiveInvariant, NEW c \in Callers, NEW id \in Ids,
           Execute(c, id) \/ ExecuteUntracked(c, id) \/ ToolReturns(c)
             \/ ToolTimesOut(c) \/ KillReturns(c)
    PROVE  InductiveInvariant'
<1>.  USE DEF InductiveInvariant
<1>s. ASSUME NEW next \in {"idle", "error"}, pc[c] # "idle", Settle(c, next)
      PROVE  status' \in [Ids -> Statuses \cup {None}]
      BY <1>s DEF Settle, Track, TypeOK, Statuses
<1>1. CASE Execute(c, id)
  <2>1. TypeOK'
        BY <1>1, EnterType DEF Execute, Track, Statuses, TypeOK, threadVars, histVars
  <2>2. \A d \in Callers : /\ pc'[d] = "provision" <=> pc[d] = "provision"
                           /\ pc[d] = "provision" => box'[d] = box[d]
        BY <1>1 DEF Execute, Enter, TypeOK
  <2>3. ProvisionOK' /\ CondemnedOK'
        BY <1>1, <2>2 DEF Execute, ProvisionOK, CondemnedOK, histVars
  <2>4. NothingLeaks'
        BY <1>1, <2>2 DEF Execute, NothingLeaks, threadVars, histVars
  <2>.  QED  BY <2>1, <2>3, <2>4
<1>2. CASE ExecuteUntracked(c, id)
      BY <1>2 DEF ExecuteUntracked, Track, Statuses, TypeOK, ProvisionOK, CondemnedOK,
                  NothingLeaks, threadVars, callVars, histVars
<1>3. CASE ToolReturns(c)
  <2>1. TypeOK'
        BY <1>3, <1>s, LeaveType DEF ToolReturns, Settle, TypeOK, threadVars, histVars
  <2>2. ProvisionOK' /\ CondemnedOK' /\ NothingLeaks'
        BY <1>3, LeaveType
        DEF ToolReturns, Settle, TypeOK, ProvisionOK, CondemnedOK, NothingLeaks, threadVars, histVars
  <2>.  QED  BY <2>1, <2>2
<1>4. CASE ToolTimesOut(c)
  <2>1. box[c] \in Ids
        BY <1>4, BoxOfCall DEF ToolTimesOut
  <2>2. TypeOK'
        BY <1>4, <2>1 DEF ToolTimesOut, TypeOK, histVars
  <2>3. ProvisionOK' /\ CondemnedOK' /\ NothingLeaks'
        BY <1>4 DEF ToolTimesOut, TypeOK, ProvisionOK, CondemnedOK, NothingLeaks, histVars
  <2>.  QED  BY <2>2, <2>3
<1>5. CASE KillReturns(c)
  <2>1. TypeOK'
        BY <1>5, <1>s, LeaveType DEF KillReturns, Settle, TypeOK, threadVars, histVars
  <2>2. ProvisionOK' /\ CondemnedOK' /\ NothingLeaks'
        BY <1>5, LeaveType
        DEF KillReturns, Settle, TypeOK, ProvisionOK, CondemnedOK, NothingLeaks, threadVars, histVars
  <2>.  QED  BY <2>1, <2>2
<1>.  QED  BY <1>1, <1>2, <1>3, <1>4, <1>5

\* destroy: out of the dictionary, into a thread that stops the container.
LEMMA DestroySteps ==
    ASSUME InductiveInvariant, NEW c \in Callers, NEW id \in Ids,
           Destroy(c, id) \/ DestroyAgain(c, id) \/ DestroyReturns(c)
    PROVE  InductiveInvariant'
<1>.  USE DEF InductiveInvariant
<1>1. CASE Destroy(c, id)
  <2>1. TypeOK'
        BY <1>1, EnterType DEF Destroy, TypeOK
  <2>2. \A d \in Callers : /\ pc'[d] = "provision" <=> pc[d] = "provision"
                           /\ pc[d] = "provision" => box'[d] = box[d]
        BY <1>1 DEF Destroy, Enter, TypeOK
  <2>3. ProvisionOK' /\ CondemnedOK'
        BY <1>1, <2>2 DEF Destroy, ProvisionOK, CondemnedOK
  <2>4. NothingLeaks'
        BY <1>1, <2>2 DEF Destroy, NothingLeaks
  <2>.  QED  BY <2>1, <2>3, <2>4
<1>2. CASE DestroyAgain(c, id)
      BY <1>2 DEF DestroyAgain, Statuses, TypeOK, ProvisionOK, CondemnedOK, NothingLeaks,
                  threadVars, callVars
<1>3. CASE DestroyReturns(c)
  <2>1. TypeOK'
        BY <1>3, LeaveType DEF DestroyReturns, Track, Statuses, TypeOK, threadVars, histVars
  <2>2. ProvisionOK' /\ CondemnedOK' /\ NothingLeaks'
        BY <1>3, LeaveType
        DEF DestroyReturns, TypeOK, ProvisionOK, CondemnedOK, NothingLeaks, threadVars, histVars
  <2>.  QED  BY <2>1, <2>2
<1>.  QED  BY <1>1, <1>2, <1>3

\* status, and a call that is cancelled.
LEMMA OtherSteps ==
    ASSUME InductiveInvariant, NEW c \in Callers, NEW id \in Ids,
           StatusUntracked(c, id) \/ StatusCall(c, id) \/ Reload(c) \/ StatusReturns(c)
             \/ Cancel(c)
    PROVE  InductiveInvariant'
<1>.  USE DEF InductiveInvariant
<1>1. CASE StatusUntracked(c, id)
      BY <1>1 DEF StatusUntracked, Track, Statuses, TypeOK, ProvisionOK, CondemnedOK,
                  NothingLeaks, threadVars, callVars, histVars
<1>2. CASE StatusCall(c, id)
  <2>1. TypeOK'
        BY <1>2, EnterType DEF StatusCall, TypeOK, threadVars, histVars
  <2>2. \A d \in Callers : /\ pc'[d] = "provision" <=> pc[d] = "provision"
                           /\ pc[d] = "provision" => box'[d] = box[d]
        BY <1>2 DEF StatusCall, Enter, TypeOK
  <2>3. ProvisionOK' /\ CondemnedOK'
        BY <1>2, <2>2 DEF StatusCall, ProvisionOK, CondemnedOK, histVars
  <2>4. NothingLeaks'
        BY <1>2, <2>2 DEF StatusCall, NothingLeaks, threadVars, histVars
  <2>.  QED  BY <2>1, <2>3, <2>4
<1>3. CASE Reload(c)
  <2>1. box[c] \in Ids
        BY <1>3, BoxOfCall DEF Reload
  <2>2. TypeOK'
        BY <1>3, <2>1 DEF Reload, TypeOK, threadVars, histVars
  <2>3. ProvisionOK' /\ CondemnedOK' /\ NothingLeaks'
        BY <1>3 DEF Reload, TypeOK, ProvisionOK, CondemnedOK, NothingLeaks, threadVars, histVars
  <2>.  QED  BY <2>2, <2>3
<1>4. CASE StatusReturns(c)
  <2>1. TypeOK'
        BY <1>4, LeaveType
        DEF StatusReturns, Track, Failed, Statuses, TypeOK, threadVars, histVars
  <2>2. ProvisionOK' /\ CondemnedOK' /\ NothingLeaks'
        BY <1>4, LeaveType
        DEF StatusReturns, TypeOK, ProvisionOK, CondemnedOK, NothingLeaks, threadVars, histVars
  <2>.  QED  BY <2>1, <2>2
<1>5. CASE Cancel(c)
      BY <1>5, LeaveType, SandboxAssumption
      DEF Cancel, Fault, TypeOK, ProvisionOK, CondemnedOK, NothingLeaks, threadVars
<1>.  QED  BY <1>1, <1>2, <1>3, <1>4, <1>5

\* The worker threads, and the containers by themselves.
LEMMA WorldSteps ==
    ASSUME InductiveInvariant, NEW id \in Ids,
           \/ ContainerStarts(id) \/ KillRuns(id) \/ StopRuns(id) \/ ThreadFails(id)
           \/ ContainerChanges(id)
    PROVE  InductiveInvariant'
<1>.  USE DEF InductiveInvariant
<1>1. CASE ContainerStarts(id)
      BY <1>1 DEF ContainerStarts, TypeOK, ProvisionOK, CondemnedOK, NothingLeaks,
                  threadVars, callVars, histVars
<1>2. CASE KillRuns(id)
      BY <1>2 DEF KillRuns, TypeOK, ProvisionOK, CondemnedOK, NothingLeaks, callVars, histVars
<1>3. CASE StopRuns(id)
      BY <1>3 DEF StopRuns, TypeOK, ProvisionOK, CondemnedOK, NothingLeaks, callVars, histVars
<1>4. CASE ThreadFails(id)
      BY <1>4, SandboxAssumption
      DEF ThreadFails, Fault, TypeOK, ProvisionOK, CondemnedOK, NothingLeaks, callVars
<1>5. CASE ContainerChanges(id)
      BY <1>5 DEF ContainerChanges, TypeOK, ProvisionOK, CondemnedOK, NothingLeaks,
                  threadVars, callVars, histVars
<1>.  QED  BY <1>1, <1>2, <1>3, <1>4, <1>5

\* Every step preserves the invariant.
LEMMA InductiveStep == InductiveInvariant /\ [Next]_vars => InductiveInvariant'
<1>.  SUFFICES ASSUME InductiveInvariant, [Next]_vars PROVE InductiveInvariant'
      OBVIOUS
<1>1. CASE UNCHANGED vars
      BY <1>1 DEF vars, threadVars, callVars, histVars, InductiveInvariant, TypeOK,
                  ProvisionOK, CondemnedOK, NothingLeaks
<1>2. CASE \E c \in Callers, id \in Ids :
              \/ ProvisionCall(c, id)
              \/ Execute(c, id) \/ ExecuteUntracked(c, id)
              \/ Destroy(c, id) \/ DestroyAgain(c, id)
              \/ StatusCall(c, id) \/ StatusUntracked(c, id)
      BY <1>2, ProvisionSteps, ExecuteSteps, DestroySteps, OtherSteps
<1>3. CASE \E c \in Callers :
              \/ ProvisionReturns(c) \/ ProvisionFails(c)
              \/ ToolReturns(c) \/ ToolTimesOut(c) \/ KillReturns(c)
              \/ DestroyReturns(c) \/ Reload(c) \/ StatusReturns(c) \/ Cancel(c)
  <2>1. PICK c \in Callers :
              \/ ProvisionReturns(c) \/ ProvisionFails(c)
              \/ ToolReturns(c) \/ ToolTimesOut(c) \/ KillReturns(c)
              \/ DestroyReturns(c) \/ Reload(c) \/ StatusReturns(c) \/ Cancel(c)
        BY <1>3
  <2>2. box[c] \in Ids
        BY <2>1, BoxOfCall
        DEF InductiveInvariant, ProvisionReturns, ProvisionFails, ToolReturns, ToolTimesOut,
            KillReturns, DestroyReturns, Reload, StatusReturns, Cancel
  <2>.  QED  BY <2>1, <2>2, ProvisionSteps, ExecuteSteps, DestroySteps, OtherSteps
<1>4. CASE \E id \in Ids : \/ ContainerStarts(id) \/ KillRuns(id)
                          \/ StopRuns(id) \/ ThreadFails(id) \/ ContainerChanges(id)
      BY <1>4, WorldSteps
<1>5. CASE Crash
      BY <1>5, SandboxAssumption
      DEF Crash, Fault, InductiveInvariant, TypeOK, ProvisionOK, CondemnedOK, NothingLeaks
<1>.  QED  BY <1>1, <1>2, <1>3, <1>4, <1>5 DEF Next

\* Under any callers, time-outs, failures and restarts the invariant holds.
THEOREM InductiveInvariantHolds == Spec => []InductiveInvariant
  BY InitInductive, InductiveStep, PTL DEF Spec

-----------------------------------------------------------------------------
(* The theorems *)

\* The tracker, the dictionary and every call's fields keep their types.
THEOREM TypeCorrect == Spec => []TypeOK
  BY InductiveInvariantHolds, PTL DEF InductiveInvariant

\* Whatever fails, is cancelled or dies, a container that runs is one that
\* destroy can still reach or is taking down, but for those a provision cut
\* short, a failed stop or the death of the process has put out of reach.
THEOREM NoLeaks == Spec => []NothingLeaks
  BY InductiveInvariantHolds, PTL DEF InductiveInvariant

\* execute takes the container out of the dictionary that destroy pops first.
LEMMA ToolStep ==
    ASSUME InductiveInvariant, [Next]_vars, NEW c \in Callers,
           pc[c] # "tool", pc'[c] = "tool"
    PROVE  box'[c] \notin condemned
<1>1. PICK id \in Ids : Execute(c, id)
      BY DEF InductiveInvariant, TypeOK, Next, vars, callVars, threadVars, histVars,
             ProvisionCall, ContainerStarts, ProvisionReturns, ProvisionFails, Execute,
             ExecuteUntracked, Settle, ToolReturns, ToolTimesOut, KillRuns, KillReturns,
             Destroy, DestroyAgain, StopRuns, DestroyReturns, StatusUntracked, StatusCall,
             Reload, StatusReturns, ContainerChanges, ThreadFails, Cancel, Crash, Enter, Leave
<1>.  QED  BY <1>1 DEF Execute, Enter, InductiveInvariant, TypeOK, CondemnedOK

\* No tool starts in a container that a destroy has begun to take down, however
\* destroy and execute interleave.
THEOREM ToolsKeepOut == Spec => NoToolAfterDestroy
<1>1. InductiveInvariant /\ [Next]_vars =>
        [\A c \in Callers :
            pc[c] # "tool" /\ pc'[c] = "tool" => box'[c] \notin condemned]_vars
      BY ToolStep
<1>.  QED  BY <1>1, InductiveInvariantHolds, PTL DEF Spec, NoToolAfterDestroy

\* A failed sandbox may only fail.
LEMMA NoWayBack ==
    ASSUME NEW s \in Failed, NEW next, Allowed(s, next)
    PROVE  next \in Failed
<1>1. s \in Statuses /\ ALLOWED_TRANSITIONS[s] \subseteq {"destroyed"}
      BY DEF Failed, Statuses, ALLOWED_TRANSITIONS
<1>.  QED  BY <1>1 DEF Allowed, Failed

\* assert_transition lets nothing out of ERROR and DESTROYED but into DESTROYED,
\* status writes those two only, and provision returns ids that are new.
LEMMA DeadStep ==
    ASSUME InductiveInvariant, [Next]_vars, NEW id \in returned, ~ Usable(id)
    PROVE  ~ Usable(id)'
<1>.  USE DEF InductiveInvariant, Usable
<1>1. TypeOK /\ id \in Ids /\ (id \notin containers \/ status[id] \in Failed)
      BY DEF TypeOK
<1>s. ASSUME NEW c \in Callers, NEW next \in {"idle", "error"}, pc[c] # "idle",
             Settle(c, next), UNCHANGED containers
      PROVE  ~ Usable(id)'
  <2>1. box[c] \in Ids
        BY <1>s, BoxOfCall
  <2>2. CASE id \notin containers
        BY <2>2, <1>s
  <2>3. CASE status[id] \in Failed /\ status'[id] = status[id]
        BY <2>3
  <2>4. CASE status[id] \in Failed /\ status'[id] # status[id]
    <3>1. box[c] = id /\ Allowed(status[id], next) /\ status'[id] = next
          BY <2>1, <2>4, <1>1, <1>s, SandboxAssumption
          DEF Settle, Track, TypeOK, Current, Failed, Statuses
    <3>.  QED  BY <3>1, <2>4, NoWayBack
  <2>.  QED  BY <2>2, <2>3, <2>4, <1>1
<1>2. CASE UNCHANGED vars
      BY <1>2, <1>1 DEF vars
<1>3. ASSUME NEW c \in Callers, NEW k \in Ids,
             \/ ProvisionCall(c, k) \/ Execute(c, k) \/ ExecuteUntracked(c, k)
             \/ Destroy(c, k) \/ DestroyAgain(c, k)
             \/ StatusCall(c, k) \/ StatusUntracked(c, k)
      PROVE  ~ Usable(id)'
  <2>1. CASE Execute(c, k)
    <3>1. status[k] \notin Failed
          BY <2>1, NoWayBack, SandboxAssumption DEF Execute, Current, Failed, Statuses
    <3>2. k # id
          BY <2>1, <3>1, <1>1 DEF Execute
    <3>.  QED  BY <2>1, <3>2, <1>1 DEF Execute, Track, TypeOK
  <2>2. CASE ProvisionCall(c, k) \/ StatusCall(c, k) \/ Destroy(c, k)
        BY <2>2, <1>1 DEF ProvisionCall, StatusCall, Destroy
  <2>3. CASE ExecuteUntracked(c, k) \/ DestroyAgain(c, k) \/ StatusUntracked(c, k)
        BY <2>3, <1>1 DEF ExecuteUntracked, DestroyAgain, StatusUntracked, Track, TypeOK, Failed
  <2>.  QED  BY <1>3, <2>1, <2>2, <2>3
<1>4. ASSUME NEW c \in Callers,
             \/ ProvisionReturns(c) \/ ProvisionFails(c)
             \/ ToolReturns(c) \/ ToolTimesOut(c) \/ KillReturns(c)
             \/ DestroyReturns(c) \/ Reload(c) \/ StatusReturns(c) \/ Cancel(c)
      PROVE  ~ Usable(id)'
  <2>1. CASE ProvisionReturns(c)
    <3>1. box[c] # id
          BY <2>1 DEF ProvisionReturns, ProvisionOK
    <3>.  QED  BY <2>1, <3>1, <1>1 DEF ProvisionReturns, Track, TypeOK
  <2>2. CASE ToolReturns(c) \/ KillReturns(c)
        BY <2>2, <1>s DEF ToolReturns, KillReturns
  <2>3. CASE ProvisionFails(c) \/ ToolTimesOut(c) \/ Reload(c) \/ Cancel(c)
        BY <2>3, <1>1 DEF ProvisionFails, ToolTimesOut, Reload, Cancel
  <2>4. CASE DestroyReturns(c)
        BY <2>4, <1>1 DEF DestroyReturns, Track, TypeOK, Failed
  <2>5. CASE StatusReturns(c)
        BY <2>5, <1>1 DEF StatusReturns, Track, TypeOK
  <2>.  QED  BY <1>4, <2>1, <2>2, <2>3, <2>4, <2>5
<1>5. ASSUME NEW k \in Ids,
             \/ ContainerStarts(k) \/ KillRuns(k) \/ StopRuns(k) \/ ThreadFails(k)
             \/ ContainerChanges(k)
      PROVE  ~ Usable(id)'
      BY <1>5, <1>1 DEF ContainerStarts, KillRuns, StopRuns, ThreadFails, ContainerChanges
<1>6. CASE Crash
      BY <1>6 DEF Crash
<1>.  QED  BY <1>2, <1>3, <1>4, <1>5, <1>6 DEF Next

\* A sandbox that errored, was destroyed or was reported gone never comes back
\* into use, whatever answers of other callers are still on their way.
THEOREM TheDeadStayDead == Spec => DeadStaysDead
<1>1. InductiveInvariant /\ [Next]_vars =>
        [\A id \in returned : ~ Usable(id) => ~ Usable(id)']_vars
      BY DeadStep
<1>.  QED  BY <1>1, InductiveInvariantHolds, PTL DEF Spec, DeadStaysDead
=============================================================================
