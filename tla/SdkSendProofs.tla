---------------------------- MODULE SdkSendProofs ---------------------------
(***************************************************************************)
(* Proofs about SdkSend, for any number of sends on one session, any page  *)
(* and any number of events, and about SdkSync, for any number of threads  *)
(* that call it and run other coroutines on the loop.                      *)
(***************************************************************************)
EXTENDS SdkSync, SequenceTheorems, TLAPS

\* What a send has read is in the log.
PageOK == \A s \in Sends : last_sequence[s] + page[s] <= length

\* The pointer has moved by what was yielded, and not before the stream began.
PointerOK ==
    \A s \in Sends : /\ last_sequence[s] = base[s] + Len(got[s])
                     /\ pc[s] = "idle" => got[s] = <<>> /\ page[s] = 0

\* What a send awaits says how far its task can be.
TaskOK ==
    \A s \in Sends :
        /\ pc[s] \in {"idle", "emit"} => task[s] = "none" /\ outcome[s] = "none"
        /\ pc[s] \in {"poll", "yield", "wait"} => task[s] \in {"running", "cancelling"} \cup Done
        /\ pc[s] = "cancel" => task[s] \in {"cancelling"} \cup Done
        /\ pc[s] = "drain" => task[s] \in Done

InductiveInvariant ==
    TypeOK /\ PageOK /\ PointerOK /\ TaskOK /\ StreamInOrder /\ NoRunOutlivesSend

HarnessStep(s) == \/ HarnessEmits(s) \/ HarnessReturns(s) \/ HarnessRaises(s)
                  \/ HarnessCut(s) \/ HarnessCancelled(s)

\* get_events returns at most a page, of events that there are.
LEMMA FetchedBounds ==
    ASSUME TypeOK, NEW after \in 0..length
    PROVE  /\ Fetched(after) \in 0..PageLimit
           /\ after + Fetched(after) <= length
  BY SendAssumption DEF TypeOK, Fetched

-----------------------------------------------------------------------------
(* The parts of the invariant, action by action *)

\* The pointer is read, before anything else.
LEMMA CallStep ==
    ASSUME InductiveInvariant, NEW s \in Sends, Call(s)
    PROVE  InductiveInvariant'
<1>.  USE DEF InductiveInvariant
<1>1. Fetched(0) \in 0..PageLimit /\ Fetched(0) \in 0..length
      BY FetchedBounds, SendAssumption DEF TypeOK
<1>2. got[s] = <<>> /\ page[s] = 0 /\ Len(<<>>) = 0
      BY DEF Call, PointerOK
<1>3. TypeOK'
      BY <1>1 DEF Call, Goto, TypeOK, session
<1>4. PageOK'
      BY <1>1, <1>2 DEF Call, Goto, TypeOK, PageOK, session
<1>5. PointerOK'
      BY <1>1, <1>2 DEF Call, Goto, TypeOK, PointerOK, session
<1>6. TaskOK' /\ NoRunOutlivesSend'
      BY DEF Call, Goto, TypeOK, TaskOK, NoRunOutlivesSend, session
<1>7. StreamInOrder'
      BY <1>2 DEF Call, Goto, TypeOK, StreamInOrder, session
<1>.  QED  BY <1>3, <1>4, <1>5, <1>6, <1>7

\* The run emits, returns, raises or is cancelled: the log grows at its end only.
LEMMA HarnessKeeps ==
    ASSUME InductiveInvariant, NEW s \in Sends, HarnessStep(s)
    PROVE  InductiveInvariant'
<1>.  USE DEF InductiveInvariant, HarnessStep
<1>1. /\ UNCHANGED <<pc, last_sequence, page, got, base, outcome>>
      /\ length' \in {length, length + 1}
      /\ closed' \in BOOLEAN
      BY DEF HarnessEmits, HarnessReturns, HarnessRaises, HarnessCut, HarnessCancelled,
             TaskEnds, session, history, TypeOK
<1>2. \/ UNCHANGED <<task, ran_to>>
      \/ /\ task[s] = "running" /\ task' = [task EXCEPT ![s] = "cancelling"]
         /\ UNCHANGED ran_to
      \/ /\ task[s] \in {"running", "cancelling"}
         /\ \E how \in Done : task' = [task EXCEPT ![s] = how]
         /\ ran_to' = [ran_to EXCEPT ![s] = length]
         /\ UNCHANGED length
      BY DEF HarnessEmits, HarnessReturns, HarnessRaises, HarnessCut, HarnessCancelled,
             TaskEnds, history, Done
<1>3. TypeOK'
  <2>1. length' \in Nat /\ \A i \in 0..length : i \in 0..length'
        BY <1>1 DEF TypeOK
  <2>2. /\ last_sequence' \in [Sends -> 0..length'] /\ base' \in [Sends -> 0..length']
        /\ ran_to' \in [Sends -> 0..length']
    <3>1. last_sequence' \in [Sends -> 0..length'] /\ base' \in [Sends -> 0..length']
          BY <1>1, <2>1 DEF TypeOK
    <3>2. length \in 0..length'
          BY <1>1 DEF TypeOK
    <3>3. ran_to' \in [Sends -> 0..length']
          BY <1>2, <2>1, <3>2 DEF TypeOK
    <3>.  QED  BY <3>1, <3>3
  <2>3. task' \in [Sends -> {"none", "running", "cancelling"} \cup Done]
        BY <1>2 DEF TypeOK
  <2>.  QED  BY <1>1, <2>1, <2>2, <2>3 DEF TypeOK
<1>4. PageOK' /\ PointerOK' /\ StreamInOrder'
      BY <1>1 DEF PageOK, PointerOK, StreamInOrder, TypeOK
<1>5. TaskOK' /\ NoRunOutlivesSend'
      BY <1>1, <1>2 DEF TaskOK, NoRunOutlivesSend, TypeOK, Done
<1>.  QED  BY <1>3, <1>4, <1>5

\* The consumer takes the event after the pointer.
LEMMA YieldStep ==
    ASSUME InductiveInvariant, NEW s \in Sends, Yield(s)
    PROVE  InductiveInvariant'
<1>.  USE DEF InductiveInvariant
<1>1. /\ got[s] \in Seq(Nat) /\ last_sequence[s] \in Nat /\ page[s] \in Nat
      /\ length \in Nat /\ base[s] \in Nat /\ page[s] > 0
      BY DEF TypeOK, Yield
<1>2. /\ Append(got[s], last_sequence[s] + 1) \in Seq(Nat)
      /\ Len(Append(got[s], last_sequence[s] + 1)) = Len(got[s]) + 1
      BY <1>1
<1>3. last_sequence[s] + 1 \in 0..length
      BY <1>1 DEF PageOK
<1>4. TypeOK'
      BY <1>1, <1>2, <1>3, SendAssumption DEF Yield, TypeOK, session, history
<1>5. PageOK'
      BY <1>1 DEF Yield, TypeOK, PageOK, session, history
<1>6. PointerOK'
      BY <1>1, <1>2 DEF Yield, TypeOK, PointerOK, session, history
<1>7. TaskOK' /\ NoRunOutlivesSend'
      BY DEF Yield, TypeOK, TaskOK, NoRunOutlivesSend, session, history
<1>8. StreamInOrder'
  <2>.  SUFFICES ASSUME NEW u \in Sends, NEW i \in 1..Len(got'[u])
                 PROVE  got'[u][i] = base'[u] + i
        BY DEF StreamInOrder
  <2>1. CASE u # s
    <3>1. got'[u] = got[u] /\ base' = base
          BY <2>1 DEF Yield, TypeOK, history
    <3>2. i \in 1..Len(got[u])
          BY <3>1
    <3>3. got[u][i] = base[u] + i
          BY <3>2 DEF StreamInOrder
    <3>.  QED  BY <3>1, <3>3
  <2>2. CASE u = s
    <3>1. /\ got'[s] = Append(got[s], last_sequence[s] + 1) /\ base' = base
          /\ last_sequence[s] = base[s] + Len(got[s])
          BY DEF Yield, TypeOK, PointerOK, history
    <3>2. CASE i = Len(got[s]) + 1
      <4>1. got'[s][Len(got[s]) + 1] = last_sequence[s] + 1
            BY <1>1, <3>1
      <4>2. Len(got[s]) \in Nat
            BY <1>1
      <4>.  QED  BY <1>1, <2>2, <3>1, <3>2, <4>1, <4>2
    <3>3. CASE i # Len(got[s]) + 1
      <4>1. i \in 1..Len(got[s]) /\ got'[s][i] = got[s][i]
            BY <1>1, <1>2, <2>2, <3>1, <3>3
      <4>.  QED  BY <2>2, <3>1, <4>1 DEF StreamInOrder
    <3>.  QED  BY <3>2, <3>3
  <2>.  QED  BY <2>1, <2>2
<1>.  QED  BY <1>4, <1>5, <1>6, <1>7, <1>8

\* The user's message is written, or refused, or the send breaks off before its run.
LEMMA EmitStep ==
    ASSUME InductiveInvariant, NEW s \in Sends,
           EmitUser(s) \/ EmitRejected(s) \/ EmitFails(s) \/ CallFails(s)
    PROVE  InductiveInvariant'
<1>.  USE DEF InductiveInvariant
<1>1. /\ UNCHANGED <<closed, last_sequence, page, got, base, ran_to>>
      /\ length' \in {length, length + 1}
      /\ pc[s] \in {"idle", "emit"}
      /\ \/ /\ task' = [task EXCEPT ![s] = "running"] /\ UNCHANGED outcome
            /\ pc' = [pc EXCEPT ![s] = "poll"]
         \/ /\ \E o \in {"rejected", "cancelled", "raised"} : outcome' = [outcome EXCEPT ![s] = o]
            /\ UNCHANGED task
            /\ pc' = [pc EXCEPT ![s] = "ended"]
      BY DEF EmitUser, EmitRejected, EmitFails, CallFails, Goto, session, history
<1>2. TypeOK'
  <2>1. length' \in Nat /\ \A i \in 0..length : i \in 0..length'
        BY <1>1 DEF TypeOK
  <2>2. /\ last_sequence' \in [Sends -> 0..length'] /\ base' \in [Sends -> 0..length']
        /\ ran_to' \in [Sends -> 0..length']
        BY <1>1, <2>1 DEF TypeOK
  <2>.  QED  BY <1>1, <2>1, <2>2 DEF TypeOK
<1>3. PageOK' /\ PointerOK' /\ StreamInOrder'
  <2>1. PageOK'
        BY <1>1 DEF TypeOK, PageOK
  <2>2. PointerOK' /\ StreamInOrder'
        BY <1>1 DEF TypeOK, PointerOK, StreamInOrder
  <2>.  QED  BY <2>1, <2>2
<1>4. TaskOK' /\ NoRunOutlivesSend'
      BY <1>1 DEF TypeOK, TaskOK, NoRunOutlivesSend
<1>.  QED  BY <1>2, <1>3, <1>4

\* A read between polls, or the end of the wait for the next one.
LEMMA PollStep ==
    ASSUME InductiveInvariant, NEW s \in Sends, Poll(s) \/ PageDone(s) \/ WaitEnds(s)
    PROVE  InductiveInvariant'
<1>.  USE DEF InductiveInvariant
<1>1. /\ UNCHANGED <<session, last_sequence, task, got, history>>
      /\ pc[s] \in {"poll", "yield", "wait"}
      /\ \E step \in {"poll", "yield", "wait", "drain"} :
             /\ pc' = [pc EXCEPT ![s] = step]
             /\ step = "drain" => task[s] \in Done
      /\ page' = page \/ page' = [page EXCEPT ![s] = Fetched(last_sequence[s])]
      BY DEF Poll, PageDone, WaitEnds, Fetch, Goto
<1>2. /\ Fetched(last_sequence[s]) \in 0..PageLimit
      /\ last_sequence[s] + Fetched(last_sequence[s]) <= length
      BY FetchedBounds DEF TypeOK
<1>3. TypeOK'
      BY <1>1, <1>2 DEF TypeOK, session, history
<1>4. PageOK'
      BY <1>1, <1>2 DEF TypeOK, PageOK, session
<1>5. PointerOK' /\ StreamInOrder'
      BY <1>1 DEF TypeOK, PointerOK, StreamInOrder, history
<1>6. TaskOK' /\ NoRunOutlivesSend'
      BY <1>1 DEF TypeOK, TaskOK, NoRunOutlivesSend, history
<1>.  QED  BY <1>3, <1>4, <1>5, <1>6

\* A send that ends leaves no run behind: its task is done, or it awaits it.
LEMMA EndStep ==
    ASSUME InductiveInvariant, NEW s \in Sends,
           Drained(s) \/ WaitRaises(s) \/ Cancelled(s) \/ Interrupt(s)
    PROVE  InductiveInvariant'
<1>.  USE DEF InductiveInvariant
<1>1. CASE /\ pc[s] \in {"poll", "yield", "drain", "wait"} /\ task[s] \notin Done
           /\ task' = [task EXCEPT ![s] = "cancelling"]
           /\ pc' = [pc EXCEPT ![s] = "cancel"]
           /\ UNCHANGED <<session, last_sequence, page, got, history>>
  <2>1. TypeOK' /\ PageOK' /\ PointerOK' /\ StreamInOrder'
        BY <1>1 DEF TypeOK, PageOK, PointerOK, StreamInOrder, session, history
  <2>2. TaskOK' /\ NoRunOutlivesSend'
        BY <1>1 DEF TypeOK, TaskOK, NoRunOutlivesSend, Done, history
  <2>.  QED  BY <2>1, <2>2
<1>2. CASE /\ task[s] \in Done
           /\ \E otherwise \in {"returned", "raised", "closed"} : Ends(s, otherwise)
  <2>1. /\ UNCHANGED <<session, last_sequence, task, got, base, ran_to>>
        /\ pc' = [pc EXCEPT ![s] = "ended"] /\ page' = [page EXCEPT ![s] = 0]
        /\ \E o \in {"returned", "raised", "cancelled", "closed"} :
               outcome' = [outcome EXCEPT ![s] = o]
        BY <1>2 DEF Ends, Goto
  <2>2. TypeOK' /\ PageOK' /\ PointerOK' /\ StreamInOrder'
        BY <2>1, SendAssumption DEF TypeOK, PageOK, PointerOK, StreamInOrder, session
  <2>3. TaskOK' /\ NoRunOutlivesSend'
        BY <1>2, <2>1 DEF TypeOK, TaskOK, NoRunOutlivesSend
  <2>.  QED  BY <2>2, <2>3
<1>.  QED  BY <1>1, <1>2 DEF Drained, WaitRaises, Cancelled, Interrupt, TaskOK, Done, Goto

-----------------------------------------------------------------------------
(* The invariant *)

\* No send has begun.
LEMMA InitHolds == Init => InductiveInvariant
<1>.  SUFFICES ASSUME Init PROVE InductiveInvariant
      OBVIOUS
<1>1. \A s \in Sends : got[s] = <<>> /\ Len(got[s]) = 0
      BY DEF Init
<1>2. <<>> \in Seq(Nat)
      OBVIOUS
<1>3. TypeOK
  <2>1. length \in Nat /\ 0 \in 0..length /\ 0 \in 0..PageLimit
        BY SendAssumption DEF Init
  <2>2. got \in [Sends -> Seq(Nat)]
        BY <1>2 DEF Init
  <2>.  QED  BY <2>1, <2>2 DEF Init, TypeOK
<1>4. PageOK /\ PointerOK /\ StreamInOrder
      BY <1>1, SendAssumption DEF Init, PageOK, PointerOK, StreamInOrder
<1>5. TaskOK /\ NoRunOutlivesSend
      BY DEF Init, TaskOK, NoRunOutlivesSend
<1>.  QED  BY <1>3, <1>4, <1>5 DEF InductiveInvariant

\* Every step keeps the invariant.
LEMMA StepKeeps == InductiveInvariant /\ [Next]_vars => InductiveInvariant'
<1>.  SUFFICES ASSUME InductiveInvariant, [Next]_vars PROVE InductiveInvariant'
      OBVIOUS
<1>1. CASE UNCHANGED vars
      BY <1>1 DEF vars, InductiveInvariant, TypeOK, PageOK, PointerOK, TaskOK,
                  StreamInOrder, NoRunOutlivesSend
<1>2. CASE Next
      BY <1>2, CallStep, HarnessKeeps, YieldStep, EmitStep, PollStep, EndStep
      DEF Next, SendStep, Breaks, HarnessStep
<1>.  QED  BY <1>1, <1>2

\* Pointers, pages and tasks keep their types, and no pointer passes the log.
THEOREM TypeCorrect == Spec => []TypeOK
<1>1. InductiveInvariant => TypeOK
      BY DEF InductiveInvariant
<1>.  QED  BY <1>1, InitHolds, StepKeeps, PTL DEF Spec

\* A send yields an unbroken run of the log, in order and each event once, however
\* many sends and runs write to it and at whatever pace its consumer takes it.
THEOREM StreamsInOrder == Spec => []StreamInOrder
<1>1. InductiveInvariant => StreamInOrder
      BY DEF InductiveInvariant
<1>.  QED  BY <1>1, InitHolds, StepKeeps, PTL DEF Spec

\* When a send has ended, returned, raised, closed or cancelled, its run is over.
THEOREM RunsEndFirst == Spec => []NoRunOutlivesSend
<1>1. InductiveInvariant => NoRunOutlivesSend
      BY DEF InductiveInvariant
<1>.  QED  BY <1>1, InitHolds, StepKeeps, PTL DEF Spec

-----------------------------------------------------------------------------
(* What a send that returns has yielded *)

\* The trailing read has all that there was as the run ended, or a whole page.
DrainOK ==
    \A s \in Sends : pc[s] = "drain" /\ ran_to[s] - base[s] <= PageLimit =>
        last_sequence[s] + page[s] >= ran_to[s]

\* Only what has ended has an outcome.
OutcomeOK == \A s \in Sends : outcome[s] # "none" => pc[s] = "ended"

CompleteInvariant == InductiveInvariant /\ DrainOK /\ OutcomeOK /\ ReturnedIsComplete

\* A step that changes nothing of a send that drains or has ended keeps what is
\* said of it.
LEMMA OthersKeep ==
    ASSUME CompleteInvariant, NEW u \in Sends,
           pc'[u] = pc[u], last_sequence'[u] = last_sequence[u], page'[u] = page[u],
           got'[u] = got[u], base'[u] = base[u], outcome'[u] = outcome[u],
           pc[u] \in {"drain", "ended"} => task'[u] = task[u] /\ ran_to'[u] = ran_to[u]
    PROVE  /\ pc'[u] = "drain" /\ ran_to'[u] - base'[u] <= PageLimit =>
                  last_sequence'[u] + page'[u] >= ran_to'[u]
           /\ outcome'[u] # "none" => pc'[u] = "ended"
           /\ outcome'[u] = "returned" =>
                  /\ task'[u] = "returned"
                  /\ ran_to'[u] - base'[u] <= PageLimit => Len(got'[u]) >= ran_to'[u] - base'[u]
  BY DEF CompleteInvariant, DrainOK, OutcomeOK, ReturnedIsComplete

\* The steps of the harness: the run of a send that drains or has ended is over.
LEMMA HarnessCompletes ==
    ASSUME CompleteInvariant, NEW s \in Sends, HarnessStep(s)
    PROVE  DrainOK' /\ OutcomeOK' /\ ReturnedIsComplete'
<1>1. /\ UNCHANGED <<pc, last_sequence, page, got, base, outcome>>
      /\ task[s] \notin Done
      /\ \A u \in Sends : u # s => task'[u] = task[u] /\ ran_to'[u] = ran_to[u]
      /\ UNCHANGED <<task, ran_to>> \/ task[s] \in {"running", "cancelling"}
      BY DEF HarnessStep, HarnessEmits, HarnessReturns, HarnessRaises, HarnessCut,
             HarnessCancelled, TaskEnds, history, Done, CompleteInvariant, InductiveInvariant, TypeOK
<1>2. \A u \in Sends : pc[u] \in {"drain", "ended"} =>
                           task'[u] = task[u] /\ ran_to'[u] = ran_to[u]
      BY <1>1 DEF CompleteInvariant, InductiveInvariant, TaskOK, NoRunOutlivesSend, Done
<1>.  QED  BY <1>1, <1>2, OthersKeep DEF DrainOK, OutcomeOK, ReturnedIsComplete

\* The trailing read, and every other step of a send but its end.
LEMMA ReadCompletes ==
    ASSUME CompleteInvariant, NEW s \in Sends,
           Call(s) \/ EmitUser(s) \/ Poll(s) \/ Yield(s) \/ PageDone(s) \/ WaitEnds(s)
    PROVE  DrainOK' /\ OutcomeOK' /\ ReturnedIsComplete'
<1>.  USE DEF CompleteInvariant, InductiveInvariant
<1>1. /\ UNCHANGED <<outcome, ran_to>>
      /\ pc[s] \in {"idle", "emit", "poll", "yield", "drain", "wait"}
      /\ outcome[s] = "none"
      BY DEF Call, EmitUser, Poll, Yield, PageDone, WaitEnds, history, OutcomeOK
<1>2. ASSUME NEW u \in Sends, u # s
      PROVE  /\ pc'[u] = pc[u] /\ last_sequence'[u] = last_sequence[u]
             /\ page'[u] = page[u] /\ got'[u] = got[u] /\ base'[u] = base[u]
             /\ task'[u] = task[u]
      BY <1>2 DEF Call, EmitUser, Poll, Yield, PageDone, WaitEnds, Fetch, Goto, history,
                  session, TypeOK
<1>3. pc'[s] = "drain" /\ ran_to[s] - base'[s] <= PageLimit =>
          last_sequence'[s] + page'[s] >= ran_to[s]
  <2>1. CASE Yield(s)
    <3>1. /\ pc' = pc /\ base' = base
          /\ last_sequence'[s] = last_sequence[s] + 1 /\ page'[s] = page[s] - 1
          BY <2>1 DEF Yield, TypeOK, session, history
    <3>2. last_sequence[s] \in Nat /\ page[s] \in Nat
          BY SendAssumption DEF TypeOK
    <3>.  QED  BY <3>1, <3>2 DEF DrainOK
  <2>2. CASE PageDone(s)
    <3>1. /\ base' = base /\ last_sequence' = last_sequence
          /\ pc'[s] = "drain" => page'[s] = Fetched(last_sequence[s])
          BY <2>2 DEF PageDone, Fetch, Goto, TypeOK, history
    <3>2. /\ last_sequence[s] \in Nat /\ base[s] \in Nat /\ ran_to[s] \in 0..length
          /\ length \in Nat /\ base[s] <= last_sequence[s]
      <4>1. got[s] \in Seq(Nat) /\ base[s] \in Nat /\ last_sequence[s] \in Nat
            BY DEF TypeOK
      <4>2. Len(got[s]) \in Nat
            BY <4>1
      <4>3. base[s] <= last_sequence[s]
            BY <4>1, <4>2 DEF PointerOK
      <4>.  QED  BY <4>1, <4>3 DEF TypeOK
    <3>.  QED  BY <3>1, <3>2, SendAssumption DEF Fetched
  <2>3. CASE Call(s) \/ EmitUser(s) \/ Poll(s) \/ WaitEnds(s)
    <3>1. pc'[s] # "drain"
          BY <2>3 DEF Call, EmitUser, Poll, WaitEnds, Fetch, Goto, TypeOK
    <3>.  QED  BY <3>1
  <2>.  QED  BY <2>1, <2>2, <2>3
<1>4. DrainOK'
  <2>.  SUFFICES ASSUME NEW u \in Sends, pc'[u] = "drain", ran_to[u] - base'[u] <= PageLimit
                 PROVE  last_sequence'[u] + page'[u] >= ran_to[u]
        BY <1>1 DEF DrainOK
  <2>1. CASE u = s
        BY <1>3, <2>1
  <2>2. CASE u # s
        BY <1>2, <2>2 DEF DrainOK
  <2>.  QED  BY <2>1, <2>2
<1>5. OutcomeOK'
      BY <1>1, <1>2 DEF OutcomeOK
<1>6. ReturnedIsComplete'
      BY <1>1, <1>2 DEF ReturnedIsComplete
<1>.  QED  BY <1>4, <1>5, <1>6

\* A send ends, or begins to cancel its run.
LEMMA EndCompletes ==
    ASSUME CompleteInvariant, NEW s \in Sends,
           \/ CallFails(s) \/ EmitRejected(s) \/ EmitFails(s)
           \/ Drained(s) \/ WaitRaises(s) \/ Cancelled(s) \/ Interrupt(s)
    PROVE  DrainOK' /\ OutcomeOK' /\ ReturnedIsComplete'
<1>.  USE DEF CompleteInvariant, InductiveInvariant
<1>1. /\ UNCHANGED <<last_sequence, got, base, ran_to>>
      /\ \A u \in Sends : u # s => /\ pc'[u] = pc[u] /\ page'[u] = page[u]
                                   /\ task'[u] = task[u] /\ outcome'[u] = outcome[u]
      /\ pc'[s] \in {"ended", "cancel"}
      /\ pc'[s] = "cancel" => outcome'[s] = outcome[s] /\ pc[s] # "ended"
      BY DEF CallFails, EmitRejected, EmitFails, Drained, WaitRaises, Cancelled, Interrupt,
             Ends, Goto, session, history, TypeOK
<1>2. outcome'[s] = "returned" =>
          pc[s] = "drain" /\ page[s] = 0 /\ task[s] \notin {"raised", "timeout", "cancelled"}
                          /\ UNCHANGED task
  <2>1. outcome[s] = "none"
        BY DEF OutcomeOK, CallFails, EmitRejected, EmitFails, Drained, WaitRaises,
               Cancelled, Interrupt
  <2>.  QED  BY <2>1 DEF CallFails, EmitRejected, EmitFails, Drained, WaitRaises, Cancelled,
                         Interrupt, Ends, history, TypeOK
<1>3. DrainOK'
      BY <1>1 DEF DrainOK
<1>4. OutcomeOK'
      BY <1>1 DEF OutcomeOK
<1>5. ReturnedIsComplete'
  <2>.  SUFFICES ASSUME NEW u \in Sends, outcome'[u] = "returned"
                 PROVE  /\ task'[u] = "returned"
                        /\ ran_to[u] - base[u] <= PageLimit =>
                               Len(got[u]) >= ran_to[u] - base[u]
        BY <1>1 DEF ReturnedIsComplete
  <2>1. CASE u # s
        BY <1>1, <2>1 DEF ReturnedIsComplete
  <2>2. CASE u = s
    <3>1. pc[s] = "drain" /\ page[s] = 0 /\ task'[s] = "returned"
          BY <1>2, <2>2 DEF TaskOK, Done
    <3>2. got[s] \in Seq(Nat) /\ base[s] \in Nat /\ ran_to[s] \in Nat
          BY DEF TypeOK
    <3>3. Len(got[s]) \in Nat /\ last_sequence[s] = base[s] + Len(got[s])
          BY <3>2 DEF PointerOK
    <3>4. ran_to[s] - base[s] <= PageLimit => last_sequence[s] >= ran_to[s]
          BY <3>1, <3>2, <3>3 DEF DrainOK
    <3>.  QED  BY <2>2, <3>1, <3>2, <3>3, <3>4
  <2>.  QED  BY <2>1, <2>2
<1>.  QED  BY <1>3, <1>4, <1>5

\* A send that returns had a run that returned, and has yielded what there was as
\* the run ended, if that is no more than a page.
THEOREM ReturnsComplete == Spec => []ReturnedIsComplete
<1>1. Init => CompleteInvariant
      BY InitHolds DEF Init, CompleteInvariant, DrainOK, OutcomeOK, ReturnedIsComplete
<1>2. CompleteInvariant /\ [Next]_vars => CompleteInvariant'
  <2>.  SUFFICES ASSUME CompleteInvariant, [Next]_vars PROVE CompleteInvariant'
        OBVIOUS
  <2>1. InductiveInvariant'
        BY StepKeeps DEF CompleteInvariant
  <2>2. DrainOK' /\ OutcomeOK' /\ ReturnedIsComplete'
    <3>1. CASE UNCHANGED vars
          BY <3>1 DEF vars, CompleteInvariant, DrainOK, OutcomeOK, ReturnedIsComplete
    <3>2. CASE Next
          BY <3>2, HarnessCompletes, ReadCompletes, EndCompletes
          DEF Next, SendStep, Breaks, HarnessStep
    <3>.  QED  BY <3>1, <3>2
  <2>.  QED  BY <2>1, <2>2 DEF CompleteInvariant
<1>3. CompleteInvariant => ReturnedIsComplete
      BY DEF CompleteInvariant
<1>.  QED  BY <1>1, <1>2, <1>3, PTL DEF Spec

-----------------------------------------------------------------------------
(* The synchronous client *)

Calls == Sends \cup Runs
Items == [kind : {"event", "sentinel", "exception"}, n : Nat]

\* The variables of the synchronous client hold values of their kinds.
SyncTyped ==
    /\ loop \in {"running", "cancelling", "closed"} /\ pending \subseteq Calls
    /\ coro \in [Calls -> {"none", "scheduled", "created", "begun", "done", "lost"}]
    /\ user \in [Calls -> {"idle", "waiting", "holding", "dropped", "raised", "returned"}]
    /\ queue \in [Sends -> Seq(Items)] /\ received \in [Sends -> Seq(Nat)]

\* A coroutine is there once its call was made, and how far it is says how far the
\* asynchronous send is that it drives.
CoroOK ==
    /\ \A c \in Calls : user[c] = "idle" => coro[c] = "none"
    /\ \A s \in Sends :
          /\ coro[s] \in {"none", "scheduled", "created", "lost"} => pc[s] = "idle"
          /\ coro[s] = "begun" => pc[s] # "ended"
          /\ coro[s] = "done" => pc[s] = "ended"

\* What the user has is what the send has yielded first.
ReceivedOK ==
    \A s \in Sends : /\ Len(received[s]) <= Len(got[s])
                     /\ \A i \in 1..Len(received[s]) : received[s][i] = got[s][i]

\* What is in a queue: the events that were yielded since, and once the send has ended
\* how it did.
QueueHolds(s, end) ==
    /\ queue[s] = Waiting(s) \o end
    /\ end # <<>> => coro[s] = "done"
    /\ end = <<Sentinel>> => outcome[s] = "returned" \/ user[s] = "raised"

Endings == {<<>>, <<Sentinel>>, <<Exception, Sentinel>>}

QueueOK == \A s \in Sends : \E end \in Endings : QueueHolds(s, end)

\* An iterator that has ended normally has given what there was.
ReturnedOK ==
    \A s \in Sends : user[s] = "returned" =>
        coro[s] = "done" /\ outcome[s] = "returned" /\ received[s] = got[s]

\* The loop closes after what it cancelled.
LoopOK == loop = "closed" => \A c \in pending : coro[c] \in {"done", "lost"}

SyncInvariant == /\ InductiveInvariant /\ SyncTyped /\ CoroOK /\ ReceivedOK /\ QueueOK
                 /\ ReturnedOK /\ LoopOK

\* Whatever threads and loop do is a step of the sends, or none.
LEMMA SyncStepIsSendStep == [SyncNext]_allVars => [Next]_vars
<1>.  SUFFICES ASSUME SyncNext PROVE Next \/ UNCHANGED vars
      BY DEF allVars
<1>1. ASSUME NEW c \in Calls, Submit(c) \/ CreateTask(c) \/ LoseFirstStep(c) \/ EndRun(c)
      PROVE  UNCHANGED vars
      BY <1>1 DEF Submit, CreateTask, LoseFirstStep, EndRun
<1>2. ASSUME NEW s \in Sends, Begin(s) \/ Take(s) \/ NextEvent(s) PROVE UNCHANGED vars
      BY <1>2 DEF Begin, Take, NextEvent
<1>3. Close \/ Joined \/ StopLoop \/ CloseLoop => UNCHANGED vars
      BY DEF Close, Joined, StopLoop, CloseLoop
<1>4. ASSUME NEW s \in Sends, Drive(s) \/ Harness(s) PROVE Next
      BY <1>4 DEF Drive, Harness, Next, SendStep
<1>.  QED  BY <1>1, <1>2, <1>3, <1>4 DEF SyncNext, LoopStep, UserStep, RunStep, Calls

\* The sends under the synchronous client are the sends: what is proved of them holds.
THEOREM SyncKeepsSends == SyncSpec => Spec
<1>1. SyncInit => Init
      BY DEF SyncInit
<1>.  QED  BY <1>1, SyncStepIsSendStep, PTL DEF SyncSpec, Spec, allVars

\* A step of one send leaves the others as they are, and yields one event or none.
LEMMA OwnStep ==
    ASSUME InductiveInvariant, NEW s \in Sends,
           Call(s) \/ SendStep(s) \/ Breaks(s)
    PROVE  /\ pc[s] # "ended" /\ pc'[s] # "idle"
           /\ \A u \in Sends : u # s => /\ pc'[u] = pc[u] /\ got'[u] = got[u]
                                        /\ outcome'[u] = outcome[u]
           /\ \/ got'[s] = got[s]
              \/ pc'[s] # "ended" /\ \E n \in Nat : got'[s] = Append(got[s], n)
<1>.  USE DEF InductiveInvariant
<1>1. CASE Yield(s)
  <2>1. /\ got' = [got EXCEPT ![s] = Append(got[s], last_sequence[s] + 1)]
        /\ UNCHANGED <<pc, outcome>> /\ pc[s] \in {"yield", "drain"}
        BY <1>1 DEF Yield, history
  <2>2. last_sequence[s] + 1 \in Nat
        BY DEF TypeOK
  <2>.  QED  BY <2>1, <2>2 DEF TypeOK
<1>2. CASE EmitUser(s) \/ EmitRejected(s) \/ Poll(s) \/ PageDone(s) \/ WaitEnds(s)
           \/ EmitFails(s) \/ CallFails(s)
      BY <1>2 DEF EmitUser, EmitRejected, Poll, PageDone, WaitEnds, EmitFails, CallFails,
                  Fetch, Goto, history, TypeOK
<1>3. CASE Drained(s) \/ WaitRaises(s) \/ Cancelled(s) \/ Interrupt(s)
      BY <1>3 DEF Drained, WaitRaises, Cancelled, Interrupt, Ends, Goto, history, TypeOK
<1>4. CASE Call(s)
  <2>1. /\ pc[s] = "idle" /\ pc' = [pc EXCEPT ![s] = "emit"] /\ UNCHANGED <<got, outcome>>
        BY <1>4 DEF Call, Goto
  <2>.  QED  BY <2>1 DEF TypeOK
<1>.  QED  BY <1>1, <1>2, <1>3, <1>4 DEF SendStep, Breaks

\* A run of the harness is no step of what was yielded or how a send ended.
LEMMA HarnessLeaves ==
    ASSUME NEW s \in Sends, HarnessStep(s)
    PROVE  UNCHANGED <<pc, got, outcome>>
  BY DEF HarnessStep, HarnessEmits, HarnessReturns, HarnessRaises, HarnessCut,
         HarnessCancelled, TaskEnds, history

\* What is said of a queue depends on a few variables only.
LEMMA SameHolds ==
    ASSUME NEW s \in Sends, NEW end,
           queue'[s] = queue[s], got'[s] = got[s], received'[s] = received[s],
           outcome'[s] = outcome[s], coro[s] = "done" => coro'[s] = "done",
           user[s] = "raised" => user'[s] = "raised",
           QueueHolds(s, end)
    PROVE  QueueHolds(s, end)'
  BY DEF QueueHolds, Waiting, Item, Sentinel

\* A call moves on and its task is not begun by it.
LEMMA CallMoves ==
    ASSUME SyncInvariant, NEW c \in Calls,
           NEW to \in {"none", "scheduled", "created", "lost", "done"},
           NEW now \in {"idle", "waiting", "holding", "dropped", "raised", "returned"},
           coro' = [coro EXCEPT ![c] = to], user' = [user EXCEPT ![c] = now],
           UNCHANGED <<pc, got, outcome, loop, pending, queue, received>>,
           coro[c] \in {"none", "scheduled", "created"},
           now = "idle" => to = "none",
           c \in Sends => to # "done",
           c \in Sends /\ now # user[c] => user[c] # "raised" /\ now # "returned",
           loop = "closed" => to = coro[c]
    PROVE  SyncTyped' /\ CoroOK' /\ ReceivedOK' /\ QueueOK' /\ ReturnedOK' /\ LoopOK'
<1>.  USE DEF SyncInvariant
<1>1. /\ \A d \in Calls : coro'[d] = IF d = c THEN to ELSE coro[d]
      /\ \A d \in Calls : user'[d] = IF d = c THEN now ELSE user[d]
      BY DEF SyncTyped
<1>2. SyncTyped'
      BY DEF SyncTyped
<1>3. CoroOK'
      BY <1>1 DEF CoroOK, Calls
<1>4. ReceivedOK'
      BY DEF ReceivedOK
<1>5. QueueOK'
  <2>.  SUFFICES ASSUME NEW s \in Sends PROVE \E end \in Endings : QueueHolds(s, end)'
        BY DEF QueueOK, Endings, Sentinel, Exception, Item
  <2>1. PICK end \in Endings : QueueHolds(s, end)
        BY DEF QueueOK
  <2>2. s \in Calls
        BY DEF Calls
  <2>3. QueueHolds(s, end)'
        BY <1>1, <2>1, <2>2, SameHolds
  <2>.  QED  BY <2>3
<1>6. ReturnedOK'
      BY <1>1 DEF ReturnedOK, Calls
<1>7. LoopOK'
      BY <1>1 DEF LoopOK, SyncTyped
<1>.  QED  BY <1>2, <1>3, <1>4, <1>5, <1>6, <1>7

\* A call is made, or refused; its task is made, or lost; the coroutine of a run ends.
LEMMA CallSteps ==
    ASSUME SyncInvariant, NEW c \in Calls,
           \/ Submit(c) \/ CreateTask(c)
           \/ c \in Sends /\ LoseFirstStep(c)
           \/ c \in Runs /\ EndRun(c)
    PROVE  SyncTyped' /\ CoroOK' /\ ReceivedOK' /\ QueueOK' /\ ReturnedOK' /\ LoopOK'
<1>.  USE DEF SyncInvariant
<1>0. /\ coro = [coro EXCEPT ![c] = coro[c]] /\ user = [user EXCEPT ![c] = user[c]]
      /\ user[c] \in {"idle", "waiting", "holding", "dropped", "raised", "returned"}
      BY DEF SyncTyped
<1>1. CASE Submit(c)
  <2>1. coro[c] = "none" /\ user[c] = "idle"
        BY <1>1 DEF Submit, CoroOK
  <2>2. CASE client = "closed" \/ loop = "closed"
        BY <1>0, <1>1, <2>1, <2>2, CallMoves DEF Submit, vars
  <2>3. CASE ~ (client = "closed" \/ loop = "closed")
        BY <1>1, <2>1, <2>3, CallMoves DEF Submit, vars
  <2>.  QED  BY <2>2, <2>3
<1>2. CASE CreateTask(c)
  <2>1. user[c] # "idle"
        BY <1>2 DEF CreateTask, CoroOK
  <2>.  QED  BY <1>0, <1>2, <2>1, CallMoves DEF CreateTask, vars
<1>3. CASE c \in Sends /\ LoseFirstStep(c)
  <2>1. user[c] # "idle" /\ loop # "closed"
        BY <1>3 DEF LoseFirstStep, CoroOK, Cut
  <2>.  QED  BY <1>0, <1>3, <2>1, CallMoves DEF LoseFirstStep, vars
<1>4. CASE c \in Runs /\ EndRun(c)
  <2>1. c \notin Sends /\ loop # "closed" /\ coro[c] = "created"
        BY <1>4, SyncAssumption DEF EndRun, Free, Cut
  <2>2. \E now \in {"raised", "returned"} : user' = [user EXCEPT ![c] = now]
        BY <1>4 DEF EndRun
  <2>.  QED  BY <1>4, <2>1, <2>2, CallMoves DEF EndRun, vars
<1>.  QED  BY <1>1, <1>2, <1>3, <1>4

\* The client is closed, the loop cancels what there is, and closes once that is over.
LEMMA CloseSteps ==
    ASSUME SyncInvariant, Close \/ Joined \/ StopLoop \/ CloseLoop
    PROVE  SyncTyped' /\ CoroOK' /\ ReceivedOK' /\ QueueOK' /\ ReturnedOK' /\ LoopOK'
<1>.  USE DEF SyncInvariant
<1>1. UNCHANGED <<pc, got, outcome, coro, queue, user, received>>
      BY DEF Close, Joined, StopLoop, CloseLoop, vars
<1>2. /\ loop' \in {"running", "cancelling", "closed"} /\ pending' \subseteq Calls
      /\ loop' = "closed" => pending' = pending /\
             (loop = "closed" \/ \A c \in pending : coro[c] \in {"done", "lost"})
      BY DEF Close, Joined, StopLoop, CloseLoop, SyncTyped, Calls
<1>3. SyncTyped' /\ CoroOK' /\ ReceivedOK' /\ ReturnedOK' /\ LoopOK'
      BY <1>1, <1>2 DEF SyncTyped, CoroOK, ReceivedOK, ReturnedOK, LoopOK
<1>4. QueueOK'
      BY <1>1 DEF QueueOK, QueueHolds, Waiting, Endings, Sentinel, Exception, Item
<1>.  QED  BY <1>3, <1>4

\* The asynchronous send begins, or its harness goes on.
LEMMA BeginSteps ==
    ASSUME SyncInvariant, NEW s \in Sends, Begin(s) \/ Harness(s)
    PROVE  SyncTyped' /\ CoroOK' /\ ReceivedOK' /\ QueueOK' /\ ReturnedOK' /\ LoopOK'
<1>.  USE DEF SyncInvariant
<1>1. /\ UNCHANGED <<pc, got, outcome, loop, pending, queue, user, received>>
      /\ \/ UNCHANGED coro
         \/ /\ coro[s] = "created" /\ coro' = [coro EXCEPT ![s] = "begun"]
            /\ loop # "closed"
  <2>1. CASE Harness(s)
        BY <2>1, HarnessLeaves DEF Harness, HarnessStep, syncVars
  <2>2. CASE Begin(s)
        BY <2>2 DEF Begin, vars, Free
  <2>.  QED  BY <2>1, <2>2
<1>2. SyncTyped'
      BY <1>1 DEF SyncTyped, Calls
<1>3. CoroOK'
      BY <1>1 DEF CoroOK, Calls, SyncTyped, InductiveInvariant, TypeOK
<1>4. ReceivedOK' /\ LoopOK'
      BY <1>1 DEF ReceivedOK, LoopOK
<1>5. \A u \in Sends : coro[u] = "done" => coro'[u] = "done"
      BY <1>1 DEF SyncTyped, Calls
<1>6. ReturnedOK'
      BY <1>1, <1>5 DEF ReturnedOK
<1>7. QueueOK'
  <2>.  SUFFICES ASSUME NEW u \in Sends PROVE \E end \in Endings : QueueHolds(u, end)'
        BY DEF QueueOK, Endings, Sentinel, Exception, Item
  <2>1. PICK end \in Endings : QueueHolds(u, end)
        BY DEF QueueOK
  <2>2. QueueHolds(u, end)'
        BY <1>1, <1>5, <2>1, SameHolds
  <2>.  QED  BY <2>2
<1>.  QED  BY <1>2, <1>3, <1>4, <1>6, <1>7

-----------------------------------------------------------------------------
(* The queue *)

\* A sequence is a function on its indices.
LEMMA SequenceIsFunction ==
    ASSUME NEW S, NEW q \in Seq(S)
    PROVE  q = [i \in 1..Len(q) |-> q[i]]
  OBVIOUS

\* What is still to be given is a sequence of items, as many as were not received.
LEMMA WaitingIsItems ==
    ASSUME SyncInvariant, NEW s \in Sends
    PROVE  /\ got[s] \in Seq(Nat) /\ received[s] \in Seq(Nat)
           /\ Len(got[s]) - Len(received[s]) \in Nat
           /\ Waiting(s) \in Seq(Items)
           /\ Len(Waiting(s)) = Len(got[s]) - Len(received[s])
           /\ \A i \in 1..Len(Waiting(s)) :
                  /\ got[s][Len(received[s]) + i] \in Nat
                  /\ Waiting(s)[i] = Item("event", got[s][Len(received[s]) + i])
<1>1. got[s] \in Seq(Nat) /\ received[s] \in Seq(Nat)
      BY DEF SyncInvariant, SyncTyped, InductiveInvariant, TypeOK
<1>2. Len(got[s]) - Len(received[s]) \in Nat
      BY <1>1 DEF SyncInvariant, ReceivedOK
<1>.  DEFINE w == Len(got[s]) - Len(received[s])
<1>3. \A i \in 1..w : got[s][Len(received[s]) + i] \in Nat
  <2>1. \A i \in 1..w : Len(received[s]) + i \in 1..Len(got[s])
        BY <1>1, <1>2
  <2>.  QED  BY <1>1, <2>1
<1>4. \A i \in 1..w : Item("event", got[s][Len(received[s]) + i]) \in Items
      BY <1>3 DEF Item, Items
<1>5. Waiting(s) \in [1..w -> Items]
      BY <1>4 DEF Waiting
<1>6. Waiting(s) \in Seq(Items) /\ Len(Waiting(s)) = w
  <2>1. w \in Nat
        BY <1>2
  <2>.  HIDE DEF w
  <2>2. Waiting(s) \in Seq(Items)
        BY <1>5, <2>1
  <2>.  QED  BY <1>5, <2>1, <2>2
<1>.  QED  BY <1>1, <1>2, <1>3, <1>6 DEF Waiting

\* The two ways a queue ends, and what Head and Tail make of them.
LEMMA EndingShapes ==
    /\ Endings \subseteq Seq(Items)
    /\ Head(<<Sentinel>>) = Sentinel /\ Tail(<<Sentinel>>) = <<>>
    /\ Head(<<Exception, Sentinel>>) = Exception /\ Tail(<<Exception, Sentinel>>) = <<Sentinel>>
    /\ <<Sentinel>> # <<>> /\ <<Exception, Sentinel>> # <<>>
    /\ <<Exception, Sentinel>> # <<Sentinel>>
<1>1. Sentinel \in Items /\ Exception \in Items /\ Sentinel # Exception
      BY DEF Sentinel, Exception, Item, Items
<1>2. <<>> \in Seq(Items) /\ <<Sentinel>> \in Seq(Items) /\ <<Exception, Sentinel>> \in Seq(Items)
      BY <1>1
<1>3. Endings \subseteq Seq(Items)
      BY <1>2 DEF Endings
<1>4. Head(<<Sentinel>>) = Sentinel /\ Tail(<<Sentinel>>) = <<>>
      OBVIOUS
<1>5. Head(<<Exception, Sentinel>>) = Exception /\ Tail(<<Exception, Sentinel>>) = <<Sentinel>>
      OBVIOUS
<1>6. <<Sentinel>> # <<>> /\ <<Exception, Sentinel>> # <<>> /\ <<Exception, Sentinel>> # <<Sentinel>>
      OBVIOUS
<1>.  QED  BY <1>3, <1>4, <1>5, <1>6

\* The queues of the other sends are as they were.
LEMMA OthersHold ==
    ASSUME SyncInvariant, NEW s \in Sends,
           \A u \in Sends \ {s} :
               /\ queue'[u] = queue[u] /\ got'[u] = got[u] /\ received'[u] = received[u]
               /\ outcome'[u] = outcome[u] /\ coro'[u] = coro[u] /\ user'[u] = user[u],
           \E end \in Endings : QueueHolds(s, end)'
    PROVE  QueueOK'
<1>1. ASSUME NEW u \in Sends, u # s PROVE \E end \in Endings : QueueHolds(u, end)'
  <2>1. PICK end \in Endings : QueueHolds(u, end)
        BY DEF SyncInvariant, QueueOK
  <2>2. QueueHolds(u, end)'
        BY <1>1, <2>1, SameHolds
  <2>.  QED  BY <2>2
<1>.  QED  BY <1>1 DEF QueueOK, Endings, Sentinel, Exception, Item

\* The user takes an event: the first of those that wait.
LEMMA TakeEvent ==
    ASSUME SyncInvariant, NEW s \in Sends, Take(s), Waiting(s) # <<>>,
           NEW end \in Endings, QueueHolds(s, end)
    PROVE  /\ Head(queue[s]) = Item("event", got[s][Len(received[s]) + 1])
           /\ received'[s] = Append(received[s], got[s][Len(received[s]) + 1])
           /\ Len(received[s]) + 1 <= Len(got[s]) /\ got[s][Len(received[s]) + 1] \in Nat
           /\ queue'[s] = Waiting(s)' \o end
<1>.  DEFINE w == Waiting(s)
             n == Len(received[s])
<1>1. /\ w \in Seq(Items) /\ end \in Seq(Items) /\ w # <<>>
      /\ Len(w) = Len(got[s]) - n /\ n \in Nat /\ Len(got[s]) \in Nat
      /\ \A i \in 1..Len(w) : /\ got[s][n + i] \in Nat
                              /\ w[i] = Item("event", got[s][n + i])
      BY WaitingIsItems, EndingShapes
<1>2. queue[s] = w \o end
      BY DEF QueueHolds
<1>3. Len(w) >= 1
      BY <1>1, LenProperties
<1>4. /\ w \o end \in Seq(Items) /\ Len(w \o end) = Len(w) + Len(end)
      /\ \A i \in 1..(Len(w) + Len(end)) :
             (w \o end)[i] = IF i <= Len(w) THEN w[i] ELSE end[i - Len(w)]
      BY <1>1, ConcatProperties
<1>5. Len(end) \in Nat /\ Len(w) \in Nat
      BY <1>1
<1>6. w \o end # <<>>
      BY <1>3, <1>4, <1>5
<1>.  HIDE DEF w
<1>7. Head(w \o end) = w[1]
      BY <1>3, <1>4, <1>5, <1>6
<1>8. Head(queue[s]) = Item("event", got[s][n + 1]) /\ got[s][n + 1] \in Nat
      BY <1>1, <1>2, <1>3, <1>7
<1>9. Head(queue[s]).kind = "event" /\ Head(queue[s]).n = got[s][n + 1]
      BY <1>8 DEF Item
<1>10. received'[s] = Append(received[s], got[s][n + 1]) /\ got' = got
       BY <1>9 DEF Take, vars, SyncInvariant, SyncTyped
<1>11. received[s] \in Seq(Nat)
       BY WaitingIsItems
<1>12. Len(received'[s]) = n + 1
       BY <1>10, <1>11
<1>13. Waiting(s)' = [i \in 1..(Len(got[s]) - (n + 1)) |-> Item("event", got[s][(n + 1) + i])]
       BY <1>10, <1>12 DEF Waiting, Item
<1>14. Waiting(s)' = Tail(w)
  <2>1. /\ Tail(w) \in Seq(Items) /\ Len(Tail(w)) = Len(w) - 1
        /\ \A i \in 1..Len(Tail(w)) : Tail(w)[i] = w[i + 1]
        BY <1>1, HeadTailProperties
  <2>2. Len(Tail(w)) = Len(got[s]) - (n + 1)
        BY <1>1, <2>1
  <2>3. \A i \in 1..Len(Tail(w)) : Tail(w)[i] = Item("event", got[s][(n + 1) + i])
        BY <1>1, <2>1
  <2>4. Tail(w) = [i \in 1..Len(Tail(w)) |-> Tail(w)[i]]
        BY <2>1, SequenceIsFunction
  <2>.  QED  BY <1>13, <2>2, <2>3, <2>4
<1>15. Tail(w \o end) = Tail(w) \o end
  <2>1. /\ Tail(w) \in Seq(Items) /\ Len(Tail(w)) = Len(w) - 1
        /\ \A i \in 1..Len(Tail(w)) : Tail(w)[i] = w[i + 1]
        BY <1>1, HeadTailProperties
  <2>2. /\ Tail(w) \o end \in Seq(Items)
        /\ Len(Tail(w) \o end) = Len(Tail(w)) + Len(end)
        /\ \A i \in 1..(Len(Tail(w)) + Len(end)) :
               (Tail(w) \o end)[i] = IF i <= Len(Tail(w)) THEN Tail(w)[i]
                                                         ELSE end[i - Len(Tail(w))]
        BY <1>1, <2>1, ConcatProperties
  <2>3. /\ Tail(w \o end) \in Seq(Items) /\ Len(Tail(w \o end)) = Len(w \o end) - 1
        /\ \A i \in 1..Len(Tail(w \o end)) : Tail(w \o end)[i] = (w \o end)[i + 1]
        BY <1>4, <1>6, HeadTailProperties
  <2>4. Len(Tail(w \o end)) = Len(Tail(w) \o end)
        BY <1>4, <1>5, <2>1, <2>2, <2>3
  <2>5. ASSUME NEW i \in 1..Len(Tail(w \o end)) PROVE Tail(w \o end)[i] = (Tail(w) \o end)[i]
    <3>1. i \in Nat /\ i >= 1 /\ i <= Len(w) - 1 + Len(end)
          BY <1>4, <1>5, <2>3
    <3>2. Tail(w \o end)[i] = (w \o end)[i + 1]
          BY <2>3
    <3>3. CASE i <= Len(w) - 1
          BY <1>4, <1>5, <2>1, <2>2, <3>1, <3>2, <3>3
    <3>4. CASE ~ (i <= Len(w) - 1)
      <4>1. (i + 1) - Len(w) = i - Len(Tail(w))
            BY <1>5, <2>1, <3>1
      <4>2. (w \o end)[i + 1] = end[(i + 1) - Len(w)]
            BY <1>4, <1>5, <3>1, <3>4
      <4>3. (Tail(w) \o end)[i] = end[i - Len(Tail(w))]
            BY <1>5, <2>1, <2>2, <3>1, <3>4
      <4>.  QED  BY <3>2, <4>1, <4>2, <4>3
    <3>.  QED  BY <3>3, <3>4
  <2>.  QED  BY <2>2, <2>3, <2>4, <2>5, SeqEqual
<1>16. queue'[s] = Tail(queue[s])
       BY DEF Take, SyncInvariant, SyncTyped
<1>17. n + 1 <= Len(got[s])
       BY <1>1, <1>3
<1>.  QED  BY <1>2, <1>8, <1>10, <1>14, <1>15, <1>16, <1>17

\* The user takes how the send ended.
LEMMA TakeEnding ==
    ASSUME SyncInvariant, NEW s \in Sends, Take(s), Waiting(s) = <<>>,
           NEW end \in Endings, QueueHolds(s, end)
    PROVE  /\ received' = received /\ received[s] = got[s]
           /\ \/ /\ end = <<Sentinel>> /\ user'[s] = "returned" /\ queue'[s] = <<>>
                 /\ outcome[s] = "returned" /\ coro[s] = "done"
              \/ /\ user'[s] = "raised" /\ queue'[s] = <<Sentinel>> /\ coro[s] = "done"
<1>1. queue[s] = end
      BY EndingShapes, ConcatEmptySeq DEF QueueHolds
<1>2. queue[s] # <<>> /\ user[s] = "waiting"
      BY DEF Take
<1>3. coro[s] = "done" /\ (end = <<Sentinel>> => outcome[s] = "returned")
      BY <1>1, <1>2 DEF QueueHolds
<1>4. received[s] = got[s]
  <2>1. /\ got[s] \in Seq(Nat) /\ received[s] \in Seq(Nat)
        /\ Len(Waiting(s)) = Len(got[s]) - Len(received[s])
        BY WaitingIsItems
  <2>2. Len(Waiting(s)) = 0
        BY EmptySeq
  <2>3. Len(got[s]) = Len(received[s])
        BY <2>1, <2>2
  <2>4. \A i \in 1..Len(received[s]) : received[s][i] = got[s][i]
        BY DEF SyncInvariant, ReceivedOK
  <2>.  QED  BY <2>1, <2>3, <2>4, SeqEqual
<1>5. CASE end = <<Sentinel>>
  <2>1. Head(queue[s]).kind = "sentinel" /\ Tail(queue[s]) = <<>>
        BY <1>1, <1>5, EndingShapes DEF Sentinel, Item
  <2>.  QED  BY <1>3, <1>4, <1>5, <2>1 DEF Take, SyncInvariant, SyncTyped, Calls
<1>6. CASE end = <<Exception, Sentinel>>
  <2>1. Head(queue[s]).kind = "exception" /\ Tail(queue[s]) = <<Sentinel>>
        BY <1>1, <1>6, EndingShapes DEF Exception, Item
  <2>.  QED  BY <1>3, <1>4, <2>1 DEF Take, SyncInvariant, SyncTyped, Calls
<1>.  QED  BY <1>1, <1>2, <1>5, <1>6 DEF Endings

\* The user takes what is first in the queue.
LEMMA TakeStep ==
    ASSUME SyncInvariant, NEW s \in Sends, Take(s)
    PROVE  SyncTyped' /\ CoroOK' /\ ReceivedOK' /\ QueueOK' /\ ReturnedOK' /\ LoopOK'
<1>1. /\ UNCHANGED <<pc, got, outcome, loop, pending, coro>> /\ user[s] = "waiting"
      /\ queue[s] # <<>> /\ queue' = [queue EXCEPT ![s] = Tail(queue[s])]
      /\ \A u \in Sends \ {s} : queue'[u] = queue[u] /\ received'[u] = received[u]
      /\ \A c \in Calls \ {s} : user'[c] = user[c]
      BY DEF Take, vars, SyncInvariant, SyncTyped
<1>2. PICK end \in Endings : QueueHolds(s, end)
      BY DEF SyncInvariant, QueueOK
<1>3. s \in Calls /\ Sends \subseteq Calls
      BY DEF Calls
<1>4. queue' \in [Sends -> Seq(Items)]
  <2>1. Tail(queue[s]) \in Seq(Items)
        BY <1>1, HeadTailProperties DEF SyncInvariant, SyncTyped
  <2>.  QED  BY <1>1, <2>1 DEF SyncInvariant, SyncTyped
<1>5. LoopOK'
      BY <1>1 DEF LoopOK, SyncInvariant
<1>6. CASE Waiting(s) # <<>>
  <2>.  DEFINE x == got[s][Len(received[s]) + 1]
  <2>1. /\ Head(queue[s]) = Item("event", x) /\ received'[s] = Append(received[s], x)
        /\ Len(received[s]) + 1 <= Len(got[s]) /\ x \in Nat
        /\ queue'[s] = Waiting(s)' \o end
        BY <1>2, <1>6, TakeEvent
  <2>2. Head(queue[s]).kind = "event"
        BY <2>1 DEF Item
  <2>3. user' = [user EXCEPT ![s] = "holding"]
        BY <2>2 DEF Take
  <2>4. received[s] \in Seq(Nat) /\ got[s] \in Seq(Nat)
        BY WaitingIsItems
  <2>5. SyncTyped'
    <3>1. Head(queue[s]).n = x
          BY <2>1 DEF Item
    <3>2. received' = [received EXCEPT ![s] = Append(received[s], x)]
          BY <2>2, <3>1 DEF Take
    <3>3. Append(received[s], x) \in Seq(Nat)
          BY <2>1, <2>4
    <3>.  HIDE DEF x
    <3>4. received' \in [Sends -> Seq(Nat)]
          BY <3>2, <3>3 DEF SyncInvariant, SyncTyped
    <3>.  QED  BY <1>1, <1>4, <2>3, <3>4 DEF SyncInvariant, SyncTyped
  <2>6. CoroOK'
        BY <1>1, <2>3 DEF CoroOK, SyncInvariant, SyncTyped
  <2>7. ReceivedOK'
    <3>1. /\ Len(received'[s]) = Len(received[s]) + 1
          /\ \A i \in 1..Len(received[s]) + 1 :
                 received'[s][i] = IF i = Len(received[s]) + 1 THEN x ELSE received[s][i]
          BY <2>1, <2>4
    <3>2. \A i \in 1..Len(received[s]) + 1 : i # Len(received[s]) + 1 => i \in 1..Len(received[s])
          BY <2>4
    <3>3. \A i \in 1..Len(received'[s]) : received'[s][i] = got[s][i]
          BY <3>1, <3>2 DEF SyncInvariant, ReceivedOK
    <3>4. \A u \in Sends \ {s} :
              /\ Len(received'[u]) <= Len(got[u])
              /\ \A i \in 1..Len(received'[u]) : received'[u][i] = got[u][i]
          BY <1>1 DEF SyncInvariant, ReceivedOK
    <3>5. Len(received'[s]) <= Len(got[s]) /\ got' = got
          BY <1>1, <2>1, <3>1
    <3>.  QED  BY <3>3, <3>4, <3>5 DEF ReceivedOK
  <2>8. QueueOK'
    <3>1. QueueHolds(s, end)'
      <4>1. end = <<Sentinel>> => outcome'[s] = "returned"
            BY <1>1, <1>2 DEF QueueHolds
      <4>2. end # <<>> => coro'[s] = "done"
            BY <1>1, <1>2 DEF QueueHolds
      <4>.  QED  BY <2>1, <4>1, <4>2 DEF QueueHolds, Sentinel, Item
    <3>.  QED  BY <1>1, <1>3, <3>1, OthersHold
  <2>9. ReturnedOK'
        BY <1>1, <1>3, <2>3 DEF SyncInvariant, SyncTyped, ReturnedOK
  <2>.  QED  BY <1>5, <2>5, <2>6, <2>7, <2>8, <2>9
<1>7. CASE Waiting(s) = <<>>
  <2>1. /\ received' = received /\ received[s] = got[s]
        /\ \/ /\ end = <<Sentinel>> /\ user'[s] = "returned" /\ queue'[s] = <<>>
              /\ outcome[s] = "returned" /\ coro[s] = "done"
           \/ /\ user'[s] = "raised" /\ queue'[s] = <<Sentinel>> /\ coro[s] = "done"
        BY <1>2, <1>7, TakeEnding
  <2>2. SyncTyped'
    <3>1. \E to \in {"returned", "raised"} : user'[s] = to /\ user' = [user EXCEPT ![s] = to]
          BY <1>3, <2>1 DEF Take, SyncInvariant, SyncTyped
    <3>.  QED  BY <1>1, <1>4, <2>1, <3>1 DEF SyncInvariant, SyncTyped
  <2>3. CoroOK' /\ ReceivedOK'
        BY <1>1, <1>3, <2>1 DEF CoroOK, ReceivedOK, SyncInvariant
  <2>4. QueueOK'
    <3>1. Waiting(s)' = <<>>
          BY <1>1, <1>7, <2>1 DEF Waiting, Item
    <3>2. queue'[s] = Waiting(s)' \o queue'[s] /\ queue'[s] \in Endings
          BY <2>1, <3>1, EndingShapes, ConcatEmptySeq DEF Endings
    <3>3. QueueHolds(s, queue[s])'
          BY <1>1, <2>1, <3>2, EndingShapes DEF QueueHolds
    <3>4. \E e \in Endings : QueueHolds(s, e)'
          BY <3>2, <3>3 DEF QueueHolds, Sentinel, Item
    <3>.  QED  BY <1>1, <1>3, <2>1, <3>4, OthersHold
  <2>5. ReturnedOK'
        BY <1>1, <1>3, <2>1 DEF SyncInvariant, ReturnedOK
  <2>.  QED  BY <1>5, <2>2, <2>3, <2>4, <2>5
<1>.  QED  BY <1>6, <1>7

\* The drive puts what a step of the send yields, and how the send ended.
LEMMA DrivePuts ==
    ASSUME SyncInvariant, NEW s \in Sends, Drive(s)
    PROVE  /\ coro[s] = "begun" /\ UNCHANGED <<loop, pending, user, received>>
           /\ pc[s] # "ended" /\ pc'[s] # "idle"
           /\ \A u \in Sends \ {s} : /\ pc'[u] = pc[u] /\ got'[u] = got[u]
                                      /\ outcome'[u] = outcome[u] /\ queue'[u] = queue[u]
           /\ \A c \in Calls \ {s} : coro'[c] = coro[c]
           /\ coro' = [coro EXCEPT ![s] = IF pc'[s] = "ended" THEN "done" ELSE coro[s]]
           /\ queue' = [queue EXCEPT ![s] = queue[s] \o Yielded(s) \o EndItems(s)]
           /\ \/ got'[s] = got[s]
              \/ pc'[s] # "ended" /\ \E n \in Nat : got'[s] = Append(got[s], n)
  BY OwnStep DEF Drive, SendStep, Breaks, SyncInvariant, SyncTyped

\* The drive leaves in the queue all that waits, and the ending once there is one.
LEMMA DriveQueue ==
    ASSUME SyncInvariant, NEW s \in Sends, Drive(s)
    PROVE  /\ queue'[s] = Waiting(s)' \o EndItems(s) /\ queue'[s] \in Seq(Items)
           /\ EndItems(s) \in Endings
<1>1. /\ coro[s] = "begun" /\ received' = received
      /\ queue'[s] = queue[s] \o Yielded(s) \o EndItems(s)
      /\ \/ got'[s] = got[s]
         \/ pc'[s] # "ended" /\ \E n \in Nat : got'[s] = Append(got[s], n)
      BY DrivePuts DEF SyncInvariant, SyncTyped
<1>2. EndItems(s) \in Endings /\ EndItems(s) \in Seq(Items)
      BY EndingShapes DEF EndItems, Endings
<1>.  DEFINE w == Waiting(s)
<1>3. w \in Seq(Items) /\ Len(w) = Len(got[s]) - Len(received[s])
      BY WaitingIsItems
<1>4. queue[s] = w
  <2>1. PICK end \in Endings : QueueHolds(s, end)
        BY DEF SyncInvariant, QueueOK
  <2>2. end = <<>>
        BY <1>1, <2>1 DEF QueueHolds
  <2>.  QED  BY <1>3, <2>1, <2>2, ConcatEmptySeq DEF QueueHolds
<1>5. CASE got'[s] = got[s]
  <2>1. got[s] \in Seq(Nat)
        BY WaitingIsItems
  <2>2. Len(got'[s]) - Len(got[s]) = 0
        BY <1>5, <2>1
  <2>3. Yielded(s) = <<>>
    <3>1. Yielded(s) = [i \in 1..0 |-> Item("event", got'[s][Len(got[s]) + i])]
          BY <2>2 DEF Yielded
    <3>2. Yielded(s) \in [1..0 -> Items]
          BY <3>1
    <3>3. Yielded(s) \in Seq(Items) /\ Len(Yielded(s)) = 0
          BY <3>2
    <3>.  QED  BY <3>3, EmptySeq
  <2>4. Waiting(s)' = w
        BY <1>1, <1>5 DEF Waiting, Item
  <2>.  HIDE DEF w
  <2>5. queue'[s] = w \o EndItems(s)
        BY <1>1, <1>3, <1>4, <2>3, ConcatEmptySeq
  <2>.  QED  BY <1>2, <1>3, <2>4, <2>5, ConcatProperties
<1>6. ASSUME NEW n \in Nat, got'[s] = Append(got[s], n), pc'[s] # "ended"
      PROVE  queue'[s] = Waiting(s)' \o EndItems(s) /\ queue'[s] \in Seq(Items)
  <2>.  DEFINE x == Item("event", n)
  <2>1. got[s] \in Seq(Nat) /\ received[s] \in Seq(Nat) /\ Len(got[s]) - Len(received[s]) \in Nat
        BY WaitingIsItems
  <2>2. /\ Len(got'[s]) = Len(got[s]) + 1 /\ got'[s][Len(got[s]) + 1] = n
        /\ \A i \in 1..Len(got[s]) : got'[s][i] = got[s][i]
        BY <1>6, <2>1
  <2>3. Yielded(s) = <<x>>
    <3>1. Len(got'[s]) - Len(got[s]) = 1
          BY <2>1, <2>2
    <3>2. Yielded(s) = [i \in 1..1 |-> Item("event", got'[s][Len(got[s]) + i])]
          BY <3>1 DEF Yielded
    <3>.  QED  BY <2>2, <3>2
  <2>4. EndItems(s) = <<>>
        BY <1>6 DEF EndItems
  <2>5. x \in Items /\ <<x>> \in Seq(Items)
        BY DEF Item, Items
  <2>6. Append(w, x) \in Seq(Items) /\ w \o <<x>> = Append(w, x)
        BY <1>3, <2>5, AppendIsConcat
  <2>7. Waiting(s)' = Append(w, x)
    <3>1. Waiting(s)' = [i \in 1..(Len(got[s]) + 1 - Len(received[s])) |->
                            Item("event", got'[s][Len(received[s]) + i])]
          BY <1>1, <2>2 DEF Waiting, Item
    <3>2. /\ Len(Append(w, x)) = Len(got[s]) + 1 - Len(received[s])
          /\ \A i \in 1..Len(w) + 1 : Append(w, x)[i] = IF i = Len(w) + 1 THEN x ELSE w[i]
      <4>.  HIDE DEF w, x
      <4>1. Len(Append(w, x)) = Len(w) + 1
            BY <1>3, <2>5, AppendProperties
      <4>2. \A i \in 1..Len(w) + 1 : Append(w, x)[i] = IF i = Len(w) + 1 THEN x ELSE w[i]
            BY <1>3, <2>5, AppendProperties
      <4>.  QED  BY <1>3, <2>1, <4>1, <4>2
    <3>3. ASSUME NEW i \in 1..Len(Append(w, x))
          PROVE  Append(w, x)[i] = Item("event", got'[s][Len(received[s]) + i])
      <4>1. i \in 1..Len(w) + 1
            BY <1>3, <2>1, <3>2
      <4>2. CASE i = Len(w) + 1
        <5>1. Len(received[s]) + i = Len(got[s]) + 1
              BY <1>3, <2>1, <4>2
        <5>.  QED  BY <2>2, <3>2, <4>1, <4>2, <5>1
      <4>3. CASE i # Len(w) + 1
        <5>1. i \in 1..Len(w) /\ Len(received[s]) + i \in 1..Len(got[s])
          <6>1. Len(got[s]) \in Nat /\ Len(received[s]) \in Nat /\ Len(w) \in Nat
                BY <1>3, <2>1
          <6>.  HIDE DEF w
          <6>2. i \in 1..Len(w)
                BY <4>1, <4>3, <6>1
          <6>.  QED  BY <1>3, <2>1, <6>1, <6>2
        <5>2. w[i] = Item("event", got[s][Len(received[s]) + i])
              BY <5>1, WaitingIsItems
        <5>.  QED  BY <2>2, <3>2, <4>1, <4>3, <5>1, <5>2
      <4>.  QED  BY <4>2, <4>3
    <3>.  HIDE DEF w, x
    <3>4. Append(w, x) = [i \in 1..Len(Append(w, x)) |-> Append(w, x)[i]]
          BY <2>6, SequenceIsFunction
    <3>.  QED  BY <3>1, <3>2, <3>3, <3>4
  <2>.  HIDE DEF w, x
  <2>8. queue'[s] = Append(w, x) \o EndItems(s)
        BY <1>1, <1>4, <2>3, <2>6
  <2>9. queue'[s] = Append(w, x)
        BY <2>4, <2>6, <2>8, ConcatEmptySeq
  <2>.  QED  BY <2>6, <2>7, <2>8, <2>9
<1>.  QED  BY <1>1, <1>2, <1>5, <1>6

\* A step of the send on the loop.
LEMMA DriveStep ==
    ASSUME SyncInvariant, NEW s \in Sends, Drive(s)
    PROVE  SyncTyped' /\ CoroOK' /\ ReceivedOK' /\ QueueOK' /\ ReturnedOK' /\ LoopOK'
<1>.  USE DEF SyncInvariant
<1>1. /\ coro[s] = "begun" /\ UNCHANGED <<loop, pending, user, received>>
      /\ pc[s] # "ended" /\ pc'[s] # "idle"
      /\ \A u \in Sends \ {s} : /\ pc'[u] = pc[u] /\ got'[u] = got[u]
                                 /\ outcome'[u] = outcome[u] /\ queue'[u] = queue[u]
      /\ \A c \in Calls \ {s} : coro'[c] = coro[c]
      /\ coro' = [coro EXCEPT ![s] = IF pc'[s] = "ended" THEN "done" ELSE coro[s]]
      /\ queue' = [queue EXCEPT ![s] = queue[s] \o Yielded(s) \o EndItems(s)]
      /\ \/ got'[s] = got[s]
         \/ pc'[s] # "ended" /\ \E n \in Nat : got'[s] = Append(got[s], n)
      BY DrivePuts
<1>2. /\ queue'[s] = Waiting(s)' \o EndItems(s) /\ queue'[s] \in Seq(Items)
      /\ EndItems(s) \in Endings
      BY DriveQueue
<1>3. s \in Calls /\ Sends \subseteq Calls
      BY DEF Calls
<1>4. coro'[s] = IF pc'[s] = "ended" THEN "done" ELSE "begun"
      BY <1>1, <1>3 DEF SyncTyped
<1>5. SyncTyped'
  <2>1. queue' \in [Sends -> Seq(Items)]
        BY <1>1, <1>2 DEF SyncTyped
  <2>2. coro' \in [Calls -> {"none", "scheduled", "created", "begun", "done", "lost"}]
        BY <1>1 DEF SyncTyped
  <2>.  QED  BY <1>1, <2>1, <2>2 DEF SyncTyped
<1>6. CoroOK'
  <2>1. \A c \in Calls : user'[c] = "idle" => coro'[c] = "none"
        BY <1>1, <1>3 DEF CoroOK
  <2>.  QED  BY <1>1, <1>3, <1>4, <2>1 DEF CoroOK
<1>7. ReceivedOK'
  <2>1. got[s] \in Seq(Nat) /\ received[s] \in Seq(Nat)
        BY WaitingIsItems
  <2>2. /\ Len(got[s]) <= Len(got'[s])
        /\ \A i \in 1..Len(got[s]) : got'[s][i] = got[s][i]
        /\ got'[s] \in Seq(Nat)
    <3>1. CASE got'[s] = got[s]
          BY <2>1, <3>1
    <3>2. ASSUME NEW n \in Nat, got'[s] = Append(got[s], n)
          PROVE  /\ Len(got'[s]) = Len(got[s]) + 1 /\ got'[s] \in Seq(Nat)
                 /\ \A i \in 1..Len(got[s]) : got'[s][i] = got[s][i]
          BY <2>1, <3>2
    <3>3. Len(got[s]) \in Nat
          BY <2>1
    <3>.  QED  BY <1>1, <3>1, <3>2, <3>3
  <2>3. /\ Len(received[s]) <= Len(got[s])
        /\ \A i \in 1..Len(received[s]) : received[s][i] = got[s][i]
        BY DEF ReceivedOK
  <2>4. Len(received[s]) <= Len(got'[s])
    <3>1. Len(got'[s]) \in Nat /\ Len(got[s]) \in Nat /\ Len(received[s]) \in Nat
          BY <2>1, <2>2
    <3>.  QED  BY <2>2, <2>3, <3>1
  <2>5. \A i \in 1..Len(received[s]) : received[s][i] = got'[s][i]
    <3>1. \A i \in 1..Len(received[s]) : i \in 1..Len(got[s])
          BY <2>1, <2>3
    <3>.  QED  BY <2>2, <2>3, <3>1
  <2>.  QED  BY <1>1, <2>4, <2>5 DEF ReceivedOK
<1>8. QueueOK'
  <2>1. EndItems(s) # <<>> => coro'[s] = "done"
        BY <1>4 DEF EndItems
  <2>2. EndItems(s) = <<Sentinel>> => outcome'[s] = "returned"
        BY EndingShapes DEF EndItems
  <2>3. \E end \in Endings : QueueHolds(s, end)'
        BY <1>2, <2>1, <2>2 DEF QueueHolds, Sentinel, Item
  <2>.  QED  BY <1>1, <1>3, <2>3, OthersHold
<1>9. ReturnedOK'
      BY <1>1, <1>3 DEF ReturnedOK
<1>10. LoopOK'
       BY <1>1, <1>3 DEF LoopOK, SyncTyped
<1>.  QED  BY <1>5, <1>6, <1>7, <1>8, <1>9, <1>10

-----------------------------------------------------------------------------
(* The invariant of the synchronous client *)

\* No call has been made.
LEMMA SyncInitHolds == SyncInit => SyncInvariant
<1>.  SUFFICES ASSUME SyncInit PROVE SyncInvariant
      OBVIOUS
<1>1. InductiveInvariant
      BY InitHolds DEF SyncInit
<1>2. /\ \A s \in Sends : /\ queue[s] = <<>> /\ received[s] = <<>> /\ got[s] = <<>>
                           /\ pc[s] = "idle" /\ outcome[s] = "none"
      /\ \A c \in Calls : coro[c] = "none" /\ user[c] = "idle"
      /\ loop = "running" /\ pending = {}
      BY DEF SyncInit, Init, Calls
<1>3. SyncTyped
  <2>1. <<>> \in Seq(Items) /\ <<>> \in Seq(Nat)
        BY EmptySeq
  <2>.  QED  BY <2>1 DEF SyncInit, SyncTyped, Calls
<1>4. ReceivedOK
  <2>1. Len(<<>>) = 0
        BY EmptySeq
  <2>2. 0 <= 0 /\ \A i \in 1..0 : FALSE
        OBVIOUS
  <2>3. \A s \in Sends : Len(received[s]) = 0 /\ Len(got[s]) = 0
        BY <1>2, <2>1
  <2>.  QED  BY <2>2, <2>3 DEF ReceivedOK
<1>5. QueueOK
  <2>.  SUFFICES ASSUME NEW s \in Sends PROVE \E end \in Endings : QueueHolds(s, end)
        BY DEF QueueOK
  <2>1. Waiting(s) = <<>>
    <3>1. Len(<<>>) = 0 /\ 0 - 0 = 0
          BY EmptySeq
    <3>2. Waiting(s) = [i \in 1..0 |-> Item("event", got[s][Len(received[s]) + i])]
          BY <1>2, <3>1 DEF Waiting
    <3>3. Waiting(s) \in [1..0 -> Items]
          BY <3>2
    <3>4. Waiting(s) \in Seq(Items) /\ Len(Waiting(s)) = 0
          BY <3>3
    <3>.  QED  BY <3>4, EmptySeq
  <2>2. queue[s] = Waiting(s) \o <<>>
        BY <1>2, <2>1, ConcatEmptySeq, EmptySeq
  <2>3. QueueHolds(s, <<>>)
        BY <2>2, EndingShapes DEF QueueHolds
  <2>.  QED  BY <2>3 DEF Endings
<1>6. CoroOK /\ ReturnedOK /\ LoopOK
      BY <1>2 DEF CoroOK, ReturnedOK, LoopOK, Calls
<1>.  QED  BY <1>1, <1>3, <1>4, <1>5, <1>6 DEF SyncInvariant

\* Every step of the user's threads and of the loop keeps the invariant.
LEMMA SyncStepKeeps == SyncInvariant /\ [SyncNext]_allVars => SyncInvariant'
<1>.  SUFFICES ASSUME SyncInvariant, [SyncNext]_allVars PROVE SyncInvariant'
      OBVIOUS
<1>1. InductiveInvariant'
      BY SyncStepIsSendStep, StepKeeps DEF SyncInvariant
<1>2. SyncTyped' /\ CoroOK' /\ ReceivedOK' /\ QueueOK' /\ ReturnedOK' /\ LoopOK'
  <2>1. CASE UNCHANGED allVars
    <3>1. UNCHANGED <<pc, got, outcome, loop, pending, coro, queue, user, received>>
          BY <2>1 DEF allVars, vars, syncVars
    <3>2. SyncTyped' /\ CoroOK' /\ ReceivedOK' /\ ReturnedOK' /\ LoopOK'
          BY <3>1 DEF SyncInvariant, SyncTyped, CoroOK, ReceivedOK, ReturnedOK, LoopOK
    <3>3. QueueOK'
          BY <3>1 DEF SyncInvariant, QueueOK, QueueHolds, Waiting, Endings, Item, Sentinel,
                      Exception
    <3>.  QED  BY <3>2, <3>3
  <2>2. ASSUME NEW s \in Sends, NextEvent(s)
        PROVE  SyncTyped' /\ CoroOK' /\ ReceivedOK' /\ QueueOK' /\ ReturnedOK' /\ LoopOK'
    <3>.  USE DEF SyncInvariant
    <3>1. /\ UNCHANGED <<pc, got, outcome, loop, pending, coro, queue, received>>
          /\ user[s] = "holding"
          /\ \E now \in {"waiting", "dropped"} : user' = [user EXCEPT ![s] = now]
          BY <2>2 DEF NextEvent, vars
    <3>2. SyncTyped' /\ CoroOK' /\ ReceivedOK' /\ LoopOK'
          BY <3>1 DEF SyncTyped, CoroOK, ReceivedOK, LoopOK, Calls
    <3>3. ReturnedOK'
          BY <3>1 DEF SyncTyped, ReturnedOK, Calls
    <3>4. \A u \in Sends : user[u] = "raised" => user'[u] = "raised"
          BY <3>1 DEF SyncTyped, Calls
    <3>5. QueueOK'
      <4>.  SUFFICES ASSUME NEW u \in Sends PROVE \E end \in Endings : QueueHolds(u, end)'
            BY DEF QueueOK, Endings, Sentinel, Exception, Item
      <4>1. PICK end \in Endings : QueueHolds(u, end)
            BY DEF QueueOK
      <4>2. QueueHolds(u, end)'
            BY <3>1, <3>4, <4>1, SameHolds
      <4>.  QED  BY <4>2
    <3>.  QED  BY <3>2, <3>3, <3>5
  <2>3. ASSUME NEW s \in Sends, LoopStep(s) \/ UserStep(s) \/ Harness(s)
        PROVE  SyncTyped' /\ CoroOK' /\ ReceivedOK' /\ QueueOK' /\ ReturnedOK' /\ LoopOK'
        BY <2>2, <2>3, CallSteps, BeginSteps, DriveStep, TakeStep
        DEF LoopStep, UserStep, Calls
  <2>4. ASSUME NEW r \in Runs, RunStep(r)
        PROVE  SyncTyped' /\ CoroOK' /\ ReceivedOK' /\ QueueOK' /\ ReturnedOK' /\ LoopOK'
        BY <2>4, CallSteps DEF RunStep, Calls
  <2>.  QED  BY <2>1, <2>3, <2>4, CallSteps, CloseSteps DEF SyncNext, Calls
<1>.  QED  BY <1>1, <1>2 DEF SyncInvariant

\* Any number of threads with any number of sends and other calls, and a client that
\* is closed at any moment: each user gets what the asynchronous send yields, in order
\* and without a gap, and an iterator that ends normally has given all of it.
THEOREM SyncMirrorsAsync == SyncSpec => []MirrorsAsync
<1>1. SyncInvariant => MirrorsAsync
      BY DEF SyncInvariant, ReceivedOK, QueueOK, QueueHolds, Endings, ReturnedOK, MirrorsAsync
<1>.  QED  BY <1>1, SyncInitHolds, SyncStepKeeps, PTL DEF SyncSpec

\* A send that was cancelled as the loop closed has no run left in the middle of its
\* work: it has ended, and its run before it, or it never began.
THEOREM LoopClosesLast == SyncSpec => []NoRunOutlivesLoop
<1>1. SyncInvariant => NoRunOutlivesLoop
  <2>.  SUFFICES ASSUME SyncInvariant, loop = "closed", NEW s \in pending \cap Sends
                 PROVE  task[s] \in Done \cup {"none"}
        BY DEF NoRunOutlivesLoop
  <2>1. coro[s] \in {"done", "lost"}
        BY DEF SyncInvariant, LoopOK
  <2>2. pc[s] \in {"idle", "ended"}
        BY <2>1 DEF SyncInvariant, CoroOK
  <2>.  QED  BY <2>2 DEF SyncInvariant, InductiveInvariant, TaskOK, NoRunOutlivesSend
<1>.  QED  BY <1>1, SyncInitHolds, SyncStepKeeps, PTL DEF SyncSpec

\* What is proved of the asynchronous send holds under the synchronous client: what it
\* yields is in order, its run is over when it ends, and what it returns is complete.
THEOREM SyncSendsKeep == SyncSpec => [](StreamInOrder /\ NoRunOutlivesSend /\ ReturnedIsComplete)
  BY SyncKeepsSends, StreamsInOrder, RunsEndFirst, ReturnsComplete, PTL
=============================================================================
