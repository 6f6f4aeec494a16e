------------------------- MODULE HarnessRuntimeProofs -------------------------
(***************************************************************************)
(* Proofs about HarnessRuntime, for any runs, bounds, threshold and page,  *)
(* and any number of faults.                                               *)
(***************************************************************************)
EXTENDS HarnessRuntime, FiniteSetTheorems, SequenceTheorems, WellFoundedInduction, TLAPS

Steps == {"new", "seed", "top", "compact", "reread", "stream", "tool", "provision",
          "record", "execute", "result", "destroy", "complete", "done"}

\* Where a run has a tool call to answer.
Answering == {"tool", "provision", "record", "execute", "result"}

\* The names of sandboxes that are in use or remembered are bounded, so that there is
\* a next one.
NamesBounded(b) ==
    /\ containers \subseteq 0..b
    /\ \A r \in Runs : provisioned[r] \subseteq 0..b /\ sandbox[r] \in 0..b
    /\ \A n \in DOMAIN log : log[n].sandbox \in 0..b

NamesOK == \E b \in Nat : NamesBounded(b)

PastSeed(r) == pc[r] \notin {"new", "seed", "done"}

\* One prompt, ahead of what the runs emit, and in the log once a run is past Seed.
PromptOK ==
    /\ \A m, n \in Positions("prompt") : m = n
    /\ \A n \in DOMAIN log : log[n].kind \notin {"user", "prompt"} =>
          \E m \in Positions("prompt") : m < n
    /\ \A r \in Runs : PastSeed(r) => Positions("prompt") # {}

\* A call's id is its position; results answer earlier calls, once each; and what a run
\* has yet to answer are calls without a result, each on one run's list only.
CallsOK ==
    /\ \A n \in Positions("call") : log[n].call = n
    /\ \A n \in Positions("result") : log[n].call \in Positions("call") /\ log[n].call < n
    /\ \A m, n \in Positions("result") : log[m].call = log[n].call => m = n
    /\ \A r \in Runs : \A i \in DOMAIN calls[r] :
          /\ calls[r][i] \in Positions("call")
          /\ \A n \in Positions("result") : log[n].call # calls[r][i]
    /\ \A r, q \in Runs : \A i \in DOMAIN calls[r], j \in DOMAIN calls[q] :
          calls[r][i] = calls[q][j] => r = q /\ i = j

\* A run that has not begun its loop, or has left `finally`, holds no sandbox.
OwnedOK ==
    /\ SandboxesOwned
    /\ \A r \in Runs : pc[r] \in {"new", "seed", "complete"} => provisioned[r] = {}

\* While nothing disturbs the session, one run at most is under way, none in a completed
\* session; no exception is on its way, and a run that is over has completed the session.
AloneOK ==
    quiet => /\ \A r, q \in Runs : Going(r) /\ Going(q) => r = q
             /\ completed => \A r \in Runs : ~ Going(r)
             /\ \A r \in Runs : ~ failed[r] /\ (pc[r] = "done" => completed)

Answered(m) == \E n \in Positions("result") : log[n].call = m
Owed(m)     == \E r \in Runs : \E i \in DOMAIN calls[r] : calls[r][i] = m

\* Then each call of the log is answered or still owed, and a run owes none between its
\* turns, nor after its loop, unless the model ended with an error.
AnsweredOK ==
    quiet => /\ \A m \in Positions("call") :
                    Answered(m) \/ Owed(m) \/ Positions("error") # {}
             /\ \A r \in Runs :
                    /\ pc[r] \in {"new", "seed", "top", "compact", "reread"} => calls[r] = <<>>
                    /\ pc[r] \in {"destroy", "complete", "done"} =>
                          calls[r] = <<>> \/ Positions("error") # {}

\* The strengthened invariant.
InductiveInvariant ==
    TypeOK /\ NamesOK /\ PromptOK /\ CallsOK /\ OwnedOK /\ AloneOK /\ AnsweredOK

-----------------------------------------------------------------------------
(* About the operators *)

LEMMA MaxOfBounded ==
    ASSUME NEW b \in Nat, NEW S \in SUBSET (0..b), S # {}
    PROVE  Max(S) \in S /\ \A y \in S : y <= Max(S)
<1>.  DEFINE Above(x) == {y \in S : y > x}
             ups == {Above(x) : x \in S}
<1>0. \A z \in S : z \in Int
      OBVIOUS
<1>1. IsFiniteSet(S)
  <2>1. IsFiniteSet(0..b)
        BY FS_Interval
  <2>.  QED  BY <2>1, FS_Subset
<1>2. IsWellFoundedOn(StrictSubsetOrdering(S), SUBSET S)
      BY <1>1, FS_StrictSubsetOrderingWellFounded, FS_FiniteSubsetsOfFinite
<1>3. ups \subseteq SUBSET S /\ ups # {}
      OBVIOUS
<1>.  HIDE DEF ups
<1>4. PICK u \in ups : \A v \in ups : ~ (<<v, u>> \in StrictSubsetOrdering(S))
      BY <1>2, <1>3, WFMin
<1>5. PICK x \in S : u = Above(x)
      BY <1>4 DEF ups
<1>6. ASSUME NEW y \in S, y > x
      PROVE  FALSE
  <2>1. Above(y) \in ups
        BY <1>6 DEF ups
  <2>0. x \in Int /\ y \in Int
        BY <1>0, <1>6
  <2>2. \A z \in S : z > y => z > x
        BY <1>0, <1>6, <2>0
  <2>5. Above(y) \subseteq Above(x)
        BY <2>2
  <2>6. y \in Above(x) /\ y \notin Above(y)
        BY <1>6, <2>0
  <2>3. <<Above(y), u>> \in StrictSubsetOrdering(S)
        BY <1>5, <2>1, <2>5, <2>6 DEF StrictSubsetOrdering
  <2>.  QED  BY <1>4, <2>1, <2>3
<1>7. \A y \in S : x >= y
      BY <1>0, <1>6
<1>8. Max(S) \in S /\ \A y \in S : Max(S) >= y
      BY <1>7 DEF Max
<1>.  QED  BY <1>0, <1>8

\* A set of numbers has a least one.
LEMMA LeastOfNat ==
    ASSUME NEW S \in SUBSET Nat, S # {}
    PROVE  \E least \in S : \A k \in S : least <= k
<1>1. PICK least \in S : \A k \in S : ~ (<<k, least>> \in OpToRel(<, Nat))
      BY NatLessThanWellFounded, WFMin
<1>2. \A k \in S : ~ (k < least)
  <2>1. \A k \in S : k < least => <<k, least>> \in OpToRel(<, Nat)
        BY DEF OpToRel
  <2>.  QED  BY <1>1, <2>1
<1>3. \A k \in S : k \in Nat /\ least \in Nat
      OBVIOUS
<1>.  QED  BY <1>2, <1>3

\* A plan names positions of the log it was made from.
LEMMA PlanType ==
    ASSUME TypeOK, NEW k \in 0..Len(log)
    PROVE  PlanTruncate(Prefix(k), View(Prefix(k))) \in SUBSET Nat
<1>1. Len(Prefix(k)) = k /\ k \in Nat
      BY DEF TypeOK, Prefix
<1>.  QED  BY <1>1 DEF PlanTruncate, View

\* A page ends within the log.
LEMMA PageEndType ==
    ASSUME TypeOK
    PROVE  PageEnd \in 0..Len(log)
<1>1. Len(log) \in Nat
      BY DEF TypeOK
<1>.  QED  BY <1>1, HarnessAssumption DEF PageEnd

\* What an append leaves of a log, and of its positions of a kind.
LEMMA AppendGrows ==
    ASSUME log \in Seq(Event), NEW e \in Event, log' = Append(log, e)
    PROVE  /\ log' \in Seq(Event) /\ Len(log) \in Nat /\ Len(log') = Len(log) + 1
           /\ DOMAIN log = 1..Len(log) /\ DOMAIN log' = 1..(Len(log) + 1)
           /\ log'[Len(log) + 1] = e
           /\ \A n \in DOMAIN log : log'[n] = log[n]
OBVIOUS

LEMMA AppendPositions ==
    ASSUME log \in Seq(Event), NEW e \in Event, log' = Append(log, e), NEW kind
    PROVE  Positions(kind)' =
              IF e.kind = kind THEN Positions(kind) \cup {Len(log) + 1} ELSE Positions(kind)
BY AppendGrows DEF Positions

\* The events the steps append are events.
LEMMA EventsAreEvents ==
    /\ \A kind \in {"user", "prompt", "delta", "closer", "error"} :
          Plain(kind) \in Event /\ Plain(kind).kind = kind /\ Plain(kind).sandbox = NoSandbox
    /\ \A kind \in {"call", "result", "sandbox", "compaction"}, call \in Nat, box \in Nat,
          dropped \in SUBSET Nat :
          /\ Ev(kind, call, box, dropped) \in Event
          /\ Ev(kind, call, box, dropped).kind = kind
          /\ Ev(kind, call, box, dropped).call = call
          /\ Ev(kind, call, box, dropped).sandbox = box
BY DEF Plain, Ev, Event, CHARS_PER_TOKEN, NoSandbox

\* emit_event appends its event, or raises on a completed session.
LEMMA EmitShape ==
    ASSUME TypeOK, NEW r \in Runs, NEW e \in Event, NEW step \in Steps, Emit(r, e, step)
    PROVE  /\ IF completed THEN log' = log ELSE log' = Append(log, e)
           /\ log' \in Seq(Event) /\ Len(log) \in Nat /\ Len(log) <= Len(log')
           /\ Len(log') \in Nat
           /\ pc' = [pc EXCEPT ![r] = IF completed THEN "destroy" ELSE step]
           /\ pc' \in [Runs -> Steps]
           /\ failed' \in [Runs -> BOOLEAN]
<1>1. log \in Seq(Event) /\ pc \in [Runs -> Steps] /\ failed \in [Runs -> BOOLEAN]
      /\ completed \in BOOLEAN
      BY DEF TypeOK, Steps
<1>2. IF completed THEN log' = log ELSE log' = Append(log, e)
      BY <1>1 DEF Emit
<1>3. /\ log' \in Seq(Event) /\ Len(log) \in Nat /\ Len(log) <= Len(log')
      /\ Len(log') \in Nat
  <2>1. CASE completed
        BY <1>1, <1>2, <2>1
  <2>2. CASE ~ completed
        BY <1>1, <1>2, <2>2, AppendGrows
  <2>.  QED  BY <2>1, <2>2
<1>4. pc' = [pc EXCEPT ![r] = IF completed THEN "destroy" ELSE step]
      BY <1>1 DEF Emit, Raise, Goto
<1>5. pc' \in [Runs -> Steps]
      BY <1>1, <1>4 DEF Steps
<1>6. failed' \in [Runs -> BOOLEAN]
      BY <1>1 DEF Emit, Raise
<1>.  QED  BY <1>2, <1>3, <1>4, <1>5, <1>6

-----------------------------------------------------------------------------
(* The types and the names of sandboxes *)

\* A step that leaves the sandboxes' variables alone, and the log or its names.
LEMMA NamesKept ==
    ASSUME TypeOK, NamesOK, UNCHANGED boxVars,
           \/ log' = log
           \/ \E e \in Event : log' = Append(log, e)
                              /\ e.sandbox \in {NoSandbox} \cup {sandbox[r] : r \in Runs}
    PROVE  NamesOK'
<1>1. CASE log' = log
      BY <1>1 DEF NamesOK, NamesBounded, boxVars
<1>2. ASSUME NEW e \in Event, log' = Append(log, e),
             e.sandbox \in {NoSandbox} \cup {sandbox[r] : r \in Runs}
      PROVE  NamesOK'
  <2>1. PICK b \in Nat : NamesBounded(b)
        BY DEF NamesOK
  <2>2. e.sandbox \in 0..b
        BY <1>2, <2>1 DEF NamesBounded, NoSandbox
  <2>3. \A n \in DOMAIN log' : log'[n].sandbox \in 0..b
    <3>1. log \in Seq(Event)
          BY DEF TypeOK
    <3>2. /\ DOMAIN log' = DOMAIN log \cup {Len(log) + 1}
          /\ log'[Len(log) + 1] = e /\ \A n \in DOMAIN log : log'[n] = log[n]
          BY <1>2, <3>1, AppendGrows
    <3>.  QED  BY <2>1, <2>2, <3>2 DEF NamesBounded
  <2>.  QED  BY <2>1, <2>3 DEF NamesOK, NamesBounded, boxVars
<1>.  QED  BY <1>1, <1>2

\* A step that forgets names only.
LEMMA NamesForgotten ==
    ASSUME NamesOK, log' = log, containers' \subseteq containers,
           \A r \in Runs : provisioned'[r] \subseteq provisioned[r] \cup containers
                          /\ sandbox'[r] \in {sandbox[r], NoSandbox} \cup containers
    PROVE  NamesOK'
<1>1. PICK b \in Nat : NamesBounded(b)
      BY DEF NamesOK
<1>2. containers' \subseteq 0..b
      BY <1>1 DEF NamesBounded
<1>3. \A r \in Runs : provisioned'[r] \subseteq 0..b
      BY <1>1 DEF NamesBounded
<1>4. 0 \in 0..b
      BY <1>1
<1>5. \A r \in Runs : sandbox'[r] \in 0..b
      BY <1>1, <1>4 DEF NamesBounded, NoSandbox
<1>6. \A n \in DOMAIN log' : log'[n].sandbox \in 0..b
      BY <1>1 DEF NamesBounded
<1>.  QED  BY <1>1, <1>2, <1>3, <1>5, <1>6 DEF NamesOK, NamesBounded

\* The next name is a name, and above those there are.
LEMMA NewSandboxType ==
    ASSUME NamesOK
    PROVE  NewSandbox \in Nat
<1>.  DEFINE names == {NoSandbox} \cup containers \cup (UNION {provisioned[r] : r \in Runs})
                     \cup {log[n].sandbox : n \in DOMAIN log}
<1>1. PICK b \in Nat : names \subseteq 0..b
  <2>1. PICK b \in Nat : NamesBounded(b)
        BY DEF NamesOK
  <2>2. /\ 0 \in 0..b /\ containers \subseteq 0..b
        /\ \A r \in Runs : provisioned[r] \subseteq 0..b
        /\ \A n \in DOMAIN log : log[n].sandbox \in 0..b
        BY <2>1 DEF NamesBounded
  <2>3. names \subseteq 0..b
        BY <2>2 DEF NoSandbox
  <2>.  QED  BY <2>3
<1>2. names # {}
      OBVIOUS
<1>3. NewSandbox = Max(names) + 1
      BY DEF NewSandbox
<1>.  HIDE DEF names
<1>4. Max(names) \in names
      BY <1>1, <1>2, MaxOfBounded
<1>5. \A id \in names : id \in Nat
      BY <1>1
<1>6. Max(names) \in Nat
      BY <1>4, <1>5
<1>.  QED  BY <1>3, <1>6

\* ... and taking it leaves them bounded.
LEMMA NamesGrow ==
    ASSUME NamesOK, log' = log, NEW r \in Runs, TypeOK,
           containers' = containers \cup {NewSandbox},
           sandbox' = [sandbox EXCEPT ![r] = NewSandbox],
           provisioned' = [provisioned EXCEPT ![r] = @ \cup {NewSandbox}]
    PROVE  NamesOK'
<1>1. PICK b \in Nat : NamesBounded(b)
      BY DEF NamesOK
<1>.  DEFINE c == IF b <= NewSandbox THEN NewSandbox ELSE b
<1>2. c \in Nat /\ 0..b \subseteq 0..c /\ NewSandbox \in 0..c
      BY NewSandboxType
<1>.  HIDE DEF c
<1>3. sandbox \in [Runs -> Nat] /\ provisioned \in [Runs -> SUBSET Nat]
      BY DEF TypeOK
<1>4. containers' \subseteq 0..c
      BY <1>1, <1>2 DEF NamesBounded
<1>5. \A q \in Runs : provisioned'[q] \subseteq 0..c /\ sandbox'[q] \in 0..c
      BY <1>1, <1>2, <1>3 DEF NamesBounded
<1>6. \A n \in DOMAIN log' : log'[n].sandbox \in 0..c
      BY <1>1, <1>2 DEF NamesBounded
<1>.  QED  BY <1>2, <1>4, <1>5, <1>6 DEF NamesOK, NamesBounded

-----------------------------------------------------------------------------
(* The steps keep the types *)

LEMMA InitTypes ==
    ASSUME Init
    PROVE  TypeOK /\ NamesOK
<1>1. log \in Seq(Event) /\ Len(log) = 0
      BY DEF Init
<1>4. calls \in [Runs -> Seq(Nat)]
      BY DEF Init
<1>5. read \in [Runs -> 0..Len(log)] /\ turn \in [Runs -> 0..MaxTurns]
      /\ chunks \in [Runs -> 0..MaxChunks] /\ faults \in 0..MaxFaults
      BY <1>1, HarnessAssumption DEF Init
<1>6. TypeOK
      BY <1>1, <1>4, <1>5 DEF Init, TypeOK, NoSandbox
<1>2. NamesBounded(0)
      BY DEF Init, NamesBounded, NoSandbox
<1>.  QED  BY <1>2, <1>6 DEF NamesOK

\* A fault is counted.
LEMMA FaultTypes ==
    ASSUME TypeOK, Fault
    PROVE  faults' \in 0..MaxFaults /\ quiet' \in BOOLEAN
<1>1. faults \in Nat /\ faults < MaxFaults /\ faults' = faults + 1
      BY HarnessAssumption DEF TypeOK, Fault
<1>2. faults' \in 0..MaxFaults
      BY <1>1, HarnessAssumption
<1>3. quiet' \in BOOLEAN
      BY DEF Fault
<1>.  QED  BY <1>2, <1>3

\* Users, and the death of the process.
LEMMA TypesOfUsers ==
    ASSUME TypeOK, NamesOK, SendUser \/ CompleteByUser \/ Crash
    PROVE  TypeOK' /\ NamesOK'
<1>1. CASE SendUser
  <2>1. Plain("user") \in Event /\ Plain("user").sandbox = NoSandbox
        BY EventsAreEvents
  <2>2. log' \in Seq(Event) /\ Len(log) \in Nat /\ Len(log') = Len(log) + 1
        BY <1>1, <2>1, AppendGrows DEF SendUser, TypeOK
  <2>3. read \in [Runs -> 0..Len(log')]
        BY <2>2 DEF TypeOK
  <2>4. quiet' \in BOOLEAN
        BY <1>1 DEF SendUser
  <2>5. TypeOK'
        BY <1>1, <2>2, <2>3, <2>4 DEF SendUser, TypeOK, runVars, boxVars
  <2>.  QED  BY <1>1, <2>1, <2>5, NamesKept DEF SendUser
<1>2. CASE CompleteByUser
      BY <1>2, NamesKept DEF CompleteByUser, TypeOK, runVars, boxVars
<1>3. CASE Crash
  <2>1. faults' \in 0..MaxFaults /\ quiet' \in BOOLEAN
        BY <1>3, FaultTypes DEF Crash
  <2>2. TypeOK'
        BY <1>3, <2>1 DEF Crash, TypeOK, runVars, Going
  <2>.  QED  BY <1>3, <2>2, NamesForgotten DEF Crash
<1>.  QED  BY <1>1, <1>2, <1>3

\* The steps of a run that emit nothing and meet no fault.
LEMMA TypesOfRun ==
    ASSUME TypeOK, NamesOK, NEW r \in Runs,
           \/ Start(r) \/ TurnBegin(r) \/ TurnsOver(r) \/ Reread(r) \/ ToolWithoutSandbox(r)
           \/ ToolFindsSandbox(r) \/ Provision(r) \/ ProvisionFails(r) \/ Execute(r)
           \/ DestroySandbox(r) \/ Destroyed(r) \/ MarkComplete(r)
    PROVE  TypeOK' /\ NamesOK'
<1>.  USE DEF runVars, boxVars, histVars, Goto
<1>1. CASE Start(r)
  <2>1. quiet' \in BOOLEAN
        BY <1>1 DEF Start
  <2>.  QED  BY <1>1, <2>1, NamesKept DEF Start, TypeOK
<1>2. CASE TurnBegin(r)
  <2>1. PageEnd \in 0..Len(log)
        BY PageEndType
  <2>2. turn' \in [Runs -> 0..MaxTurns]
        BY <1>2, HarnessAssumption DEF TurnBegin, TypeOK
  <2>3. /\ read' \in [Runs -> 0..Len(log)]
        /\ \E step \in {"compact", "stream", "destroy"} : pc' = [pc EXCEPT ![r] = step]
        BY <1>2, <2>1 DEF TurnBegin, Respond, TypeOK
  <2>4. chunks' \in [Runs -> 0..MaxChunks] /\ text' \in [Runs -> BOOLEAN]
        BY <1>2, HarnessAssumption DEF TurnBegin, TypeOK
  <2>5. TypeOK'
        BY <1>2, <2>2, <2>3, <2>4 DEF TurnBegin, TypeOK
  <2>.  QED  BY <1>2, <2>5, NamesKept DEF TurnBegin
<1>3. CASE TurnsOver(r)
      BY <1>3, NamesKept DEF TurnsOver, TypeOK
<1>4. CASE Reread(r)
  <2>1. PageEnd \in 0..Len(log)
        BY PageEndType
  <2>2. /\ read' \in [Runs -> 0..Len(log)]
        /\ \E step \in {"stream", "destroy"} : pc' = [pc EXCEPT ![r] = step]
        BY <1>4, <2>1 DEF Reread, Respond, TypeOK
  <2>3. TypeOK'
        BY <1>4, <2>2 DEF Reread, TypeOK
  <2>.  QED  BY <1>4, <2>3, NamesKept DEF Reread
<1>5. CASE ToolWithoutSandbox(r)
      BY <1>5, NamesKept DEF ToolWithoutSandbox, TypeOK
<1>6. CASE ToolFindsSandbox(r)
  <2>.  DEFINE latest == LatestSandbox(Prefix(PageEnd))
  <2>1. \/ latest \in containers /\ sandbox' = [sandbox EXCEPT ![r] = latest]
           /\ provisioned' = [provisioned EXCEPT ![r] = @ \cup {latest}]
           /\ pc' = [pc EXCEPT ![r] = "execute"]
        \/ sandbox' = sandbox /\ provisioned' = provisioned
           /\ pc' = [pc EXCEPT ![r] = "provision"]
        BY <1>6 DEF ToolFindsSandbox
  <2>.  HIDE DEF latest
  <2>2. pc[r] = "tool" /\ UNCHANGED <<log, completed, turn, read, chunks, text, calls,
                                     containers, failed, faults, quiet, abandoned>>
        BY <1>6 DEF ToolFindsSandbox
  <2>3. /\ sandbox' \in [Runs -> Nat] /\ provisioned' \in [Runs -> SUBSET Nat]
        /\ \E step \in {"execute", "provision"} : pc' = [pc EXCEPT ![r] = step]
    <3>1. /\ sandbox \in [Runs -> Nat] /\ provisioned \in [Runs -> SUBSET Nat]
          /\ containers \subseteq Nat
          BY DEF TypeOK
    <3>2. CASE latest \in containers /\ sandbox' = [sandbox EXCEPT ![r] = latest]
               /\ provisioned' = [provisioned EXCEPT ![r] = @ \cup {latest}]
               /\ pc' = [pc EXCEPT ![r] = "execute"]
      <4>1. latest \in Nat /\ sandbox' \in [Runs -> Nat]
            BY <3>1, <3>2
      <4>2. provisioned' \in [Runs -> SUBSET Nat]
            BY <3>1, <3>2, <4>1
      <4>.  QED  BY <3>2, <4>1, <4>2
    <3>.  QED  BY <2>1, <3>1, <3>2
  <2>4. TypeOK'
        BY <2>2, <2>3 DEF TypeOK
  <2>5. \A q \in Runs : provisioned'[q] \subseteq provisioned[q] \cup containers
                        /\ sandbox'[q] \in {sandbox[q], NoSandbox} \cup containers
        BY <2>1 DEF TypeOK
  <2>.  QED  BY <2>2, <2>4, <2>5, NamesForgotten
<1>7. CASE Provision(r)
  <2>1. NewSandbox \in Nat
        BY NewSandboxType
  <2>2. TypeOK'
        BY <1>7, <2>1 DEF Provision, TypeOK
  <2>.  QED  BY <1>7, <2>2, NamesGrow DEF Provision
<1>8. CASE ProvisionFails(r)
      BY <1>8, NamesKept DEF ProvisionFails, TypeOK
<1>9. CASE Execute(r)
  <2>1. containers' \subseteq containers
        BY <1>9 DEF Execute
  <2>2. TypeOK'
        BY <1>9, <2>1 DEF Execute, TypeOK
  <2>.  QED  BY <1>9, <2>1, <2>2, NamesForgotten DEF Execute
<1>10. CASE DestroySandbox(r)
  <2>1. PICK id \in provisioned[r] : /\ provisioned' = [provisioned EXCEPT ![r] = @ \ {id}]
                                    /\ containers' = containers \ {id}
        BY <1>10 DEF DestroySandbox
  <2>2. TypeOK'
        BY <1>10, <2>1 DEF DestroySandbox, TypeOK
  <2>3. \A q \in Runs : provisioned'[q] \subseteq provisioned[q]
        BY <2>1 DEF TypeOK
  <2>.  QED  BY <1>10, <2>1, <2>2, <2>3, NamesForgotten DEF DestroySandbox
<1>11. CASE Destroyed(r)
      BY <1>11, NamesKept DEF Destroyed, TypeOK
<1>12. CASE MarkComplete(r)
      BY <1>12, NamesKept DEF MarkComplete, TypeOK
<1>.  QED  BY <1>1, <1>2, <1>3, <1>4, <1>5, <1>6, <1>7, <1>8, <1>9, <1>10, <1>11, <1>12

\* A chunk is counted.
LEMMA ChunkTypes ==
    ASSUME TypeOK, NEW r \in Runs, NextChunk(r)
    PROVE  chunks' \in [Runs -> 0..MaxChunks]
BY HarnessAssumption DEF TypeOK, NextChunk

\* What TypeOK' needs of the variables that a step through emit_event does not name.
LEMMA TypesAfterEmit ==
    ASSUME TypeOK, NEW r \in Runs, NEW step \in Steps,
           pc' = [pc EXCEPT ![r] = step], step \in Answering => calls'[r] # <<>>,
           \A q \in Runs \ {r} : calls'[q] = calls[q],
           log' \in Seq(Event), Len(log) \in Nat, Len(log') \in Nat, Len(log) <= Len(log'),
           UNCHANGED <<completed, turn, read, provisioned, containers, faults, abandoned>>,
           quiet' \in BOOLEAN, failed' \in [Runs -> BOOLEAN], text' \in [Runs -> BOOLEAN],
           chunks' \in [Runs -> 0..MaxChunks], calls' \in [Runs -> Seq(Nat)],
           sandbox' \in [Runs -> Nat]
    PROVE  TypeOK'
<1>1. pc' \in [Runs -> Steps]
      BY DEF TypeOK, Steps
<1>2. read' \in [Runs -> 0..Len(log')]
      BY DEF TypeOK
<1>3. \A q \in Runs : pc'[q] \in Answering => calls'[q] # <<>>
      BY DEF TypeOK, Answering, Steps
<1>.  QED  BY <1>1, <1>2, <1>3 DEF TypeOK, Steps, Answering

\* The steps of a run that may emit an event.
LEMMA TypesOfEmits ==
    ASSUME TypeOK, NamesOK, NEW r \in Runs,
           \/ Seed(r) \/ Compact(r) \/ TextDelta(r) \/ ToolCallEnd(r) \/ ErrorChunk(r)
           \/ EndTurn(r) \/ RecordSandbox(r) \/ Result(r)
    PROVE  TypeOK' /\ NamesOK'
<1>.  USE DEF runVars, boxVars, histVars, Goto
<1>0. /\ log \in Seq(Event) /\ Len(log) \in Nat /\ pc \in [Runs -> Steps]
      /\ calls \in [Runs -> Seq(Nat)] /\ sandbox \in [Runs -> Nat]
      /\ completed \in BOOLEAN /\ quiet \in BOOLEAN /\ failed \in [Runs -> BOOLEAN]
      /\ text \in [Runs -> BOOLEAN] /\ chunks \in [Runs -> 0..MaxChunks]
      BY DEF TypeOK, Steps
<1>1. CASE Seed(r)
  <2>1. Plain("prompt") \in Event /\ Plain("prompt").sandbox = NoSandbox
        BY EventsAreEvents
  <2>2. \/ log' = log
        \/ log' = Append(log, Plain("prompt"))
        BY <1>1 DEF Seed
  <2>3. log' \in Seq(Event) /\ Len(log') \in Nat /\ Len(log) <= Len(log')
        BY <1>0, <2>1, <2>2, AppendGrows
  <2>4. \E step \in {"top", "done"} : pc' = [pc EXCEPT ![r] = step]
        BY <1>1 DEF Seed
  <2>5. TypeOK'
        BY <1>0, <1>1, <2>3, <2>4, TypesAfterEmit DEF Seed, Steps, Answering
  <2>.  QED  BY <1>1, <2>1, <2>2, <2>5, NamesKept DEF Seed
<1>2. CASE Compact(r)
  <2>.  DEFINE dropped == PlanTruncate(Prefix(read[r]), View(Prefix(read[r])))
               e == Ev("compaction", 0, NoSandbox, dropped)
  <2>1. dropped \in SUBSET Nat
    <3>1. read[r] \in 0..Len(log)
          BY DEF TypeOK
    <3>.  QED  BY <3>1, PlanType
  <2>2. /\ \/ log' = log /\ failed' = failed /\ pc' = [pc EXCEPT ![r] = "reread"]
           \/ Emit(r, e, "reread")
        /\ UNCHANGED <<completed, turn, read, chunks, text, calls, sandbox, provisioned,
                       containers, faults, quiet, abandoned>>
        BY <1>2 DEF Compact
  <2>.  HIDE DEF dropped
  <2>3. e \in Event /\ e.sandbox = NoSandbox
        BY <2>1, EventsAreEvents DEF NoSandbox
  <2>.  HIDE DEF e
  <2>4. /\ log' = log \/ log' = Append(log, e)
        /\ log' \in Seq(Event) /\ Len(log') \in Nat /\ Len(log) <= Len(log')
        /\ \E step \in {"reread", "destroy"} : pc' = [pc EXCEPT ![r] = step]
        /\ failed' \in [Runs -> BOOLEAN]
    <3>1. CASE Emit(r, e, "reread")
          BY <2>3, <3>1, EmitShape DEF Steps
    <3>.  QED  BY <1>0, <2>2, <3>1
  <2>5. TypeOK'
        BY <1>0, <2>2, <2>4, TypesAfterEmit DEF Steps, Answering
  <2>.  QED  BY <2>2, <2>3, <2>4, <2>5, NamesKept
<1>3. CASE TextDelta(r)
  <2>1. Plain("delta") \in Event /\ Plain("delta").sandbox = NoSandbox
        BY EventsAreEvents
  <2>2. Emit(r, Plain("delta"), "stream")
        BY <1>3 DEF TextDelta
  <2>3. chunks' \in [Runs -> 0..MaxChunks]
        BY <1>3, ChunkTypes DEF TextDelta
  <2>4. text' \in [Runs -> BOOLEAN]
        BY <1>0, <1>3 DEF TextDelta
  <2>5. TypeOK'
        BY <1>0, <1>3, <2>1, <2>2, <2>3, <2>4, EmitShape, TypesAfterEmit
        DEF TextDelta, Steps, Answering
  <2>.  QED  BY <1>3, <2>1, <2>2, <2>5, EmitShape, NamesKept DEF TextDelta, Steps
<1>4. CASE ToolCallEnd(r)
  <2>.  DEFINE e == Ev("call", CallId(r), NoSandbox, {})
  <2>1. e \in Event /\ e.sandbox = NoSandbox /\ CallId(r) \in Nat
        BY <1>0, EventsAreEvents DEF CallId, NoSandbox
  <2>.  HIDE DEF e
  <2>2. Emit(r, e, "stream")
        BY <1>4 DEF ToolCallEnd, e
  <2>3. chunks' \in [Runs -> 0..MaxChunks]
        BY <1>4, ChunkTypes DEF ToolCallEnd
  <2>4. calls' \in [Runs -> Seq(Nat)] /\ \A q \in Runs \ {r} : calls'[q] = calls[q]
        BY <1>0, <1>4, <2>1 DEF ToolCallEnd
  <2>5. TypeOK'
        BY <1>0, <1>4, <2>1, <2>2, <2>3, <2>4, EmitShape, TypesAfterEmit
        DEF ToolCallEnd, Steps, Answering
  <2>.  QED  BY <1>4, <2>1, <2>2, <2>5, EmitShape, NamesKept DEF ToolCallEnd, Steps
<1>5. CASE ErrorChunk(r)
  <2>1. Plain("error") \in Event /\ Plain("error").sandbox = NoSandbox
        BY EventsAreEvents
  <2>2. Emit(r, Plain("error"), "destroy")
        BY <1>5 DEF ErrorChunk
  <2>3. chunks' \in [Runs -> 0..MaxChunks]
        BY <1>5, ChunkTypes DEF ErrorChunk
  <2>4. TypeOK'
        BY <1>0, <1>5, <2>1, <2>2, <2>3, EmitShape, TypesAfterEmit
        DEF ErrorChunk, Steps, Answering
  <2>.  QED  BY <1>5, <2>1, <2>2, <2>4, EmitShape, NamesKept DEF ErrorChunk, Steps
<1>6. CASE EndTurn(r)
  <2>.  DEFINE step == IF calls[r] = <<>> THEN "destroy" ELSE "tool"
  <2>1. Plain("closer") \in Event /\ Plain("closer").sandbox = NoSandbox
        BY EventsAreEvents
  <2>2. /\ \/ Emit(r, Plain("closer"), step)
           \/ log' = log /\ failed' = failed /\ pc' = [pc EXCEPT ![r] = step]
        /\ UNCHANGED <<completed, turn, read, chunks, text, calls, sandbox, provisioned,
                       containers, faults, quiet, abandoned>>
        BY <1>6 DEF EndTurn
  <2>3. step \in Steps /\ (step \in Answering => calls'[r] # <<>>)
        BY <2>2 DEF Steps, Answering
  <2>.  HIDE DEF step
  <2>4. /\ log' = log \/ log' = Append(log, Plain("closer"))
        /\ log' \in Seq(Event) /\ Len(log') \in Nat /\ Len(log) <= Len(log')
        /\ \E to \in {step, "destroy"} : pc' = [pc EXCEPT ![r] = to]
        /\ failed' \in [Runs -> BOOLEAN]
    <3>1. CASE Emit(r, Plain("closer"), step)
          BY <2>1, <2>3, <3>1, EmitShape
    <3>.  QED  BY <1>0, <2>2, <3>1
  <2>5. TypeOK'
        BY <1>0, <2>2, <2>3, <2>4, TypesAfterEmit DEF Steps, Answering
  <2>.  QED  BY <2>1, <2>2, <2>4, <2>5, NamesKept
<1>7. CASE RecordSandbox(r)
  <2>.  DEFINE e == Ev("sandbox", 0, sandbox[r], {})
  <2>1. e \in Event /\ e.sandbox = sandbox[r]
        BY <1>0, EventsAreEvents
  <2>.  HIDE DEF e
  <2>2. /\ pc[r] = "record"
        /\ log' = log \/ log' = Append(log, e)
        /\ \E to \in {"result", "execute"} : pc' = [pc EXCEPT ![r] = to]
        /\ UNCHANGED <<completed, turn, read, chunks, text, calls, sandbox, provisioned,
                       containers, failed, faults, quiet, abandoned>>
        BY <1>7 DEF RecordSandbox, e
  <2>3. log' \in Seq(Event) /\ Len(log') \in Nat /\ Len(log) <= Len(log')
        BY <1>0, <2>1, <2>2, AppendGrows
  <2>4. calls'[r] # <<>>
        BY <2>2 DEF TypeOK
  <2>5. TypeOK'
        BY <1>0, <2>2, <2>3, <2>4, TypesAfterEmit DEF Steps
  <2>.  QED  BY <2>1, <2>2, <2>5, NamesKept
<1>8. CASE Result(r)
  <2>.  DEFINE e == Ev("result", Head(calls[r]), NoSandbox, {})
               step == IF Len(calls[r]) = 1 THEN "top" ELSE "tool"
  <2>1. /\ pc[r] = "result" /\ Emit(r, e, step)
        /\ calls' = [calls EXCEPT ![r] = Tail(@)]
        /\ sandbox' = [sandbox EXCEPT ![r] = NoSandbox]
        /\ UNCHANGED <<completed, turn, read, chunks, text, provisioned, containers, faults,
                       quiet, abandoned>>
        BY <1>8 DEF Result
  <2>2. calls[r] # <<>> /\ calls[r] \in Seq(Nat)
        BY <2>1 DEF TypeOK
  <2>3. Head(calls[r]) \in Nat /\ Tail(calls[r]) \in Seq(Nat)
        BY <2>2
  <2>4. e \in Event /\ e.sandbox = NoSandbox
        BY <2>3, EventsAreEvents DEF NoSandbox
  <2>5. calls' \in [Runs -> Seq(Nat)] /\ \A q \in Runs \ {r} : calls'[q] = calls[q]
        BY <1>0, <2>1, <2>3
  <2>6. step \in Steps /\ (step \in Answering => calls'[r] # <<>>)
    <3>1. Len(calls[r]) \in Nat /\ Len(Tail(calls[r])) = Len(calls[r]) - 1
          BY <2>2
    <3>2. ASSUME Len(calls[r]) # 1, Tail(calls[r]) = <<>>
          PROVE  FALSE
      <4>1. Len(<<>>) = 0
            OBVIOUS
      <4>2. Len(Tail(calls[r])) = 0
            BY <3>2, <4>1, Zenon
      <4>3. calls[r] = <<>>
            BY <2>2, <3>1, <3>2, <4>2
      <4>.  QED  BY <2>2, <4>3
    <3>3. calls'[r] = Tail(calls[r])
          BY <1>0, <2>1
    <3>4. Len(calls[r]) # 1 => calls'[r] # <<>>
          BY <3>2, <3>3
    <3>.  QED  BY <3>4 DEF Steps, Answering
  <2>7. sandbox' \in [Runs -> Nat]
        BY <1>0, <2>1 DEF NoSandbox
  <2>.  HIDE DEF e, step
  <2>8. TypeOK'
    <3>1. /\ log' \in Seq(Event) /\ Len(log') \in Nat /\ Len(log) <= Len(log')
          /\ \E to \in {step, "destroy"} : pc' = [pc EXCEPT ![r] = to]
          /\ failed' \in [Runs -> BOOLEAN]
          BY <2>1, <2>4, <2>6, EmitShape
    <3>.  QED  BY <1>0, <2>1, <2>5, <2>6, <2>7, <3>1, TypesAfterEmit DEF Steps, Answering
  <2>9. NamesOK'
    <3>1. PICK b \in Nat : NamesBounded(b)
          BY DEF NamesOK
    <3>2. \A n \in DOMAIN log' : log'[n].sandbox \in 0..b
      <4>1. IF completed THEN log' = log ELSE log' = Append(log, e)
            BY <2>1, <2>4, <2>6, EmitShape
      <4>2. CASE log' = log
            BY <3>1, <4>2 DEF NamesBounded
      <4>3. CASE log' = Append(log, e)
        <5>1. /\ DOMAIN log' = 1..(Len(log) + 1) /\ DOMAIN log = 1..Len(log)
              /\ log'[Len(log) + 1] = e /\ \A n \in DOMAIN log : log'[n] = log[n]
              BY <1>0, <2>4, <4>3, AppendGrows
        <5>2. \A n \in DOMAIN log' : n \in DOMAIN log \/ n = Len(log) + 1
              BY <1>0, <5>1
        <5>.  QED  BY <2>4, <3>1, <5>1, <5>2 DEF NamesBounded, NoSandbox
      <4>.  QED  BY <4>1, <4>2, <4>3
    <3>3. \A q \in Runs : sandbox'[q] \in 0..b
          BY <1>0, <2>1, <3>1 DEF NamesBounded, NoSandbox
    <3>.  QED  BY <2>1, <3>1, <3>2, <3>3 DEF NamesOK, NamesBounded
  <2>.  QED  BY <2>8, <2>9
<1>.  QED  BY <1>1, <1>2, <1>3, <1>4, <1>5, <1>6, <1>7, <1>8

\* A cancelled run.
LEMMA TypesOfCancels ==
    ASSUME TypeOK, NamesOK, NEW r \in Runs, Cancel(r) \/ CancelDestroy(r)
    PROVE  TypeOK' /\ NamesOK'
<1>.  USE DEF runVars, boxVars, Goto
<1>0. faults' \in 0..MaxFaults /\ quiet' \in BOOLEAN
      BY FaultTypes DEF Cancel, CancelDestroy
<1>1. CASE Cancel(r)
  <2>1. /\ \E to \in {"done", "destroy"} : pc' = [pc EXCEPT ![r] = to]
        /\ failed' \in [Runs -> BOOLEAN]
        BY <1>1 DEF Cancel, Raise, TypeOK
  <2>2. TypeOK'
        BY <1>0, <1>1, <2>1 DEF Cancel, TypeOK
  <2>.  QED  BY <1>1, <2>2, NamesKept DEF Cancel
<1>2. CASE CancelDestroy(r)
  <2>1. TypeOK'
        BY <1>0, <1>2 DEF CancelDestroy, TypeOK
  <2>2. \A q \in Runs : provisioned'[q] \subseteq provisioned[q]
        BY <1>2 DEF CancelDestroy, TypeOK
  <2>.  QED  BY <1>2, <2>1, <2>2, NamesForgotten DEF CancelDestroy
<1>.  QED  BY <1>1, <1>2

LEMMA TypesStep ==
    ASSUME TypeOK, NamesOK, [Next]_vars
    PROVE  TypeOK' /\ NamesOK'
<1>1. CASE UNCHANGED vars
  <2>1. TypeOK'
        BY <1>1 DEF vars, runVars, boxVars, histVars, TypeOK
  <2>.  QED  BY <1>1, <2>1, NamesKept DEF vars, boxVars
<1>2. CASE SendUser \/ CompleteByUser \/ Crash
      BY <1>2, TypesOfUsers
<1>3. ASSUME NEW r \in Runs, Start(r) \/ RunStep(r) \/ Cancel(r) \/ CancelDestroy(r)
      PROVE  TypeOK' /\ NamesOK'
      BY <1>3, TypesOfRun, TypesOfEmits, TypesOfCancels DEF RunStep
<1>.  QED  BY <1>1, <1>2, <1>3 DEF Next

-----------------------------------------------------------------------------
(* What a step does to the log and to the calls to be answered *)

\* It leaves both alone, or appends an event that is neither call nor result: a user's,
\* the prompt if there is none, or one of a run past Seed.
QuietStep ==
    /\ calls' = calls
    /\ \/ log' = log
       \/ \E e \in Event :
             /\ log' = Append(log, e)
             /\ \/ e.kind = "user"
                \/ e.kind = "prompt" /\ Positions("prompt") = {}
                \/ /\ e.kind \notin {"user", "prompt", "call", "result"}
                   /\ \E r \in Runs : PastSeed(r)

\* It appends a tool call, for the run to answer.
CallStep(r) ==
    /\ PastSeed(r)
    /\ \E e \in Event : /\ log' = Append(log, e)
                        /\ e.kind = "call" /\ e.call = Len(log) + 1
    /\ calls' = [calls EXCEPT ![r] = Append(@, Len(log) + 1)]

\* It answers the first call of a run, or loses it to a completed session.
ResultStep(r) ==
    /\ PastSeed(r) /\ calls[r] # <<>>
    /\ \/ completed /\ log' = log
       \/ \E e \in Event : /\ log' = Append(log, e)
                           /\ e.kind = "result" /\ e.call = Head(calls[r])
    /\ calls' = [calls EXCEPT ![r] = Tail(@)]

LEMMA EmitIsQuiet ==
    ASSUME TypeOK, NEW r \in Runs, PastSeed(r), NEW e \in Event, NEW step \in Steps,
           Emit(r, e, step), e.kind \notin {"user", "prompt", "call", "result"}, calls' = calls
    PROVE  QuietStep
BY EmitShape DEF QuietStep

LEMMA StepShape ==
    ASSUME TypeOK, [Next]_vars
    PROVE  QuietStep \/ \E r \in Runs : CallStep(r) \/ ResultStep(r)
<1>.  USE DEF runVars
<1>1. CASE UNCHANGED vars
      BY <1>1 DEF vars, QuietStep
<1>2. CASE SendUser
      BY <1>2, EventsAreEvents DEF SendUser, QuietStep
<1>3. CASE CompleteByUser \/ Crash
      BY <1>3 DEF CompleteByUser, Crash, QuietStep
<1>4. ASSUME NEW r \in Runs,
             \/ Start(r) \/ TurnBegin(r) \/ TurnsOver(r) \/ Reread(r) \/ ToolWithoutSandbox(r)
             \/ ToolFindsSandbox(r) \/ Provision(r) \/ ProvisionFails(r) \/ Execute(r)
             \/ DestroySandbox(r) \/ Destroyed(r) \/ MarkComplete(r) \/ Cancel(r)
             \/ CancelDestroy(r)
      PROVE  QuietStep
      BY <1>4 DEF Start, TurnBegin, TurnsOver, Reread, ToolWithoutSandbox, ToolFindsSandbox,
                  Provision, ProvisionFails, Execute, DestroySandbox, Destroyed, MarkComplete,
                  Cancel, CancelDestroy, QuietStep
<1>5. ASSUME NEW r \in Runs, Seed(r)
      PROVE  QuietStep
      BY <1>5, EventsAreEvents DEF Seed, QuietStep, Positions
<1>6. ASSUME NEW r \in Runs, Compact(r)
      PROVE  QuietStep
  <2>.  DEFINE dropped == PlanTruncate(Prefix(read[r]), View(Prefix(read[r])))
               e == Ev("compaction", 0, NoSandbox, dropped)
  <2>1. dropped \in SUBSET Nat
    <3>1. read[r] \in 0..Len(log)
          BY DEF TypeOK
    <3>.  QED  BY <3>1, PlanType
  <2>2. /\ pc[r] = "compact" /\ calls' = calls
        /\ log' = log \/ Emit(r, e, "reread")
        BY <1>6 DEF Compact
  <2>.  HIDE DEF dropped
  <2>3. e \in Event /\ e.kind = "compaction"
        BY <2>1, EventsAreEvents DEF NoSandbox
  <2>.  HIDE DEF e
  <2>4. PastSeed(r) /\ "reread" \in Steps
        BY <2>2 DEF PastSeed, Steps
  <2>5. CASE log' = log
        BY <2>2, <2>5 DEF QuietStep
  <2>6. CASE Emit(r, e, "reread")
        BY <2>2, <2>3, <2>4, <2>6, EmitIsQuiet
  <2>.  QED  BY <2>2, <2>5, <2>6
<1>7. ASSUME NEW r \in Runs, TextDelta(r) \/ ErrorChunk(r)
      PROVE  QuietStep
  <2>1. PastSeed(r) /\ calls' = calls
        BY <1>7 DEF TextDelta, ErrorChunk, NextChunk, PastSeed
  <2>2. \E kind \in {"delta", "error"}, step \in {"stream", "destroy"} : Emit(r, Plain(kind), step)
        BY <1>7 DEF TextDelta, ErrorChunk
  <2>.  QED  BY <2>1, <2>2, EventsAreEvents, EmitIsQuiet DEF Steps
<1>8. ASSUME NEW r \in Runs, EndTurn(r)
      PROVE  QuietStep
  <2>1. PastSeed(r) /\ calls' = calls
        BY <1>8 DEF EndTurn, PastSeed
  <2>2. \/ log' = log
        \/ \E step \in {"tool", "destroy"} : Emit(r, Plain("closer"), step)
        BY <1>8 DEF EndTurn
  <2>3. CASE log' = log
        BY <2>1, <2>3 DEF QuietStep
  <2>4. ASSUME NEW step \in {"tool", "destroy"}, Emit(r, Plain("closer"), step)
        PROVE  QuietStep
        BY <2>1, <2>4, EventsAreEvents, EmitIsQuiet DEF Steps
  <2>.  QED  BY <2>2, <2>3, <2>4
<1>9. ASSUME NEW r \in Runs, RecordSandbox(r)
      PROVE  QuietStep
  <2>1. PastSeed(r) /\ calls' = calls /\ sandbox[r] \in Nat
        BY <1>9 DEF RecordSandbox, PastSeed, TypeOK
  <2>2. log' = log \/ log' = Append(log, Ev("sandbox", 0, sandbox[r], {}))
        BY <1>9 DEF RecordSandbox
  <2>.  QED  BY <2>1, <2>2, EventsAreEvents DEF QuietStep
<1>10. ASSUME NEW r \in Runs, ToolCallEnd(r)
       PROVE  QuietStep \/ CallStep(r)
  <2>.  DEFINE e == Ev("call", CallId(r), NoSandbox, {})
  <2>1. /\ PastSeed(r) /\ Emit(r, e, "stream")
        /\ calls' = [calls EXCEPT ![r] = IF completed THEN @ ELSE Append(@, CallId(r))]
        BY <1>10 DEF ToolCallEnd, NextChunk, PastSeed
  <2>2. CallId(r) = Len(log) + 1 /\ CallId(r) \in Nat /\ calls \in [Runs -> Seq(Nat)]
        BY DEF CallId, TypeOK
  <2>3. e \in Event /\ e.kind = "call" /\ e.call = CallId(r)
        BY <2>2, EventsAreEvents DEF NoSandbox
  <2>.  HIDE DEF e
  <2>4. IF completed THEN log' = log ELSE log' = Append(log, e)
        BY <2>1, <2>3, EmitShape DEF Steps
  <2>5. CASE completed
        BY <2>1, <2>2, <2>4, <2>5 DEF QuietStep
  <2>6. CASE ~ completed
        BY <2>1, <2>2, <2>3, <2>4, <2>6 DEF CallStep
  <2>.  QED  BY <2>5, <2>6
<1>11. ASSUME NEW r \in Runs, Result(r)
       PROVE  ResultStep(r)
  <2>.  DEFINE e == Ev("result", Head(calls[r]), NoSandbox, {})
               step == IF Len(calls[r]) = 1 THEN "top" ELSE "tool"
  <2>1. pc[r] = "result" /\ Emit(r, e, step) /\ calls' = [calls EXCEPT ![r] = Tail(@)]
        BY <1>11 DEF Result
  <2>2. calls[r] # <<>> /\ calls[r] \in Seq(Nat) /\ PastSeed(r)
        BY <2>1 DEF TypeOK, PastSeed
  <2>3. e \in Event /\ e.kind = "result" /\ e.call = Head(calls[r])
        BY <2>2, EventsAreEvents DEF NoSandbox
  <2>4. step \in Steps
        BY DEF Steps
  <2>.  HIDE DEF e, step
  <2>5. IF completed THEN log' = log ELSE log' = Append(log, e)
        BY <2>1, <2>3, <2>4, EmitShape
  <2>.  QED  BY <2>1, <2>2, <2>3, <2>5 DEF ResultStep
<1>.  QED  BY <1>1, <1>2, <1>3, <1>4, <1>5, <1>6, <1>7, <1>8, <1>9, <1>10, <1>11 DEF Next, RunStep

-----------------------------------------------------------------------------
(* The prompt *)

\* A run gets past Seed with the prompt in the log.
LEMMA PastSeedStep ==
    ASSUME TypeOK, [Next]_vars, NEW q \in Runs, pc'[q] \notin {"new", "seed", "done"}
    PROVE  PastSeed(q) \/ Positions("prompt")' # {}
<1>0. pc \in [Runs -> Steps]
      BY DEF TypeOK, Steps
<1>1. CASE UNCHANGED vars \/ SendUser \/ CompleteByUser \/ Crash
      BY <1>1 DEF vars, SendUser, CompleteByUser, Crash, PastSeed
<1>2. ASSUME NEW r \in Runs, Start(r) \/ Cancel(r)
      PROVE  PastSeed(q)
      BY <1>0, <1>2 DEF Start, Cancel, Raise, Goto, Going, PastSeed
<1>3. ASSUME NEW r \in Runs,
             \/ TurnBegin(r) \/ TurnsOver(r) \/ Compact(r) \/ Reread(r) \/ ToolWithoutSandbox(r)
             \/ ToolFindsSandbox(r) \/ Provision(r) \/ ProvisionFails(r) \/ RecordSandbox(r)
             \/ Execute(r) \/ DestroySandbox(r) \/ Destroyed(r) \/ MarkComplete(r)
             \/ CancelDestroy(r)
      PROVE  PastSeed(q)
      BY <1>0, <1>3 DEF TurnBegin, TurnsOver, Compact, Reread, Respond, ToolWithoutSandbox,
            ToolFindsSandbox, Provision, ProvisionFails, RecordSandbox, Execute, DestroySandbox,
            Destroyed, MarkComplete, CancelDestroy, Emit, Raise, Goto, PastSeed
<1>4. ASSUME NEW r \in Runs,
             TextDelta(r) \/ ToolCallEnd(r) \/ ErrorChunk(r) \/ EndTurn(r) \/ Result(r)
      PROVE  PastSeed(q)
      BY <1>0, <1>4 DEF TextDelta, ToolCallEnd, ErrorChunk, NextChunk, EndTurn, Result, Emit,
            Raise, Goto, PastSeed
<1>5. ASSUME NEW r \in Runs, Seed(r), ~ PastSeed(q)
      PROVE  Positions("prompt")' # {}
  <2>1. pc'[r] = "top" /\ q = r
        BY <1>0, <1>5 DEF Seed, Goto, PastSeed
  <2>2. CASE log' = Append(log, Plain("prompt"))
    <3>1. Plain("prompt") \in Event /\ Plain("prompt").kind = "prompt" /\ log \in Seq(Event)
          BY EventsAreEvents DEF TypeOK
    <3>2. Positions("prompt")' = Positions("prompt") \cup {Len(log) + 1}
          BY <2>2, <3>1, AppendPositions
    <3>.  QED  BY <3>2
  <2>3. CASE log' = log /\ \E n \in DOMAIN log : log[n].kind = "prompt"
        BY <2>3 DEF Positions
  <2>.  QED  BY <1>0, <1>5, <2>1, <2>2, <2>3 DEF Seed, Goto
<1>.  QED  BY <1>1, <1>2, <1>3, <1>4, <1>5 DEF Next, RunStep

\* What an appended event asks of the log for the prompt to stay the first of the runs'
\* events, and the only prompt.
LEMMA PromptAppend ==
    ASSUME TypeOK, PromptOK, NEW e \in Event, log' = Append(log, e),
           e.kind = "prompt" => Positions("prompt") = {},
           e.kind \notin {"user", "prompt"} => Positions("prompt") # {}
    PROVE  /\ \A m, n \in Positions("prompt")' : m = n
           /\ \A n \in DOMAIN log' : log'[n].kind \notin {"user", "prompt"} =>
                 \E m \in Positions("prompt")' : m < n
           /\ Positions("prompt") # {} => Positions("prompt")' # {}
<1>1. log \in Seq(Event)
      BY DEF TypeOK
<1>2. /\ Len(log) \in Nat /\ DOMAIN log = 1..Len(log) /\ DOMAIN log' = 1..(Len(log) + 1)
      /\ log'[Len(log) + 1] = e /\ \A n \in DOMAIN log : log'[n] = log[n]
      BY <1>1, AppendGrows
<1>3. Positions("prompt")' = IF e.kind = "prompt" THEN Positions("prompt") \cup {Len(log) + 1}
                             ELSE Positions("prompt")
      BY <1>1, AppendPositions
<1>4. Positions("prompt") \subseteq 1..Len(log)
      BY <1>2 DEF Positions
<1>5. \A m, n \in Positions("prompt")' : m = n
      BY <1>3 DEF PromptOK
<1>6. ASSUME NEW n \in DOMAIN log', log'[n].kind \notin {"user", "prompt"}
      PROVE  \E m \in Positions("prompt")' : m < n
  <2>1. CASE n \in DOMAIN log
    <3>1. PICK m \in Positions("prompt") : m < n
          BY <1>2, <1>6, <2>1 DEF PromptOK
    <3>.  QED  BY <1>3, <3>1
  <2>2. CASE n = Len(log) + 1
    <3>1. PICK m \in Positions("prompt") : TRUE
          BY <1>2, <1>6, <2>2
    <3>.  QED  BY <1>2, <1>3, <1>4, <2>2, <3>1
  <2>.  QED  BY <1>2, <2>1, <2>2
<1>.  QED  BY <1>3, <1>5, <1>6

LEMMA PromptStep ==
    ASSUME TypeOK, PromptOK, [Next]_vars
    PROVE  PromptOK'
<1>1. CASE log' = log
  <2>1. Positions("prompt")' = Positions("prompt")
        BY <1>1 DEF Positions
  <2>2. \A q \in Runs : PastSeed(q)' => Positions("prompt")' # {}
        BY <2>1, PastSeedStep DEF PromptOK, PastSeed
  <2>.  QED  BY <1>1, <2>1, <2>2 DEF PromptOK
<1>2. ASSUME NEW e \in Event, log' = Append(log, e),
             e.kind = "prompt" => Positions("prompt") = {},
             e.kind \notin {"user", "prompt"} => \E r \in Runs : PastSeed(r)
      PROVE  PromptOK'
  <2>1. e.kind \notin {"user", "prompt"} => Positions("prompt") # {}
        BY <1>2 DEF PromptOK
  <2>2. \A q \in Runs : PastSeed(q)' => Positions("prompt")' # {}
        BY <1>2, <2>1, PastSeedStep, PromptAppend DEF PromptOK, PastSeed
  <2>.  QED  BY <1>2, <2>1, <2>2, PromptAppend DEF PromptOK
<1>3. CASE QuietStep
      BY <1>1, <1>2, <1>3 DEF QuietStep
<1>4. ASSUME NEW r \in Runs, CallStep(r) \/ ResultStep(r)
      PROVE  PromptOK'
      BY <1>1, <1>2, <1>4 DEF CallStep, ResultStep
<1>.  QED  BY <1>3, <1>4, StepShape

-----------------------------------------------------------------------------
(* The calls and their results *)

\* A step that changes neither calls nor results among the events, nor the lists.
LEMMA CallsQuiet ==
    ASSUME TypeOK, CallsOK, QuietStep
    PROVE  CallsOK'
<1>1. log \in Seq(Event)
      BY DEF TypeOK
<1>2. CASE log' = log
      BY <1>2 DEF QuietStep, CallsOK, Positions
<1>3. ASSUME NEW e \in Event, log' = Append(log, e), e.kind \notin {"call", "result"}
      PROVE  CallsOK'
  <2>1. Positions("call")' = Positions("call") /\ Positions("result")' = Positions("result")
        BY <1>1, <1>3, AppendPositions
  <2>2. \A n \in Positions("call") \cup Positions("result") : log'[n] = log[n]
        BY <1>1, <1>3, AppendGrows DEF Positions
  <2>.  QED  BY <2>1, <2>2 DEF QuietStep, CallsOK
<1>4. log' = log \/ \E e \in Event : log' = Append(log, e) /\ e.kind \notin {"call", "result"}
      BY DEF QuietStep
<1>.  QED  BY <1>2, <1>3, <1>4

\* A new call's id is a position that no event has taken.
LEMMA CallsCall ==
    ASSUME TypeOK, CallsOK, NEW r \in Runs, CallStep(r)
    PROVE  CallsOK'
<1>.  DEFINE id == Len(log) + 1
<1>1. log \in Seq(Event) /\ calls \in [Runs -> Seq(Nat)] /\ Len(log) \in Nat
      BY DEF TypeOK
<1>2. PICK e \in Event : log' = Append(log, e) /\ e.kind = "call" /\ e.call = id
      BY DEF CallStep
<1>3. /\ DOMAIN log = 1..Len(log) /\ log'[id] = e
      /\ \A n \in DOMAIN log : log'[n] = log[n]
      BY <1>1, <1>2, AppendGrows
<1>4. /\ Positions("call")' = Positions("call") \cup {id}
      /\ Positions("result")' = Positions("result")
      BY <1>1, <1>2, AppendPositions
<1>5. Positions("call") \subseteq DOMAIN log /\ Positions("result") \subseteq DOMAIN log
      BY DEF Positions
<1>6. id \notin DOMAIN log /\ \A n \in DOMAIN log : n < id
      BY <1>1, <1>3
<1>7. /\ \A q \in Runs \ {r} : calls'[q] = calls[q]
      /\ calls'[r] = Append(calls[r], id)
      BY <1>1 DEF CallStep
<1>8. /\ Len(calls[r]) \in Nat /\ DOMAIN calls[r] = 1..Len(calls[r])
      /\ DOMAIN calls'[r] = DOMAIN calls[r] \cup {Len(calls[r]) + 1}
      /\ Len(calls[r]) + 1 \notin DOMAIN calls[r]
      /\ calls'[r][Len(calls[r]) + 1] = id
      /\ \A i \in DOMAIN calls[r] : calls'[r][i] = calls[r][i]
      BY <1>1, <1>7
<1>.  HIDE DEF id
<1>9. /\ \A n \in Positions("call")' : log'[n].call = n
      /\ \A n \in Positions("result")' : log'[n].call \in Positions("call")' /\ log'[n].call < n
      /\ \A m, n \in Positions("result")' : log'[m].call = log'[n].call => m = n
  <2>1. \A n \in Positions("call") \cup Positions("result") : log'[n] = log[n]
        BY <1>3, <1>5
  <2>2. log'[id].call = id
        BY <1>2, <1>3
  <2>3. \A n \in Positions("call")' : log'[n].call = n
        BY <1>4, <2>1, <2>2 DEF CallsOK
  <2>.  QED  BY <1>4, <2>1, <2>3 DEF CallsOK
<1>10. \A q \in Runs : \A i \in DOMAIN calls'[q] :
          \/ q = r /\ i = Len(calls[r]) + 1 /\ calls'[q][i] = id
          \/ i \in DOMAIN calls[q] /\ calls'[q][i] = calls[q][i]
       BY <1>7, <1>8
<1>11. \A q \in Runs : \A i \in DOMAIN calls[q] : calls[q][i] # id
       BY <1>5, <1>6 DEF CallsOK
<1>12. \A q \in Runs : \A i \in DOMAIN calls'[q] :
          /\ calls'[q][i] \in Positions("call")'
          /\ \A n \in Positions("result")' : log'[n].call # calls'[q][i]
  <2>1. \A n \in Positions("result") : log[n].call # id /\ log'[n] = log[n]
        BY <1>3, <1>5, <1>6 DEF CallsOK
  <2>.  QED  BY <1>4, <1>10, <2>1 DEF CallsOK
<1>13. \A p, q \in Runs : \A i \in DOMAIN calls'[p], j \in DOMAIN calls'[q] :
          calls'[p][i] = calls'[q][j] => p = q /\ i = j
       BY <1>10, <1>11 DEF CallsOK
<1>.  QED  BY <1>9, <1>12, <1>13 DEF CallsOK

\* A result takes its call off the only list that has it.
LEMMA CallsResult ==
    ASSUME TypeOK, CallsOK, NEW r \in Runs, ResultStep(r)
    PROVE  CallsOK'
<1>1. log \in Seq(Event) /\ calls \in [Runs -> Seq(Nat)] /\ Len(log) \in Nat
      BY DEF TypeOK
<1>2. /\ \A q \in Runs \ {r} : calls'[q] = calls[q]
      /\ calls'[r] = Tail(calls[r])
      BY <1>1 DEF ResultStep
<1>3. calls[r] \in Seq(Nat) /\ calls[r] # <<>>
      BY <1>1 DEF ResultStep
<1>4. /\ 1 \in DOMAIN calls[r] /\ Head(calls[r]) = calls[r][1]
      /\ \A i \in DOMAIN calls'[r] : i \in Nat /\ i + 1 \in DOMAIN calls[r] /\ i + 1 # 1
                                    /\ calls'[r][i] = calls[r][i + 1]
      BY <1>2, <1>3
<1>5. \A q \in Runs : \A i \in DOMAIN calls'[q] :
         \/ q # r /\ i \in DOMAIN calls[q] /\ calls'[q][i] = calls[q][i]
         \/ q = r /\ i \in Nat /\ i + 1 \in DOMAIN calls[q] /\ i + 1 # 1
                  /\ calls'[q][i] = calls[q][i + 1]
      BY <1>2, <1>4
<1>6. \A q \in Runs : \A i \in DOMAIN calls'[q] :
         /\ calls'[q][i] # Head(calls[r])
         /\ calls'[q][i] \in Positions("call")
         /\ \A n \in Positions("result") : log[n].call # calls'[q][i]
      BY <1>4, <1>5 DEF CallsOK
<1>7. \A p, q \in Runs : \A i \in DOMAIN calls'[p], j \in DOMAIN calls'[q] :
         calls'[p][i] = calls'[q][j] => p = q /\ i = j
  <2>  SUFFICES ASSUME NEW p \in Runs, NEW q \in Runs, NEW i \in DOMAIN calls'[p],
                       NEW j \in DOMAIN calls'[q], calls'[p][i] = calls'[q][j]
                PROVE  p = q /\ i = j
       OBVIOUS
  <2>1. p = q
        BY <1>5 DEF CallsOK
  <2>2. CASE p # r
        BY <1>5, <2>1, <2>2 DEF CallsOK
  <2>3. CASE p = r
    <3>1. i \in Nat /\ j \in Nat /\ i + 1 = j + 1
          BY <1>4, <2>1, <2>3 DEF CallsOK
    <3>.  QED  BY <2>1, <3>1
  <2>.  QED  BY <2>2, <2>3
<1>8. CASE log' = log
      BY <1>6, <1>7, <1>8 DEF CallsOK, Positions
<1>9. ASSUME NEW e \in Event, log' = Append(log, e), e.kind = "result",
             e.call = Head(calls[r])
      PROVE  CallsOK'
  <2>.  DEFINE id == Len(log) + 1
  <2>1. /\ DOMAIN log = 1..Len(log) /\ log'[id] = e
        /\ \A n \in DOMAIN log : log'[n] = log[n] /\ n < id
        BY <1>1, <1>9, AppendGrows
  <2>2. /\ Positions("call")' = Positions("call")
        /\ Positions("result")' = Positions("result") \cup {id}
        BY <1>1, <1>9, AppendPositions
  <2>3. Positions("call") \subseteq DOMAIN log /\ Positions("result") \subseteq DOMAIN log
        BY DEF Positions
  <2>.  HIDE DEF id
  <2>4. e.call \in Positions("call") /\ \A n \in Positions("result") : log[n].call # e.call
        BY <1>4, <1>9 DEF CallsOK
  <2>5. \A n \in Positions("call")' : log'[n].call = n
        BY <2>1, <2>2, <2>3 DEF CallsOK
  <2>6. \A n \in Positions("result")' : log'[n].call \in Positions("call")' /\ log'[n].call < n
        BY <2>1, <2>2, <2>3, <2>4 DEF CallsOK
  <2>7. \A m, n \in Positions("result")' : log'[m].call = log'[n].call => m = n
        BY <2>1, <2>2, <2>3, <2>4 DEF CallsOK
  <2>8. \A q \in Runs : \A i \in DOMAIN calls'[q] :
           /\ calls'[q][i] \in Positions("call")'
           /\ \A n \in Positions("result")' : log'[n].call # calls'[q][i]
        BY <1>6, <1>9, <2>1, <2>2, <2>3
  <2>.  QED  BY <1>7, <2>5, <2>6, <2>7, <2>8 DEF CallsOK
<1>.  QED  BY <1>8, <1>9 DEF ResultStep

LEMMA CallsStep ==
    ASSUME TypeOK, CallsOK, [Next]_vars
    PROVE  CallsOK'
BY StepShape, CallsQuiet, CallsCall, CallsResult

-----------------------------------------------------------------------------
(* The sandboxes *)

\* The steps that know a new sandbox, or forget one.
LEMMA OwnedBoxes ==
    ASSUME TypeOK, OwnedOK, NEW r \in Runs,
           ToolFindsSandbox(r) \/ Provision(r) \/ Execute(r) \/ DestroySandbox(r)
    PROVE  OwnedOK'
<1>0. /\ pc \in [Runs -> Steps] /\ provisioned \in [Runs -> SUBSET Nat]
      /\ containers \in SUBSET Nat
      BY DEF TypeOK, Steps
<1>1. /\ \E step \in {"provision", "execute", "record", "result", "destroy"} :
            pc' = [pc EXCEPT ![r] = step]
      /\ pc[r] \in {"tool", "provision", "execute", "destroy"}
      /\ \A q \in Runs \ {r} : provisioned'[q] = provisioned[q]
      /\ abandoned' = abandoned
      BY <1>0 DEF ToolFindsSandbox, Provision, Execute, DestroySandbox, Goto, histVars
<1>2. \A c \in containers' : c \in containers \/ c \in provisioned'[r]
      BY <1>0 DEF ToolFindsSandbox, Provision, Execute, DestroySandbox
<1>3. \A c \in containers' : c \in provisioned[r] => c \in provisioned'[r]
      BY <1>0 DEF ToolFindsSandbox, Provision, Execute, DestroySandbox
<1>4. \A q \in Runs : Going(q)' <=> Going(q)
      BY <1>0, <1>1 DEF Going
<1>5. SandboxesOwned'
  <2>.  SUFFICES ASSUME NEW c \in containers', c \notin abandoned
                 PROVE  \E q \in Runs : Going(q)' /\ c \in provisioned'[q]
        BY <1>1 DEF SandboxesOwned
  <2>1. CASE c \in provisioned'[r]
        BY <1>1, <1>4, <2>1 DEF Going
  <2>2. CASE c \in containers
    <3>1. PICK q \in Runs : Going(q) /\ c \in provisioned[q]
          BY <1>1, <2>2 DEF OwnedOK, SandboxesOwned
    <3>.  QED  BY <1>1, <1>3, <1>4, <3>1
  <2>.  QED  BY <1>2, <2>1, <2>2
<1>6. \A q \in Runs : pc'[q] \in {"new", "seed", "complete"} => provisioned'[q] = {}
      BY <1>0, <1>1 DEF OwnedOK
<1>.  QED  BY <1>5, <1>6 DEF OwnedOK

\* A step of one run that leaves the sandboxes alone, and does not end the run while it
\* has one.
LEMMA OwnedGoes ==
    ASSUME TypeOK, OwnedOK, NEW r \in Runs, NEW step \in Steps,
           pc' = [pc EXCEPT ![r] = step], UNCHANGED <<provisioned, containers, abandoned>>,
           step \in {"new", "seed", "complete", "done"} => provisioned[r] = {}
    PROVE  OwnedOK'
<1>0. pc \in [Runs -> Steps]
      BY DEF TypeOK, Steps
<1>1. \A q \in Runs : pc'[q] \in {"new", "seed", "complete"} => provisioned'[q] = {}
      BY <1>0 DEF OwnedOK
<1>2. \A q \in Runs : Going(q) /\ provisioned[q] # {} => Going(q)'
      BY <1>0 DEF Going
<1>3. SandboxesOwned'
      BY <1>2 DEF OwnedOK, SandboxesOwned
<1>.  QED  BY <1>1, <1>3 DEF OwnedOK

\* A run that is cut off goes to its clean-up, or had no sandbox; the sandboxes of a
\* clean-up that is cut off are abandoned; and a new process knows none.
LEMMA OwnedFaults ==
    ASSUME TypeOK, OwnedOK, Crash \/ \E r \in Runs : Cancel(r) \/ CancelDestroy(r)
    PROVE  OwnedOK'
<1>0. pc \in [Runs -> Steps] /\ provisioned \in [Runs -> SUBSET Nat]
      BY DEF TypeOK, Steps
<1>1. CASE Crash
      BY <1>1 DEF Crash, OwnedOK, SandboxesOwned
<1>2. ASSUME NEW r \in Runs, Cancel(r)
      PROVE  OwnedOK'
  <2>1. /\ \E step \in {"done", "destroy"} :
              /\ pc' = [pc EXCEPT ![r] = step]
              /\ step = "done" => pc[r] \in {"seed", "complete"}
        /\ UNCHANGED <<provisioned, containers, abandoned>>
        BY <1>2 DEF Cancel, Raise, Goto, boxVars
  <2>.  QED  BY <2>1, OwnedGoes DEF Steps, OwnedOK
<1>3. ASSUME NEW r \in Runs, CancelDestroy(r)
      PROVE  OwnedOK'
  <2>1. /\ pc[r] = "destroy" /\ pc' = [pc EXCEPT ![r] = "done"]
        /\ abandoned' = abandoned \cup provisioned[r]
        /\ provisioned' = [provisioned EXCEPT ![r] = {}]
        /\ containers' = containers
        BY <1>3 DEF CancelDestroy, Goto
  <2>2. \A q \in Runs \ {r} : provisioned'[q] = provisioned[q] /\ pc'[q] = pc[q]
        BY <1>0, <2>1
  <2>3. SandboxesOwned'
    <3>.  SUFFICES ASSUME NEW c \in containers, c \notin abandoned'
                   PROVE  \E q \in Runs : Going(q)' /\ c \in provisioned'[q]
          BY <2>1 DEF SandboxesOwned
    <3>1. PICK q \in Runs : Going(q) /\ c \in provisioned[q]
          BY <2>1 DEF OwnedOK, SandboxesOwned
    <3>.  QED  BY <2>1, <2>2, <3>1 DEF Going
  <2>4. \A q \in Runs : pc'[q] \in {"new", "seed", "complete"} => provisioned'[q] = {}
        BY <1>0, <2>1, <2>2 DEF OwnedOK
  <2>.  QED  BY <2>3, <2>4 DEF OwnedOK
<1>.  QED  BY <1>1, <1>2, <1>3

LEMMA OwnedStep ==
    ASSUME TypeOK, OwnedOK, [Next]_vars
    PROVE  OwnedOK'
<1>.  USE DEF boxVars, histVars
<1>1. CASE UNCHANGED vars \/ SendUser \/ CompleteByUser
      BY <1>1 DEF vars, SendUser, CompleteByUser, OwnedOK, SandboxesOwned, Going
<1>2. CASE Crash \/ \E r \in Runs : Cancel(r) \/ CancelDestroy(r)
      BY <1>2, OwnedFaults
<1>3. ASSUME NEW r \in Runs,
             ToolFindsSandbox(r) \/ Provision(r) \/ Execute(r) \/ DestroySandbox(r)
      PROVE  OwnedOK'
      BY <1>3, OwnedBoxes
<1>4. ASSUME NEW r \in Runs, Start(r) \/ Seed(r) \/ MarkComplete(r)
      PROVE  OwnedOK'
  <2>1. pc[r] \in {"new", "seed", "complete"} /\ provisioned[r] = {}
        BY <1>4 DEF Start, Seed, MarkComplete, OwnedOK
  <2>2. /\ \E step \in {"done", "seed", "top"} : pc' = [pc EXCEPT ![r] = step]
        /\ UNCHANGED <<provisioned, containers, abandoned>>
        BY <1>4 DEF Start, Seed, MarkComplete, Goto
  <2>.  QED  BY <2>1, <2>2, OwnedGoes DEF Steps
<1>5. ASSUME NEW r \in Runs, Destroyed(r)
      PROVE  OwnedOK'
  <2>1. /\ \E step \in {"done", "complete"} : pc' = [pc EXCEPT ![r] = step]
        /\ UNCHANGED <<provisioned, containers, abandoned>> /\ provisioned[r] = {}
        BY <1>5 DEF Destroyed, Goto
  <2>.  QED  BY <2>1, OwnedGoes DEF Steps
<1>6. ASSUME NEW r \in Runs,
             \/ TurnBegin(r) \/ TurnsOver(r) \/ Compact(r) \/ Reread(r) \/ ToolWithoutSandbox(r)
             \/ ProvisionFails(r) \/ RecordSandbox(r)
             \/ TextDelta(r) \/ ToolCallEnd(r) \/ ErrorChunk(r) \/ EndTurn(r) \/ Result(r)
      PROVE  OwnedOK'
  <2>1. CASE TurnBegin(r) \/ TurnsOver(r) \/ Compact(r) \/ Reread(r)
    <3>1. /\ \E step \in {"destroy", "compact", "reread", "stream"} :
                pc' = [pc EXCEPT ![r] = step]
          /\ UNCHANGED <<provisioned, containers, abandoned>>
          BY <2>1 DEF TurnBegin, TurnsOver, Compact, Reread, Respond, Emit, Raise, Goto
    <3>.  QED  BY <3>1, OwnedGoes DEF Steps
  <2>2. CASE ToolWithoutSandbox(r) \/ ProvisionFails(r) \/ RecordSandbox(r) \/ Result(r)
    <3>1. /\ \E step \in {"result", "execute", "top", "tool", "destroy"} :
                pc' = [pc EXCEPT ![r] = step]
          /\ UNCHANGED <<provisioned, containers, abandoned>>
          BY <2>2 DEF ToolWithoutSandbox, ProvisionFails, RecordSandbox, Result, Emit, Raise, Goto
    <3>.  QED  BY <3>1, OwnedGoes DEF Steps
  <2>3. CASE TextDelta(r) \/ ToolCallEnd(r) \/ ErrorChunk(r) \/ EndTurn(r)
    <3>1. /\ \E step \in {"stream", "tool", "destroy"} : pc' = [pc EXCEPT ![r] = step]
          /\ UNCHANGED <<provisioned, containers, abandoned>>
          BY <2>3 DEF TextDelta, ToolCallEnd, ErrorChunk, EndTurn, Emit, Raise, Goto
    <3>.  QED  BY <3>1, OwnedGoes DEF Steps
  <2>.  QED  BY <1>6, <2>1, <2>2, <2>3
<1>.  QED  BY <1>1, <1>2, <1>3, <1>4, <1>5, <1>6 DEF Next, RunStep

-----------------------------------------------------------------------------
(* A run that has the session to itself *)

\* What disturbs the session disturbs it for good.
LEMMA QuietOnlyEnds ==
    ASSUME [Next]_vars, quiet'
    PROVE  quiet
<1>.  USE DEF histVars
<1>1. CASE UNCHANGED vars
      BY <1>1 DEF vars
<1>2. CASE SendUser \/ CompleteByUser \/ Crash
      BY <1>2 DEF SendUser, CompleteByUser, Crash, Fault
<1>3. ASSUME NEW r \in Runs, Start(r) \/ Cancel(r) \/ CancelDestroy(r)
      PROVE  quiet
      BY <1>3 DEF Start, Cancel, CancelDestroy, Fault
<1>4. ASSUME NEW r \in Runs,
             \/ Seed(r) \/ TurnBegin(r) \/ TurnsOver(r) \/ Compact(r) \/ Reread(r)
             \/ TextDelta(r) \/ ToolCallEnd(r) \/ ErrorChunk(r) \/ EndTurn(r) \/ ToolWithoutSandbox(r)
             \/ ToolFindsSandbox(r) \/ Provision(r) \/ ProvisionFails(r) \/ RecordSandbox(r)
             \/ Execute(r) \/ Result(r) \/ DestroySandbox(r) \/ Destroyed(r) \/ MarkComplete(r)
      PROVE  quiet
      BY <1>4 DEF Seed, TurnBegin, TurnsOver, Compact, Reread, TextDelta, ToolCallEnd, ErrorChunk,
            EndTurn, ToolWithoutSandbox, ToolFindsSandbox, Provision, ProvisionFails,
            RecordSandbox, Execute, Result, DestroySandbox, Destroyed, MarkComplete
<1>.  QED  BY <1>1, <1>2, <1>3, <1>4 DEF Next, RunStep

\* Where a step leads a run that is alone, and what it owes there.
Leads(r, to) ==
    /\ pc' = [pc EXCEPT ![r] = to] /\ to \in Steps \ {"new"}
    /\ failed' = failed
    /\ IF to = "done" THEN completed' = TRUE ELSE completed' = completed
    /\ \A q \in Runs \ {r} : calls'[q] = calls[q]
    /\ to \in {"seed", "top", "compact", "reread"} => calls'[r] = <<>>
    /\ to \in {"destroy", "complete", "done"} =>
          calls'[r] = <<>> \/ Positions("error")' # {}

\* No event leaves the log.
LEMMA PositionsGrow ==
    ASSUME TypeOK, [Next]_vars, NEW kind
    PROVE  Positions(kind) \subseteq Positions(kind)'
<1>1. log \in Seq(Event)
      BY DEF TypeOK
<1>2. log' = log \/ \E e \in Event : log' = Append(log, e)
      BY StepShape DEF QuietStep, CallStep, ResultStep
<1>3. CASE log' = log
      BY <1>3 DEF Positions
<1>4. ASSUME NEW e \in Event, log' = Append(log, e)
      PROVE  Positions(kind) \subseteq Positions(kind)'
      BY <1>1, <1>4, AppendPositions
<1>.  QED  BY <1>2, <1>3, <1>4

\* A result of the only call of a turn leaves the run with none.
LEMMA TailOfOne ==
    ASSUME NEW s \in Seq(Nat), Len(s) = 1
    PROVE  Tail(s) = <<>>
<1>1. Len(<<>>) = 0
      OBVIOUS
<1>2. ASSUME s = <<>>
      PROVE  FALSE
  <2>1. Len(s) = Len(<<>>)
        BY <1>2, Zenon
  <2>.  QED  BY <1>1, <2>1
<1>3. Tail(s) \in Seq(Nat) /\ Len(Tail(s)) = Len(s) - 1
      BY <1>2
<1>4. Len(Tail(s)) = 0
      BY <1>3
<1>.  QED  BY <1>3, <1>4, EmptySeq

\* A run takes steps while it is under way.
LEMMA RunGoing ==
    ASSUME NEW r \in Runs, RunStep(r)
    PROVE  Going(r)
BY DEF Going, RunStep, Seed, TurnBegin, TurnsOver, Compact, Reread, TextDelta, ToolCallEnd,
       ErrorChunk, NextChunk, EndTurn, ToolWithoutSandbox, ToolFindsSandbox, Provision,
       ProvisionFails, RecordSandbox, Execute, Result, DestroySandbox, Destroyed, MarkComplete

\* Where a run's step leads in a session that is not completed.
LEMMA RunLeads ==
    ASSUME TypeOK, NEW r \in Runs, RunStep(r), [Next]_vars, quiet, AnsweredOK, AloneOK,
           ~ completed
    PROVE  \E to \in Steps : Leads(r, to)
<1>0. /\ pc \in [Runs -> Steps] /\ calls \in [Runs -> Seq(Nat)] /\ log \in Seq(Event)
      /\ ~ failed[r] /\ Positions("error") \subseteq Positions("error")'
      BY PositionsGrow DEF TypeOK, Steps, AloneOK
<1>1. /\ pc[r] \in {"new", "seed", "top", "compact", "reread"} => calls[r] = <<>>
      /\ pc[r] \in {"destroy", "complete", "done"} => calls[r] = <<>> \/ Positions("error") # {}
      BY DEF AnsweredOK
<1>2. CASE Seed(r)
  <2>1. Leads(r, "top") /\ pc[r] = "seed"
        BY <1>0, <1>1, <1>2 DEF Seed, Leads, Goto, runVars, Steps
  <2>.  QED  BY <2>1 DEF Going, Steps
<1>3. CASE TurnBegin(r)
  <2>1. pc[r] = "top" /\ \E to \in {"compact", "stream", "destroy"} : Goto(r, to)
        BY <1>3 DEF TurnBegin, Respond
  <2>2. calls' = calls /\ completed' = completed /\ failed' = failed
        BY <1>3 DEF TurnBegin
  <2>.  QED  BY <1>0, <1>1, <2>1, <2>2 DEF Leads, Goto, Going, Steps
<1>4. CASE TurnsOver(r)
      BY <1>0, <1>1, <1>4 DEF TurnsOver, Leads, Goto, runVars, Going, Steps
<1>5. CASE Compact(r)
  <2>1. pc[r] = "compact" /\ Goto(r, "reread") /\ failed' = failed
        BY <1>5 DEF Compact, Emit
  <2>2. calls' = calls /\ completed' = completed
        BY <1>5 DEF Compact, runVars
  <2>.  QED  BY <1>0, <1>1, <2>1, <2>2 DEF Leads, Goto, Going, Steps
<1>6. CASE Reread(r)
  <2>1. pc[r] = "reread" /\ \E to \in {"stream", "destroy"} : Goto(r, to)
        BY <1>6 DEF Reread, Respond
  <2>2. calls' = calls /\ completed' = completed /\ failed' = failed
        BY <1>6 DEF Reread
  <2>.  QED  BY <1>0, <1>1, <2>1, <2>2 DEF Leads, Goto, Going, Steps
<1>7. CASE TextDelta(r) \/ ToolCallEnd(r)
  <2>1. pc[r] = "stream" /\ Goto(r, "stream") /\ failed' = failed /\ completed' = completed
        BY <1>7 DEF TextDelta, ToolCallEnd, NextChunk, Emit
  <2>2. \A q \in Runs \ {r} : calls'[q] = calls[q]
        BY <1>0, <1>7 DEF TextDelta, ToolCallEnd
  <2>3. Leads(r, "stream")
        BY <2>1, <2>2 DEF Leads, Goto, Steps
  <2>.  QED  BY <2>1, <2>3 DEF Going, Steps
<1>8. CASE ErrorChunk(r)
  <2>1. /\ pc[r] = "stream" /\ Goto(r, "destroy") /\ failed' = failed /\ completed' = completed
        /\ log' = Append(log, Plain("error")) /\ calls' = calls
        BY <1>8 DEF ErrorChunk, NextChunk, Emit
  <2>2. Plain("error") \in Event /\ Plain("error").kind = "error"
        BY EventsAreEvents
  <2>3. Positions("error")' = Positions("error") \cup {Len(log) + 1}
        BY <1>0, <2>1, <2>2, AppendPositions
  <2>4. Leads(r, "destroy")
        BY <2>1, <2>3 DEF Leads, Goto, Steps
  <2>.  QED  BY <2>1, <2>4 DEF Going, Steps
<1>9. CASE EndTurn(r)
  <2>1. /\ pc[r] = "stream" /\ failed' = failed /\ completed' = completed /\ calls' = calls
        /\ Goto(r, IF calls[r] = <<>> THEN "destroy" ELSE "tool")
        BY <1>9 DEF EndTurn, Emit, runVars
  <2>2. Leads(r, IF calls[r] = <<>> THEN "destroy" ELSE "tool")
        BY <2>1 DEF Leads, Goto, Steps
  <2>.  QED  BY <2>1, <2>2 DEF Going, Steps
<1>10. CASE \/ ToolWithoutSandbox(r) \/ ToolFindsSandbox(r) \/ Provision(r)
            \/ ProvisionFails(r) \/ RecordSandbox(r) \/ Execute(r)
  <2>1. /\ pc[r] \in Answering /\ completed' = completed /\ failed' = failed /\ calls' = calls
        /\ \E to \in Answering : Goto(r, to)
        BY <1>10 DEF ToolWithoutSandbox, ToolFindsSandbox, Provision, ProvisionFails,
              RecordSandbox, Execute, runVars, Answering
  <2>.  QED  BY <2>1 DEF Leads, Goto, Going, Steps, Answering
<1>11. CASE Result(r)
  <2>.  DEFINE to == IF Len(calls[r]) = 1 THEN "top" ELSE "tool"
  <2>1. /\ pc[r] = "result" /\ Goto(r, to) /\ failed' = failed /\ completed' = completed
        /\ calls' = [calls EXCEPT ![r] = Tail(@)]
        BY <1>11 DEF Result, Emit
  <2>2. to = "top" => calls'[r] = <<>>
        BY <1>0, <2>1, TailOfOne
  <2>3. to \in {"top", "tool"} /\ \A q \in Runs \ {r} : calls'[q] = calls[q]
        BY <1>0, <2>1
  <2>.  HIDE DEF to
  <2>4. Leads(r, to)
        BY <2>1, <2>2, <2>3 DEF Leads, Goto, Steps
  <2>.  QED  BY <2>1, <2>3, <2>4 DEF Going, Steps
<1>12. CASE DestroySandbox(r)
  <2>1. /\ pc[r] = "destroy" /\ pc' = pc /\ completed' = completed /\ failed' = failed
        /\ calls' = calls
        BY <1>12 DEF DestroySandbox, runVars
  <2>2. Leads(r, "destroy")
        BY <1>0, <1>1, <2>1 DEF Leads, Steps
  <2>.  QED  BY <2>1, <2>2 DEF Going, Steps
<1>13. CASE Destroyed(r)
  <2>1. Leads(r, "complete") /\ pc[r] = "destroy"
        BY <1>0, <1>1, <1>13 DEF Destroyed, Leads, Goto, runVars, Steps
  <2>.  QED  BY <2>1 DEF Going, Steps
<1>14. CASE MarkComplete(r)
  <2>1. Leads(r, "done") /\ pc[r] = "complete"
        BY <1>0, <1>1, <1>14 DEF MarkComplete, Leads, Goto, runVars, Steps
  <2>.  QED  BY <2>1 DEF Going, Steps
<1>.  QED  BY <1>2, <1>3, <1>4, <1>5, <1>6, <1>7, <1>8, <1>9, <1>10, <1>11, <1>12, <1>13, <1>14
           DEF RunStep

\* The session stays one run's until something disturbs it.
LEMMA AloneStep ==
    ASSUME TypeOK, AloneOK, AnsweredOK, [Next]_vars
    PROVE  AloneOK'
<1>.  SUFFICES ASSUME quiet'
               PROVE  AloneOK'
      BY DEF AloneOK
<1>0. quiet /\ pc \in [Runs -> Steps] /\ completed \in BOOLEAN
      BY QuietOnlyEnds DEF TypeOK, Steps
<1>1. CASE UNCHANGED vars \/ SendUser
      BY <1>0, <1>1 DEF vars, SendUser, runVars, AloneOK, Going
<1>2. CASE CompleteByUser \/ Crash \/ \E r \in Runs : Cancel(r) \/ CancelDestroy(r)
      BY <1>2 DEF CompleteByUser, Crash, Cancel, CancelDestroy, Fault
<1>3. ASSUME NEW r \in Runs, Start(r)
      PROVE  AloneOK'
  <2>1. \A q \in Runs \ {r} : ~ Going(q) /\ pc'[q] = pc[q]
        BY <1>0, <1>3 DEF Start, Goto
  <2>2. /\ pc'[r] = IF completed THEN "done" ELSE "seed"
        /\ completed' = completed /\ failed' = failed
        BY <1>0, <1>3 DEF Start, Goto
  <2>.  QED  BY <1>0, <2>1, <2>2 DEF AloneOK, Going
<1>4. ASSUME NEW r \in Runs, RunStep(r)
      PROVE  AloneOK'
  <2>0. Going(r)
        BY <1>4, RunGoing
  <2>1. ~ completed
        BY <1>0, <2>0 DEF AloneOK
  <2>2. PICK to \in Steps : Leads(r, to)
        BY <1>0, <1>4, <2>1, RunLeads
  <2>3. \A q \in Runs \ {r} : ~ Going(q) /\ pc'[q] = pc[q]
        BY <1>0, <2>0, <2>2 DEF AloneOK, Leads
  <2>4. /\ pc'[r] = to /\ failed' = failed
        /\ completed' <=> to = "done"
        BY <1>0, <2>1, <2>2 DEF Leads
  <2>.  QED  BY <1>0, <2>1, <2>3, <2>4 DEF AloneOK, Going
<1>.  QED  BY <1>1, <1>2, <1>3, <1>4 DEF Next

\* Every call of the log stays answered or owed.
LEMMA AccountedStep ==
    ASSUME TypeOK, CallsOK, [Next]_vars, AloneOK, quiet,
           \A m \in Positions("call") : Answered(m) \/ Owed(m) \/ Positions("error") # {}
    PROVE  \A m \in Positions("call")' :
              Answered(m)' \/ Owed(m)' \/ Positions("error")' # {}
<1>0. log \in Seq(Event) /\ calls \in [Runs -> Seq(Nat)] /\ Len(log) \in Nat
      BY DEF TypeOK
<1>1. Positions("error") \subseteq Positions("error")'
      BY PositionsGrow
<1>2. log' = log \/ \E e \in Event : log' = Append(log, e)
      BY StepShape DEF QuietStep, CallStep, ResultStep
<1>3. \A n \in DOMAIN log : log'[n] = log[n]
      BY <1>0, <1>2, AppendGrows
<1>4. Positions("result") \subseteq Positions("result")'
      BY PositionsGrow
<1>5. \A m : Answered(m) => Answered(m)'
      BY <1>3, <1>4 DEF Answered, Positions
<1>6. CASE QuietStep
  <2>1. Positions("call")' = Positions("call")
    <3>1. CASE log' = log
          BY <3>1 DEF Positions
    <3>2. ASSUME NEW e \in Event, log' = Append(log, e), e.kind # "call"
          PROVE  Positions("call")' = Positions("call")
          BY <1>0, <3>2, AppendPositions
    <3>.  QED  BY <1>6, <3>1, <3>2 DEF QuietStep
  <2>2. \A m : Owed(m) => Owed(m)'
        BY <1>6 DEF QuietStep, Owed
  <2>.  QED  BY <1>1, <1>5, <2>1, <2>2
<1>7. ASSUME NEW r \in Runs, CallStep(r)
      PROVE  \A m \in Positions("call")' :
                Answered(m)' \/ Owed(m)' \/ Positions("error")' # {}
  <2>.  DEFINE id == Len(log) + 1
  <2>1. /\ \A q \in Runs \ {r} : calls'[q] = calls[q]
        /\ calls'[r] = Append(calls[r], id)
        BY <1>0, <1>7 DEF CallStep
  <2>2. /\ Len(calls[r]) + 1 \in DOMAIN calls'[r] /\ calls'[r][Len(calls[r]) + 1] = id
        /\ \A i \in DOMAIN calls[r] : i \in DOMAIN calls'[r] /\ calls'[r][i] = calls[r][i]
        BY <1>0, <2>1
  <2>3. Positions("call")' = Positions("call") \cup {id}
        BY <1>0, <1>7, AppendPositions DEF CallStep
  <2>.  HIDE DEF id
  <2>4. \A m : Owed(m) => Owed(m)'
        BY <2>1, <2>2 DEF Owed
  <2>5. \E q \in Runs : \E i \in DOMAIN calls'[q] : calls'[q][i] = id
        BY <2>2
  <2>6. \A m \in Positions("call")' : m = id => Owed(m)'
        BY <2>5 DEF Owed
  <2>.  QED  BY <1>1, <1>5, <2>3, <2>4, <2>6
<1>8. ASSUME NEW r \in Runs, ResultStep(r)
      PROVE  \A m \in Positions("call")' :
                Answered(m)' \/ Owed(m)' \/ Positions("error")' # {}
  <2>1. ~ completed
        BY <1>8 DEF AloneOK, ResultStep, PastSeed, Going
  <2>2. PICK e \in Event : /\ log' = Append(log, e) /\ e.kind = "result"
                           /\ e.call = Head(calls[r])
        BY <1>8, <2>1 DEF ResultStep
  <2>3. /\ Positions("call")' = Positions("call")
        /\ Positions("result")' = Positions("result") \cup {Len(log) + 1}
        /\ log'[Len(log) + 1] = e
        BY <1>0, <2>2, AppendPositions, AppendGrows
  <2>4. \A m : m = Head(calls[r]) => Answered(m)'
        BY <2>2, <2>3 DEF Answered
  <2>5. calls[r] \in Seq(Nat) /\ calls[r] # <<>>
        BY <1>0, <1>8 DEF ResultStep
  <2>6. /\ \A q \in Runs \ {r} : calls'[q] = calls[q]
        /\ calls'[r] = Tail(calls[r])
        BY <1>0, <1>8 DEF ResultStep
  <2>7. /\ Head(calls[r]) = calls[r][1]
        /\ \A i \in DOMAIN calls[r] \ {1} :
              i - 1 \in DOMAIN calls'[r] /\ calls'[r][i - 1] = calls[r][i]
        BY <2>5, <2>6
  <2>8. ASSUME NEW m, Owed(m)
        PROVE  Answered(m)' \/ Owed(m)'
    <3>0. PICK q \in Runs : \E i \in DOMAIN calls[q] : calls[q][i] = m
          BY <2>8 DEF Owed
    <3>1. PICK i \in DOMAIN calls[q] : calls[q][i] = m
          BY <3>0
    <3>2. CASE q # r
          BY <2>6, <3>1, <3>2 DEF Owed
    <3>3. CASE q = r /\ i = 1
          BY <2>4, <2>7, <3>1, <3>3
    <3>4. CASE q = r /\ i # 1
          BY <2>7, <3>1, <3>4 DEF Owed
    <3>.  QED  BY <3>2, <3>3, <3>4
  <2>.  QED  BY <1>1, <1>5, <2>3, <2>8
<1>.  QED  BY <1>6, <1>7, <1>8, StepShape

LEMMA AnsweredStep ==
    ASSUME TypeOK, CallsOK, AloneOK, AnsweredOK, [Next]_vars
    PROVE  AnsweredOK'
<1>.  SUFFICES ASSUME quiet'
               PROVE  AnsweredOK'
      BY DEF AnsweredOK
<1>0. quiet /\ pc \in [Runs -> Steps] /\ calls \in [Runs -> Seq(Nat)]
      BY QuietOnlyEnds DEF TypeOK, Steps
<1>1. \A m \in Positions("call")' : Answered(m)' \/ Owed(m)' \/ Positions("error")' # {}
      BY <1>0, AccountedStep DEF AnsweredOK
<1>2. Positions("error") \subseteq Positions("error")'
      BY PositionsGrow
<1>.  DEFINE Settled(q) ==
         /\ pc'[q] \in {"new", "seed", "top", "compact", "reread"} => calls'[q] = <<>>
         /\ pc'[q] \in {"destroy", "complete", "done"} =>
               calls'[q] = <<>> \/ Positions("error")' # {}
<1>3. ASSUME NEW q \in Runs, pc'[q] = pc[q], calls'[q] = calls[q]
      PROVE  Settled(q)
      BY <1>0, <1>2, <1>3 DEF AnsweredOK
<1>4. \A q \in Runs : Settled(q)
  <2>1. CASE UNCHANGED vars \/ SendUser
        BY <1>3, <2>1 DEF vars, SendUser, runVars
  <2>2. CASE CompleteByUser \/ Crash \/ \E r \in Runs : Cancel(r) \/ CancelDestroy(r)
        BY <2>2 DEF CompleteByUser, Crash, Cancel, CancelDestroy, Fault
  <2>3. ASSUME NEW r \in Runs, Start(r), NEW q \in Runs
        PROVE  Settled(q)
    <3>1. pc[r] = "new" /\ calls' = calls /\ \A p \in Runs \ {r} : pc'[p] = pc[p]
          BY <1>0, <2>3 DEF Start, Goto, runVars
    <3>2. calls[r] = <<>>
          BY <1>0, <3>1 DEF AnsweredOK
    <3>.  QED  BY <1>3, <3>1, <3>2
  <2>4. ASSUME NEW r \in Runs, RunStep(r), NEW q \in Runs
        PROVE  Settled(q)
    <3>1. ~ completed
          BY <1>0, <2>4, RunGoing DEF AloneOK
    <3>2. PICK to \in Steps : Leads(r, to)
          BY <1>0, <2>4, <3>1, RunLeads
    <3>3. Settled(r)
          BY <1>0, <3>2 DEF Leads
    <3>4. \A p \in Runs \ {r} : pc'[p] = pc[p] /\ calls'[p] = calls[p]
          BY <1>0, <3>2 DEF Leads
    <3>.  QED  BY <1>3, <3>3, <3>4
  <2>.  QED  BY <2>1, <2>2, <2>3, <2>4 DEF Next
<1>.  QED  BY <1>1, <1>4 DEF AnsweredOK

-----------------------------------------------------------------------------
(* What build_context's loop does *)

Roles == {"system", "user", "assistant", "tool"}

Msg == [role : Roles, text : Nat, uses : Seq(Nat), results : Seq(Nat)]

Locals == [messages : Seq(Msg), text : Nat, uses : Seq(Nat), results : Seq(Nat)]

CallsIn(L, V) == {L[n].call : n \in {m \in V : L[m].kind = "call"}}

\* f is the locals after each round, up to the N-th event.
IsFold(f, L, V, N) ==
    f = [n \in 0..N |-> IF n = 0 THEN Nothing
                        ELSE IF n \in V THEN AddEvent(f[n - 1], L[n], n, CallsIn(L, V))
                        ELSE f[n - 1]]

\* Induction upwards.
LEMMA Up ==
    ASSUME NEW N \in Nat, NEW S, 0 \in S, \A k \in 1..N : k - 1 \in S => k \in S
    PROVE  \A k \in 0..N : k \in S
<1>.  DEFINE Bad == {k \in 0..N : k \notin S}
<1>1. SUFFICES ASSUME Bad # {} PROVE FALSE
      OBVIOUS
<1>2. Bad \subseteq Nat
      OBVIOUS
<1>3. PICK k \in Bad : \A l \in Bad : k <= l
      BY <1>1, <1>2, LeastOfNat
<1>4. k \in 1..N /\ k - 1 \in 0..N /\ k - 1 \notin Bad
      BY <1>3
<1>.  QED  BY <1>3, <1>4

\* The recursion that defines the loop has a solution.
LEMMA FoldExists ==
    ASSUME NEW L, NEW V, NEW N \in Nat
    PROVE  \E f : IsFold(f, L, V, N)
<1>.  DEFINE S == {k \in 0..N : \E f : IsFold(f, L, V, k)}
<1>1. 0 \in S
  <2>1. \A l \in 0..0 : l = 0
        OBVIOUS
  <2>2. IsFold([l \in 0..0 |-> Nothing], L, V, 0)
        BY <2>1 DEF IsFold
  <2>.  QED  BY <2>2
<1>2. ASSUME NEW k \in 1..N, k - 1 \in S
      PROVE  k \in S
  <2>1. PICK f : IsFold(f, L, V, k - 1)
        BY <1>2
  <2>.  DEFINE longer == [l \in 0..k |->
                  IF l = k THEN IF k \in V THEN AddEvent(f[k - 1], L[k], k, CallsIn(L, V))
                                ELSE f[k - 1]
                  ELSE f[l]]
  <2>2. /\ k - 1 \in 0..k /\ longer[k - 1] = f[k - 1] /\ k # 0
        /\ \A l \in 0..k : l # k => l \in 0..(k - 1) /\ (l # 0 => l - 1 \in 0..k /\ l - 1 # k)
        OBVIOUS
  <2>3. \A l \in 0..(k - 1) : f[l] = IF l = 0 THEN Nothing
                             ELSE IF l \in V THEN AddEvent(f[l - 1], L[l], l, CallsIn(L, V))
                             ELSE f[l - 1]
        BY <2>1 DEF IsFold
  <2>4. \A l \in 0..k : longer[l] = IF l = 0 THEN Nothing
                        ELSE IF l \in V THEN AddEvent(longer[l - 1], L[l], l, CallsIn(L, V))
                        ELSE longer[l - 1]
        BY <2>2, <2>3
  <2>5. longer = [l \in 0..k |-> longer[l]]
        OBVIOUS
  <2>.  HIDE DEF longer
  <2>6. IsFold(longer, L, V, k)
        BY <2>4, <2>5 DEF IsFold
  <2>.  QED  BY <2>6
<1>.  HIDE DEF S
<1>3. N \in S
      BY <1>1, <1>2, Up
<1>.  QED  BY <1>3 DEF S

\* build_context is that solution, round by round.
LEMMA FoldShape ==
    ASSUME NEW L \in Seq(Event), NEW V
    PROVE  \E f : /\ BuildContext(L, V) = Flush(f[Len(L)]).messages
                  /\ f[0] = Nothing
                  /\ \A n \in 1..Len(L) :
                        f[n] = IF n \in V THEN AddEvent(f[n - 1], L[n], n, CallsIn(L, V))
                               ELSE f[n - 1]
<1>1. BuildContext(L, V) = Flush((CHOOSE f : IsFold(f, L, V, Len(L)))[Len(L)]).messages
      BY DEF BuildContext, IsFold, CallsIn
<1>2. PICK f : f = CHOOSE g : IsFold(g, L, V, Len(L))
      OBVIOUS
<1>0. Len(L) \in Nat
      OBVIOUS
<1>3. IsFold(f, L, V, Len(L))
      BY <1>0, <1>2, FoldExists, Zenon
<1>4. \A n \in 0..Len(L) : f[n] = IF n = 0 THEN Nothing
                           ELSE IF n \in V THEN AddEvent(f[n - 1], L[n], n, CallsIn(L, V))
                           ELSE f[n - 1]
      BY <1>3 DEF IsFold
<1>5. \A n \in 1..Len(L) : n \in 0..Len(L) /\ n # 0
      BY <1>0
<1>6. f[0] = Nothing
      BY <1>0, <1>4
<1>7. \A n \in 1..Len(L) :
         f[n] = IF n \in V THEN AddEvent(f[n - 1], L[n], n, CallsIn(L, V)) ELSE f[n - 1]
  <2>.  SUFFICES ASSUME NEW n \in 1..Len(L)
                 PROVE  f[n] = IF n \in V THEN AddEvent(f[n - 1], L[n], n, CallsIn(L, V))
                               ELSE f[n - 1]
        OBVIOUS
  <2>1. n \in 0..Len(L) /\ n # 0
        BY <1>5
  <2>.  QED  BY <1>4, <2>1, Zenon
<1>8. BuildContext(L, V) = Flush(f[Len(L)]).messages
      BY <1>1, <1>2, Zenon
<1>.  QED  BY <1>6, <1>7, <1>8, Zenon

\* A sequence with a value more.
LEMMA Longer ==
    ASSUME NEW S, NEW s \in Seq(S), NEW x \in S
    PROVE  Append(s, x) \in Seq(S)
OBVIOUS

\* What the two flushes do to the locals.
LEMMA Assistant ==
    ASSUME NEW s \in Locals
    PROVE  /\ FlushAssistant(s) \in Locals
           /\ FlushAssistant(s).text = 0 /\ FlushAssistant(s).uses = <<>>
           /\ FlushAssistant(s).results = s.results
           /\ FlushAssistant(s).messages =
                 IF s.text = 0 /\ s.uses = <<>> THEN s.messages
                 ELSE Append(s.messages, Message("assistant", s.text, s.uses, <<>>))
<1>1. /\ Message("assistant", s.text, s.uses, <<>>) \in Msg
      /\ <<>> \in Seq(Nat) /\ s.messages \in Seq(Msg)
      BY DEF Message, Msg, Locals, Roles
<1>2. PICK more \in Seq(Msg) :
         more = Append(s.messages, Message("assistant", s.text, s.uses, <<>>))
      BY <1>1, Longer, Zenon
<1>3. CASE s.text = 0 /\ s.uses = <<>>
      BY <1>3 DEF FlushAssistant
<1>4. CASE ~ (s.text = 0 /\ s.uses = <<>>)
  <2>1. FlushAssistant(s) = [s EXCEPT !.messages = more, !.text = 0, !.uses = <<>>]
        BY <1>2, <1>4 DEF FlushAssistant
  <2>2. FlushAssistant(s) = [messages |-> more, text |-> 0, uses |-> <<>>, results |-> s.results]
        BY <2>1 DEF Locals
  <2>.  QED  BY <1>1, <1>2, <1>4, <2>2 DEF Locals
<1>.  QED  BY <1>3, <1>4

LEMMA Tools ==
    ASSUME NEW s \in Locals
    PROVE  /\ FlushToolResults(s) \in Locals
           /\ FlushToolResults(s).text = s.text /\ FlushToolResults(s).uses = s.uses
           /\ FlushToolResults(s).results = <<>>
           /\ FlushToolResults(s).messages =
                 IF s.results = <<>> THEN s.messages
                 ELSE Append(s.messages, Message("tool", 0, <<>>, s.results))
<1>1. /\ Message("tool", 0, <<>>, s.results) \in Msg
      /\ <<>> \in Seq(Nat) /\ s.messages \in Seq(Msg)
      BY DEF Message, Msg, Locals, Roles
<1>2. PICK more \in Seq(Msg) : more = Append(s.messages, Message("tool", 0, <<>>, s.results))
      BY <1>1, Longer, Zenon
<1>3. CASE s.results = <<>>
      BY <1>3 DEF FlushToolResults
<1>4. CASE s.results # <<>>
  <2>1. FlushToolResults(s) = [s EXCEPT !.messages = more, !.results = <<>>]
        BY <1>2, <1>4 DEF FlushToolResults
  <2>2. FlushToolResults(s) =
           [messages |-> more, text |-> s.text, uses |-> s.uses, results |-> <<>>]
        BY <2>1 DEF Locals
  <2>.  QED  BY <1>1, <1>2, <1>4, <2>2 DEF Locals
<1>.  QED  BY <1>3, <1>4

\* A round with a result.
LEMMA ResultRound ==
    ASSUME NEW s \in Locals, NEW e \in Event, e.kind = "result", NEW n \in Nat, NEW C,
           NEW t, t = AddEvent(s, e, n, C)
    PROVE  /\ t \in Locals
           /\ t.messages = FlushAssistant(s).messages /\ t.text = 0 /\ t.uses = <<>>
           /\ t.results = IF e.call \in C THEN Append(s.results, e.call) ELSE s.results
<1>1. PICK a : a = FlushAssistant(s)
      OBVIOUS
<1>2. a \in Locals /\ a.text = 0 /\ a.uses = <<>> /\ a.results = s.results
      BY <1>1, Assistant
<1>3. e.call \in Nat
      BY DEF Event
<1>4. t = IF e.call \in C THEN [a EXCEPT !.results = Append(@, e.call)] ELSE a
      BY <1>1 DEF AddEvent, AddResult
<1>5. CASE e.call \in C
  <2>1. PICK more \in Seq(Nat) : more = Append(a.results, e.call)
    <3>1. a.results \in Seq(Nat)
          BY <1>2 DEF Locals
    <3>.  QED  BY <1>3, <3>1, Longer, Zenon
  <2>2. t = [a EXCEPT !.results = more]
        BY <1>4, <1>5, <2>1
  <2>3. t = [messages |-> a.messages, text |-> a.text, uses |-> a.uses, results |-> more]
        BY <1>2, <2>2 DEF Locals
  <2>.  QED  BY <1>1, <1>2, <1>5, <2>1, <2>3 DEF Locals
<1>6. CASE e.call \notin C
      BY <1>1, <1>2, <1>4, <1>6
<1>.  QED  BY <1>5, <1>6

\* What a round does to them, by the kind of its event.
LEMMA Rounds ==
    ASSUME NEW s \in Locals, NEW e \in Event, NEW n \in Nat, NEW C
    PROVE  LET t == AddEvent(s, e, n, C)
               flushed == Flush(s)
           IN  /\ t \in Locals /\ flushed \in Locals
               /\ flushed.text = 0 /\ flushed.uses = <<>> /\ flushed.results = <<>>
               /\ e.kind \in {"prompt", "user"} =>
                     \E role \in {"system", "user"} :
                        /\ t.messages = Append(flushed.messages, Message(role, n, <<>>, <<>>))
                        /\ t.text = 0 /\ t.uses = <<>> /\ t.results = <<>>
               /\ e.kind = "closer" =>
                     /\ t.messages = FlushToolResults(s).messages
                     /\ t.text = n /\ t.uses = s.uses /\ t.results = <<>>
               /\ e.kind = "call" =>
                     IF s.results = <<>>
                     THEN /\ t.messages = s.messages /\ t.text = s.text
                          /\ t.uses = Append(s.uses, e.call) /\ t.results = <<>>
                     ELSE /\ t.messages = flushed.messages /\ t.text = 0
                          /\ t.uses = Append(<<>>, e.call) /\ t.results = <<>>
               /\ e.kind = "result" =>
                     /\ t.messages = FlushAssistant(s).messages /\ t.text = 0 /\ t.uses = <<>>
                     /\ t.results = IF e.call \in C THEN Append(s.results, e.call) ELSE s.results
               /\ e.kind \notin {"prompt", "user", "closer", "call", "result"} => t = s
<1>.  DEFINE t == AddEvent(s, e, n, C)
             flushed == Flush(s)
<1>1. PICK a : a = FlushAssistant(s)
      OBVIOUS
<1>2. /\ a \in Locals /\ a.text = 0 /\ a.uses = <<>> /\ a.results = s.results
      BY <1>1, Assistant
<1>3. PICK b : b = Flush(s)
      OBVIOUS
<1>4. b \in Locals /\ b.text = 0 /\ b.uses = <<>> /\ b.results = <<>>
      BY <1>1, <1>2, <1>3, Tools DEF Flush
<1>5. PICK c : c = FlushToolResults(s)
      OBVIOUS
<1>6. c \in Locals /\ c.text = s.text /\ c.uses = s.uses /\ c.results = <<>>
      BY <1>5, Tools
<1>7. e.call \in Nat /\ \A role \in {"system", "user"} : Message(role, n, <<>>, <<>>) \in Msg
      BY DEF Event, Message, Msg, Roles
<1>8. ASSUME e.kind \in {"prompt", "user"}
      PROVE  /\ t \in Locals
             /\ \E role \in {"system", "user"} :
                   /\ t.messages = Append(flushed.messages, Message(role, n, <<>>, <<>>))
                   /\ t.text = 0 /\ t.uses = <<>> /\ t.results = <<>>
  <2>1. PICK role \in {"system", "user"} : t = Say(s, role, n)
        BY <1>8 DEF AddEvent
  <2>2. t = [b EXCEPT !.messages = Append(@, Message(role, n, <<>>, <<>>))]
        BY <1>3, <2>1 DEF Say
  <2>3. Append(b.messages, Message(role, n, <<>>, <<>>)) \in Seq(Msg)
        BY <1>4, <1>7 DEF Locals
  <2>4. /\ t \in Locals /\ t.messages = Append(b.messages, Message(role, n, <<>>, <<>>))
        /\ t.text = b.text /\ t.uses = b.uses /\ t.results = b.results
        BY <1>4, <2>2, <2>3 DEF Locals
  <2>.  QED  BY <1>3, <1>4, <2>4
<1>9. ASSUME e.kind = "closer"
      PROVE  /\ t \in Locals /\ t.messages = FlushToolResults(s).messages
             /\ t.text = n /\ t.uses = s.uses /\ t.results = <<>>
  <2>1. t = [c EXCEPT !.text = n]
        BY <1>5, <1>9 DEF AddEvent
  <2>.  QED  BY <1>5, <1>6, <2>1 DEF Locals
<1>10. ASSUME e.kind = "call"
       PROVE  /\ t \in Locals
              /\ IF s.results = <<>>
                 THEN /\ t.messages = s.messages /\ t.text = s.text
                      /\ t.uses = Append(s.uses, e.call) /\ t.results = <<>>
                 ELSE /\ t.messages = flushed.messages /\ t.text = 0
                      /\ t.uses = Append(<<>>, e.call) /\ t.results = <<>>
  <2>1. t = AddCall(s, e.call)
        BY <1>10 DEF AddEvent
  <2>2. CASE s.results = <<>>
    <3>1. PICK more \in Seq(Nat) : more = Append(s.uses, e.call)
      <4>1. s.uses \in Seq(Nat)
            BY DEF Locals
      <4>.  QED  BY <1>7, <4>1, Longer, Zenon
    <3>2. t = [s EXCEPT !.uses = more]
          BY <2>1, <2>2, <3>1 DEF AddCall
    <3>3. t = [messages |-> s.messages, text |-> s.text, uses |-> more, results |-> s.results]
          BY <3>2 DEF Locals
    <3>.  QED  BY <2>2, <3>1, <3>3 DEF Locals
  <2>3. CASE s.results # <<>>
    <3>1. PICK more \in Seq(Nat) : more = Append(b.uses, e.call)
      <4>1. b.uses \in Seq(Nat)
            BY <1>4 DEF Locals
      <4>.  QED  BY <1>7, <4>1, Longer, Zenon
    <3>2. t = [b EXCEPT !.uses = more]
          BY <1>3, <2>1, <2>3, <3>1 DEF AddCall
    <3>3. t = [messages |-> b.messages, text |-> b.text, uses |-> more, results |-> b.results]
          BY <1>4, <3>2 DEF Locals
    <3>.  QED  BY <1>3, <1>4, <2>3, <3>1, <3>3 DEF Locals
  <2>.  QED  BY <2>2, <2>3
<1>11. ASSUME e.kind = "result"
       PROVE  /\ t \in Locals
              /\ t.messages = FlushAssistant(s).messages /\ t.text = 0 /\ t.uses = <<>>
              /\ t.results = IF e.call \in C THEN Append(s.results, e.call) ELSE s.results
       BY <1>11, ResultRound
<1>12. ASSUME e.kind \notin {"prompt", "user", "closer", "call", "result"}
       PROVE  t = s
       BY <1>12 DEF AddEvent
<1>13. t \in Locals
       BY <1>8, <1>9, <1>10, <1>11, <1>12
<1>.  QED  BY <1>3, <1>4, <1>8, <1>9, <1>10, <1>11, <1>12, <1>13

\* A round leaves locals.
LEMMA RoundLocals ==
    ASSUME NEW s \in Locals, NEW e \in Event, NEW n \in Nat, NEW C
    PROVE  AddEvent(s, e, n, C) \in Locals
BY Rounds

-----------------------------------------------------------------------------
(* No word is lost *)

\* The locals hold texts of said, in messages and one perhaps still pending; if all,
\* they hold every one.
Texts(s, said, all) ==
    /\ \A i \in DOMAIN s.messages : s.messages[i].text # 0 =>
          s.messages[i].text \in said /\ (s.text # 0 => s.messages[i].text < s.text)
    /\ \A i, j \in DOMAIN s.messages :
          i < j /\ s.messages[i].text # 0 /\ s.messages[j].text # 0 =>
             s.messages[i].text < s.messages[j].text
    /\ s.text # 0 => s.text \in said
    /\ all => \A n \in said : n = s.text \/ \E i \in DOMAIN s.messages : s.messages[i].text = n

\* A message more.
LEMMA OneMessage ==
    ASSUME NEW ms \in Seq(Msg), NEW m \in Msg
    PROVE  /\ Append(ms, m) \in Seq(Msg) /\ Len(ms) \in Nat
           /\ DOMAIN ms = 1..Len(ms) /\ DOMAIN Append(ms, m) = 1..(Len(ms) + 1)
           /\ Append(ms, m)[Len(ms) + 1] = m
           /\ \A i \in DOMAIN ms : i \in Nat /\ i < Len(ms) + 1 /\ Append(ms, m)[i] = ms[i]
           /\ \A i \in DOMAIN Append(ms, m) : i \in DOMAIN ms \/ i = Len(ms) + 1
OBVIOUS

\* A message with the pending text, or with a later one, keeps the texts in order.
LEMMA TextsGrow ==
    ASSUME NEW s \in Locals, NEW t \in Locals, NEW said, NEW all, NEW more, Texts(s, said, all), NEW m \in Msg,
           t.messages = Append(s.messages, m), t.text = 0,
           more = IF m.text = 0 THEN said ELSE said \cup {m.text},
           s.text # 0 => m.text = s.text,
           m.text # 0 => \A i \in DOMAIN s.messages :
                            s.messages[i].text # 0 => s.messages[i].text < m.text
    PROVE  Texts(t, more, all)
<1>.  DEFINE ms == s.messages
             k  == Len(s.messages) + 1
<1>1. ms \in Seq(Msg) /\ s.text \in Nat
      BY DEF Locals
<1>2. /\ DOMAIN ms = 1..Len(ms) /\ Len(ms) \in Nat
      /\ DOMAIN t.messages = 1..k /\ t.messages[k] = m
      /\ \A i \in DOMAIN ms : i \in Nat /\ i < k /\ t.messages[i] = ms[i]
      /\ \A i \in DOMAIN t.messages : i \in DOMAIN ms \/ i = k
      BY <1>1, OneMessage
<1>3. k \in Nat /\ \A i \in DOMAIN t.messages : k < i => FALSE
      BY <1>2
<1>.  HIDE DEF k
<1>4. \A i \in DOMAIN t.messages : t.messages[i].text # 0 => t.messages[i].text \in more
      BY <1>2 DEF Texts
<1>5. ASSUME NEW i \in DOMAIN t.messages, NEW j \in DOMAIN t.messages, i < j,
             t.messages[i].text # 0, t.messages[j].text # 0
      PROVE  t.messages[i].text < t.messages[j].text
  <2>1. i \in DOMAIN ms
        BY <1>2, <1>3, <1>5
  <2>2. CASE j \in DOMAIN ms
        BY <1>2, <1>5, <2>1, <2>2 DEF Texts
  <2>3. CASE j = k
        BY <1>2, <1>5, <2>1, <2>3
  <2>.  QED  BY <1>2, <2>2, <2>3
<1>6. ASSUME all, NEW n \in more
      PROVE  n = 0 \/ \E i \in DOMAIN t.messages : t.messages[i].text = n
  <2>1. k \in DOMAIN t.messages /\ \A i \in DOMAIN ms : i \in DOMAIN t.messages
        BY <1>2, <1>3
  <2>2. CASE n = m.text
        BY <1>2, <2>1, <2>2
  <2>3. CASE n # m.text
    <3>1. n \in said
          BY <2>3
    <3>2. n = s.text \/ \E i \in DOMAIN ms : ms[i].text = n
          BY <1>6, <3>1 DEF Texts
    <3>3. n = s.text => n = 0
          BY <2>3
    <3>.  QED  BY <1>2, <2>1, <3>2, <3>3
  <2>.  QED  BY <2>2, <2>3
<1>.  QED  BY <1>4, <1>5, <1>6 DEF Texts

\* The flushes lose nothing.
LEMMA TextsFlush ==
    ASSUME NEW s \in Locals, NEW said, NEW all, Texts(s, said, all), 0 \notin said
    PROVE  Texts(FlushAssistant(s), said, all) /\ Texts(FlushToolResults(s), said, all)
<1>1. PICK a : a = FlushAssistant(s)
      OBVIOUS
<1>2. /\ a \in Locals /\ a.text = 0
      /\ a.messages = IF s.text = 0 /\ s.uses = <<>> THEN s.messages
                      ELSE Append(s.messages, Message("assistant", s.text, s.uses, <<>>))
      BY <1>1, Assistant
<1>3. Texts(a, said, all)
  <2>1. CASE s.text = 0 /\ s.uses = <<>>
        BY <1>2, <2>1 DEF Texts
  <2>2. CASE ~ (s.text = 0 /\ s.uses = <<>>)
    <3>1. PICK m : m = Message("assistant", s.text, s.uses, <<>>)
          OBVIOUS
    <3>2. m \in Msg /\ m.text = s.text
          BY <3>1 DEF Message, Msg, Roles, Locals
    <3>3. \A i \in DOMAIN s.messages :
             s.text # 0 /\ s.messages[i].text # 0 => s.messages[i].text < s.text
          BY DEF Texts
    <3>4. said = IF m.text = 0 THEN said ELSE said \cup {m.text}
          BY <3>2 DEF Texts
    <3>.  QED  BY <1>2, <2>2, <3>1, <3>2, <3>3, <3>4, TextsGrow
  <2>.  QED  BY <2>1, <2>2
<1>4. PICK c : c = FlushToolResults(s)
      OBVIOUS
<1>5. /\ c \in Locals /\ c.text = s.text
      /\ c.messages = IF s.results = <<>> THEN s.messages
                      ELSE Append(s.messages, Message("tool", 0, <<>>, s.results))
      BY <1>4, Tools
<1>6. Texts(c, said, all)
  <2>1. CASE s.results = <<>>
        BY <1>5, <2>1 DEF Texts
  <2>2. CASE s.results # <<>>
    <3>1. PICK m : m = Message("tool", 0, <<>>, s.results)
          OBVIOUS
    <3>2. m \in Msg /\ m.text = 0
          BY <3>1 DEF Message, Msg, Roles, Locals
    <3>3. PICK ms \in Seq(Msg) : ms = s.messages
          BY DEF Locals
    <3>4. /\ c.messages = Append(ms, m) /\ Len(ms) \in Nat
          /\ DOMAIN ms = 1..Len(ms) /\ DOMAIN c.messages = 1..(Len(ms) + 1)
          /\ c.messages[Len(ms) + 1] = m
          /\ \A i \in DOMAIN ms : c.messages[i] = ms[i] /\ i \in DOMAIN c.messages
          /\ \A i \in DOMAIN c.messages : i \in DOMAIN ms \/ i = Len(ms) + 1
          BY <1>5, <2>2, <3>1, <3>2, <3>3
    <3>5. \A i \in DOMAIN c.messages : c.messages[i].text # 0 =>
             i \in DOMAIN ms /\ c.messages[i] = ms[i]
          BY <3>2, <3>4
    <3>.  QED  BY <1>5, <3>3, <3>4, <3>5 DEF Texts
  <2>.  QED  BY <2>1, <2>2
<1>.  QED  BY <1>1, <1>3, <1>4, <1>6

LEMMA TextsFlushed ==
    ASSUME NEW s \in Locals, NEW said, NEW all, Texts(s, said, all), 0 \notin said
    PROVE  Texts(Flush(s), said, all)
<1>1. PICK a : a = FlushAssistant(s)
      OBVIOUS
<1>2. a \in Locals /\ Texts(a, said, all)
      BY <1>1, Assistant, TextsFlush
<1>3. Texts(FlushToolResults(a), said, all)
      BY <1>2, TextsFlush
<1>.  QED  BY <1>1, <1>3 DEF Flush

Spoken == {"prompt", "user", "closer"}

\* What of a view is said up to the k-th event.
SaidBy(L, V, k) == {n \in V : n <= k /\ L[n].kind \in Spoken}

\* The locals after the k-th event.
TextState(s, L, V, k, all) ==
    /\ s \in Locals /\ Texts(s, SaidBy(L, V, k), all)
    /\ s.text # 0 => /\ L[s.text].kind = "closer" /\ s.text \in V
                     /\ \A n \in V : L[n].kind = "result" /\ s.text < n => k < n

\* build_context keeps the texts of a view in order, and all of them if the view has a
\* result between any two closers: a closer replaces a text that is still pending.
LEMMA TextsKept ==
    ASSUME NEW L \in Seq(Event), NEW V \in SUBSET (1..Len(L)), NEW all \in BOOLEAN,
           all => \A p, q \in V : L[p].kind = "closer" /\ L[q].kind = "closer" /\ p < q =>
              \E n \in V : L[n].kind = "result" /\ p < n /\ n < q
    PROVE  LET said == {n \in V : L[n].kind \in Spoken}
           IN  /\ TextsInOrder(BuildContext(L, V), said)
               /\ all => NoTextMissing(BuildContext(L, V), said)
<1>1. PICK f : /\ BuildContext(L, V) = Flush(f[Len(L)]).messages
               /\ f[0] = Nothing
               /\ \A n \in 1..Len(L) :
                     f[n] = IF n \in V THEN AddEvent(f[n - 1], L[n], n, CallsIn(L, V))
                            ELSE f[n - 1]
      BY FoldShape
<1>2. PICK N \in Nat : N = Len(L) /\ V \subseteq 1..N /\ V \subseteq Nat
      OBVIOUS
<1>.  DEFINE S == {k \in 0..N : TextState(f[k], L, V, k, all)}
<1>3. 0 \in S
  <2>1. SaidBy(L, V, 0) = {}
    <3>1. \A n \in V : n \in 1..N /\ ~ (n <= 0)
          BY <1>2
    <3>.  QED  BY <3>1 DEF SaidBy
  <2>2. <<>> \in Seq(Msg) /\ <<>> \in Seq(Nat) /\ DOMAIN <<>> = {}
        OBVIOUS
  <2>3. Nothing \in Locals /\ Nothing.text = 0 /\ Nothing.messages = <<>>
        BY <2>2 DEF Nothing, Locals
  <2>.  QED  BY <1>1, <2>1, <2>2, <2>3 DEF TextState, Texts
<1>4. ASSUME NEW k \in 1..N, k - 1 \in S
      PROVE  k \in S
  <2>0. k \in Nat /\ k \in 1..Len(L) /\ L[k] \in Event
        BY <1>2
  <2>1. PICK s : s = f[k - 1] /\ s \in Locals /\ TextState(s, L, V, k - 1, all)
        BY <1>4 DEF TextState
  <2>2. PICK said : said = SaidBy(L, V, k - 1) /\ Texts(s, said, all)
        BY <2>1 DEF TextState
  <2>3. /\ 0 \notin said /\ \A n \in said : n \in Nat /\ n < k
        /\ SaidBy(L, V, k) = IF k \in V /\ L[k].kind \in Spoken THEN said \cup {k} ELSE said
    <3>1. \A n \in V : n \in Nat /\ n # 0 /\ (n <= k <=> n <= k - 1 \/ n = k)
          BY <1>2
    <3>2. said = {n \in V : n <= k - 1 /\ L[n].kind \in Spoken}
          BY <2>2 DEF SaidBy
    <3>3. \A n \in V : n <= k - 1 => n < k
          BY <2>0, <3>1
    <3>4. 0 \notin said /\ \A n \in said : n \in Nat /\ n < k
          BY <3>1, <3>2, <3>3
    <3>5. SaidBy(L, V, k) = {n \in V : n <= k /\ L[n].kind \in Spoken}
          BY DEF SaidBy
    <3>6. \A n : n \in SaidBy(L, V, k) <=>
                 n \in said \/ (n = k /\ k \in V /\ L[k].kind \in Spoken)
      <4>.  HIDE DEF Spoken
      <4>1. \A n \in V : n <= k <=> n <= k - 1 \/ n = k
            BY <3>1
      <4>2. k <= k
            BY <2>0
      <4>.  QED  BY <3>2, <3>5, <4>1, <4>2, Zenon
    <3>7. SaidBy(L, V, k) = IF k \in V /\ L[k].kind \in Spoken THEN said \cup {k} ELSE said
          BY <3>6
    <3>.  QED  BY <3>4, <3>7
  <2>4. PICK t : t = f[k] /\ t = IF k \in V THEN AddEvent(s, L[k], k, CallsIn(L, V)) ELSE s
        BY <1>1, <2>0, <2>1
  <2>5. TextState(t, L, V, k, all) => k \in S
    <3>1. k \in 0..N /\ t = f[k]
          BY <2>0, <2>4
    <3>.  QED  BY <3>1, Zenon
  <2>6. CASE k \notin V
    <3>1. TextState(s, L, V, k, all)
      <4>1. \A n \in V : n # k /\ n \in Nat
            BY <1>2, <2>6
      <4>2. \A n \in V : k - 1 < n => k < n
            BY <4>1
      <4>.  QED  BY <2>1, <2>2, <2>3, <2>6, <4>2 DEF TextState
    <3>2. t = s
          BY <2>4, <2>6
    <3>.  QED  BY <2>5, <3>1, <3>2, Zenon
  <2>7. CASE k \in V
    <3>1. PICK flushed : flushed = Flush(s)
          OBVIOUS
    <3>2. /\ t \in Locals /\ flushed \in Locals
          /\ flushed.text = 0 /\ flushed.uses = <<>> /\ flushed.results = <<>>
          /\ L[k].kind \in {"prompt", "user"} =>
                \E role \in {"system", "user"} :
                   /\ t.messages = Append(flushed.messages, Message(role, k, <<>>, <<>>))
                   /\ t.text = 0
          /\ L[k].kind = "closer" => t.messages = FlushToolResults(s).messages /\ t.text = k
          /\ L[k].kind = "call" =>
                IF s.results = <<>> THEN t.messages = s.messages /\ t.text = s.text
                ELSE t.messages = flushed.messages /\ t.text = 0
          /\ L[k].kind = "result" => t.messages = FlushAssistant(s).messages /\ t.text = 0
          /\ L[k].kind \notin {"prompt", "user", "closer", "call", "result"} => t = s
          BY <2>0, <2>1, <2>4, <2>7, <3>1, Rounds
    <3>3. Texts(flushed, said, all)
          BY <2>1, <2>2, <2>3, <3>1, TextsFlushed
    <3>4. ASSUME Texts(t, SaidBy(L, V, k), all), t.text # 0 => t.text = s.text /\ L[k].kind # "result"
          PROVE  TextState(t, L, V, k, all)
      <4>1. \A n \in V : L[n].kind = "result" /\ k - 1 < n /\ L[k].kind # "result" => k < n
            BY <1>2
      <4>.  QED  BY <2>1, <3>2, <3>4, <4>1 DEF TextState
    <3>5. CASE L[k].kind \in {"prompt", "user"}
      <4>1. PICK role \in {"system", "user"} :
               t.messages = Append(flushed.messages, Message(role, k, <<>>, <<>>)) /\ t.text = 0
            BY <3>2, <3>5
      <4>2. PICK m : m = Message(role, k, <<>>, <<>>)
            OBVIOUS
      <4>3. m \in Msg /\ m.text = k /\ k # 0
            BY <2>0, <4>2 DEF Message, Msg, Roles
      <4>4. \A i \in DOMAIN flushed.messages :
               flushed.messages[i].text # 0 => flushed.messages[i].text < k
            BY <2>3, <3>3 DEF Texts
      <4>5. SaidBy(L, V, k) = IF m.text = 0 THEN said ELSE said \cup {m.text}
            BY <2>3, <2>7, <3>5, <4>3 DEF Spoken
      <4>6. Texts(t, SaidBy(L, V, k), all)
            BY <3>2, <3>3, <4>1, <4>2, <4>3, <4>4, <4>5, TextsGrow
      <4>7. L[k].kind # "result"
            BY <3>5
      <4>.  QED  BY <2>5, <3>4, <4>1, <4>6, <4>7
    <3>6. CASE L[k].kind = "closer"
      <4>1. PICK c : c = FlushToolResults(s)
            OBVIOUS
      <4>2. Texts(c, said, all) /\ c.text = s.text
            BY <2>1, <2>2, <2>3, <4>1, TextsFlush, Tools
      <4>3. all => s.text = 0
        <5>.  SUFFICES ASSUME all, s.text # 0 PROVE FALSE
              OBVIOUS
        <5>1. /\ s.text \in V /\ L[s.text].kind = "closer" /\ s.text \in said
              /\ \A n \in V : L[n].kind = "result" /\ s.text < n => k - 1 < n
              BY <2>1, <2>2 DEF TextState, Texts
        <5>2. PICK n \in V : L[n].kind = "result" /\ s.text < n /\ n < k
              BY <2>3, <2>7, <3>6, <5>1
        <5>.  QED  BY <1>2, <5>1, <5>2
      <4>4. t.messages = c.messages /\ t.text = k /\ k # 0
            BY <2>0, <3>2, <3>6, <4>1
      <4>5. SaidBy(L, V, k) = said \cup {k}
            BY <2>3, <2>7, <3>6 DEF Spoken
      <4>6. Texts(t, SaidBy(L, V, k), all)
            BY <2>3, <4>2, <4>3, <4>4, <4>5 DEF Texts
      <4>7. TextState(t, L, V, k, all)
            BY <2>7, <3>2, <3>6, <4>4, <4>6 DEF TextState
      <4>.  QED  BY <2>5, <4>7, Zenon
    <3>7. CASE L[k].kind \notin Spoken
      <4>1. SaidBy(L, V, k) = said
            BY <2>3, <3>7
      <4>2. CASE L[k].kind = "call"
        <5>1. CASE s.results = <<>>
          <6>1. Texts(t, said, all)
                BY <2>2, <3>2, <4>2, <5>1 DEF Texts
          <6>.  QED  BY <2>5, <3>2, <3>4, <4>1, <4>2, <5>1, <6>1
        <5>2. CASE s.results # <<>>
          <6>1. Texts(t, said, all)
                BY <3>2, <3>3, <4>2, <5>2 DEF Texts
          <6>.  QED  BY <2>5, <3>2, <3>4, <4>1, <4>2, <5>2, <6>1
        <5>.  QED  BY <5>1, <5>2
      <4>3. CASE L[k].kind = "result"
        <5>1. PICK a : a = FlushAssistant(s)
              OBVIOUS
        <5>2. Texts(a, said, all) /\ a.text = 0
              BY <2>1, <2>2, <2>3, <5>1, TextsFlush, Assistant
        <5>3. Texts(t, said, all)
              BY <3>2, <4>3, <5>1, <5>2 DEF Texts
        <5>.  QED  BY <2>5, <3>2, <3>4, <4>1, <4>3, <5>3
      <4>4. CASE L[k].kind \notin {"call", "result"}
        <5>1. t = s
              BY <3>2, <3>7, <4>4 DEF Spoken
        <5>.  QED  BY <2>2, <2>5, <3>4, <4>1, <4>4, <5>1
      <4>.  QED  BY <4>2, <4>3, <4>4
    <3>.  QED  BY <3>5, <3>6, <3>7 DEF Spoken
  <2>.  QED  BY <2>6, <2>7
<1>.  HIDE DEF S
<1>5. N \in S
      BY <1>3, <1>4, Up
<1>6. PICK s : s = f[N] /\ TextState(s, L, V, N, all)
      BY <1>5 DEF S
<1>7. SaidBy(L, V, N) = {n \in V : L[n].kind \in Spoken}
  <2>1. \A n \in V : n \in 1..N /\ n <= N
        BY <1>2
  <2>.  QED  BY <2>1 DEF SaidBy
<1>8. PICK t : t = Flush(s) /\ BuildContext(L, V) = t.messages
      BY <1>1, <1>2, <1>6
<1>9. 0 \notin SaidBy(L, V, N)
      BY <1>2 DEF SaidBy
<1>10. Texts(t, SaidBy(L, V, N), all)
       BY <1>6, <1>8, <1>9, TextsFlushed DEF TextState
<1>11. t.text = 0
  <2>1. PICK a : a = FlushAssistant(s)
        OBVIOUS
  <2>2. a \in Locals /\ a.text = 0
        BY <1>6, <2>1, Assistant DEF TextState
  <2>.  QED  BY <1>8, <2>1, <2>2, Tools DEF Flush
<1>.  QED  BY <1>7, <1>8, <1>9, <1>10, <1>11 DEF Texts, TextsInOrder, NoTextMissing

-----------------------------------------------------------------------------
(* Calls meet their results *)

\* b is the message of results that a's calls wait for.
Answers(b, a) ==
    a.role # "system" /\ b.role # "system" /\ ToSet(b.results) = ToSet(a.uses)

\* Every message with calls is followed by that of their results, and the other way round.
Closed(ms) ==
    /\ \A i \in DOMAIN ms : ms[i].uses # <<>> =>
          i + 1 \in DOMAIN ms /\ Answers(ms[i + 1], ms[i])
    /\ \A i \in DOMAIN ms : ms[i].results # <<>> =>
          i - 1 \in DOMAIN ms /\ Answers(ms[i], ms[i - 1])

\* The blocks of a message, one more, none or one.
LEMMA ToSets ==
    ASSUME NEW s \in Seq(Nat), NEW x \in Nat
    PROVE  /\ ToSet(Append(s, x)) = ToSet(s) \cup {x} /\ Append(s, x) # <<>>
           /\ s # <<>> => ToSet(s) # {}
<1>1. /\ Len(s) \in Nat /\ DOMAIN s = 1..Len(s) /\ DOMAIN Append(s, x) = 1..(Len(s) + 1)
      /\ Append(s, x)[Len(s) + 1] = x /\ \A i \in DOMAIN s : Append(s, x)[i] = s[i]
      OBVIOUS
<1>2. /\ Len(s) + 1 \in DOMAIN Append(s, x)
      /\ \A i \in DOMAIN Append(s, x) : i \in DOMAIN s \/ i = Len(s) + 1
      /\ \A i \in DOMAIN s : i \in DOMAIN Append(s, x)
      BY <1>1
<1>3. ToSet(Append(s, x)) = ToSet(s) \cup {x}
      BY <1>1, <1>2 DEF ToSet
<1>4. ASSUME s # <<>>
      PROVE  ToSet(s) # {}
  <2>1. Len(s) # 0
        BY <1>4, EmptySeq
  <2>2. 1 \in DOMAIN s
        BY <1>1, <2>1
  <2>.  QED  BY <2>2 DEF ToSet
<1>5. Append(s, x) # <<>>
      OBVIOUS
<1>.  QED  BY <1>3, <1>4, <1>5

LEMMA ToSetEmpty == ToSet(<<>>) = {}
BY DEF ToSet

\* A message without blocks, or a message with calls and that with their results, leaves
\* a closed list closed.
LEMMA ClosedOne ==
    ASSUME NEW ms \in Seq(Msg), Closed(ms), NEW m \in Msg, m.uses = <<>>, m.results = <<>>
    PROVE  Closed(Append(ms, m))
<1>1. PICK more \in Seq(Msg) : more = Append(ms, m)
      BY Longer, Zenon
<1>2. PICK k \in Nat : k = Len(ms)
      OBVIOUS
<1>3. /\ DOMAIN ms = 1..k /\ DOMAIN more = 1..(k + 1) /\ more[k + 1] = m
      /\ \A i \in 1..k : more[i] = ms[i]
      BY <1>1, <1>2, OneMessage
<1>4. \A i \in 1..(k + 1) : i \in 1..k \/ i = k + 1
      OBVIOUS
<1>5. ASSUME NEW i \in DOMAIN more, more[i].uses # <<>>
      PROVE  i + 1 \in DOMAIN more /\ Answers(more[i + 1], more[i])
  <2>1. i \in 1..k
        BY <1>3, <1>4, <1>5
  <2>2. i + 1 \in 1..k /\ Answers(ms[i + 1], ms[i])
        BY <1>3, <1>5, <2>1 DEF Closed
  <2>.  QED  BY <1>3, <2>1, <2>2
<1>6. ASSUME NEW i \in DOMAIN more, more[i].results # <<>>
      PROVE  i - 1 \in DOMAIN more /\ Answers(more[i], more[i - 1])
  <2>1. i \in 1..k
        BY <1>3, <1>4, <1>6
  <2>2. i - 1 \in 1..k /\ Answers(ms[i], ms[i - 1])
        BY <1>3, <1>6, <2>1 DEF Closed
  <2>.  QED  BY <1>3, <2>1, <2>2
<1>.  QED  BY <1>1, <1>5, <1>6 DEF Closed

LEMMA ClosedTwo ==
    ASSUME NEW ms \in Seq(Msg), Closed(ms), NEW a \in Msg, NEW b \in Msg,
           a.results = <<>>, b.uses = <<>>, Answers(b, a)
    PROVE  Closed(Append(Append(ms, a), b))
<1>1. PICK some \in Seq(Msg) : some = Append(ms, a)
      BY Longer, Zenon
<1>2. PICK more \in Seq(Msg) : more = Append(some, b)
      BY Longer, Zenon
<1>3. PICK k \in Nat : k = Len(ms)
      OBVIOUS
<1>4. /\ DOMAIN ms = 1..k /\ DOMAIN some = 1..(k + 1) /\ some[k + 1] = a /\ Len(some) = k + 1
      /\ \A i \in 1..k : some[i] = ms[i]
      BY <1>1, <1>3
<1>5. /\ DOMAIN more = 1..(k + 2) /\ more[k + 2] = b
      /\ \A i \in 1..(k + 1) : more[i] = some[i]
      BY <1>2, <1>4
<1>6. /\ \A i \in 1..(k + 2) : i \in 1..k \/ i = k + 1 \/ i = k + 2
      /\ \A i \in 1..k : i \in 1..(k + 1) /\ i \in 1..(k + 2)
      /\ k + 1 \in 1..(k + 1) /\ k + 1 \in 1..(k + 2) /\ k + 2 \in 1..(k + 2)
      /\ (k + 1) + 1 = k + 2 /\ (k + 2) - 1 = k + 1
      OBVIOUS
<1>7. more[k + 1] = a /\ \A i \in 1..k : more[i] = ms[i]
      BY <1>4, <1>5, <1>6
<1>8. ASSUME NEW i \in DOMAIN more, more[i].uses # <<>>
      PROVE  i + 1 \in DOMAIN more /\ Answers(more[i + 1], more[i])
  <2>1. CASE i \in 1..k
    <3>1. i + 1 \in 1..k /\ Answers(ms[i + 1], ms[i])
          BY <1>4, <1>7, <1>8, <2>1 DEF Closed
    <3>.  QED  BY <1>5, <1>6, <1>7, <2>1, <3>1
  <2>2. CASE i = k + 1
        BY <1>5, <1>6, <1>7, <2>2
  <2>.  QED  BY <1>5, <1>6, <1>8, <2>1, <2>2
<1>9. ASSUME NEW i \in DOMAIN more, more[i].results # <<>>
      PROVE  i - 1 \in DOMAIN more /\ Answers(more[i], more[i - 1])
  <2>1. CASE i \in 1..k
    <3>1. i - 1 \in 1..k /\ Answers(ms[i], ms[i - 1])
          BY <1>4, <1>7, <1>9, <2>1 DEF Closed
    <3>.  QED  BY <1>5, <1>6, <1>7, <2>1, <3>1
  <2>2. CASE i = k + 2
        BY <1>5, <1>6, <1>7, <2>2
  <2>.  QED  BY <1>5, <1>6, <1>7, <1>9, <2>1, <2>2
<1>.  QED  BY <1>1, <1>2, <1>8, <1>9 DEF Closed

\* Closed messages are paired.
LEMMA ClosedPaired ==
    ASSUME NEW ms \in Seq(Msg), Closed(ms)
    PROVE  Paired(ms)
<1>1. ASSUME NEW i \in DOMAIN ms, i + 1 \in DOMAIN ms, Answers(ms[i + 1], ms[i])
      PROVE  /\ NextInConversation(ms, i, i + 1)
             /\ ToSet(ms[i + 1].results) = ToSet(ms[i].uses)
  <2>1. i \in Nat /\ i < i + 1 /\ (i + 1)..((i + 1) - 1) = {}
        OBVIOUS
  <2>.  QED  BY <1>1, <2>1 DEF Answers, NextInConversation
<1>2. ASSUME NEW i \in DOMAIN ms, ms[i].uses # <<>>
      PROVE  \E j \in DOMAIN ms : /\ NextInConversation(ms, i, j)
                                  /\ ToSet(ms[j].results) = ToSet(ms[i].uses)
      BY <1>1, <1>2 DEF Closed
<1>3. ASSUME NEW j \in DOMAIN ms, ms[j].results # <<>>
      PROVE  \E i \in DOMAIN ms : /\ NextInConversation(ms, i, j)
                                  /\ ToSet(ms[i].uses) = ToSet(ms[j].results)
  <2>1. PICK i \in DOMAIN ms : i = j - 1 /\ Answers(ms[j], ms[i])
        BY <1>3 DEF Closed
  <2>2. j = i + 1
        BY <2>1
  <2>.  QED  BY <1>1, <2>1, <2>2
<1>.  QED  BY <1>2, <1>3 DEF Paired

\* What the pairing needs of a view of a log: a call's id is its position; a result comes
\* after the call it answers, and no other result answers it; the prompt and the users'
\* messages come before the calls; a turn begins once the results of the one before are all
\* there, and so they are at the end.
Legal(L, V) ==
    /\ \A m \in V : L[m].kind = "call" => L[m].call = m
    /\ \A n \in V : L[n].kind = "result" => L[n].call < n
    /\ \A l, n \in V :
          L[l].kind = "result" /\ L[n].kind = "result" /\ L[l].call = L[n].call => l = n
    /\ \A k, m \in V : L[k].kind \in {"prompt", "user"} /\ L[m].kind = "call" => k < m
    /\ \A k, m, n \in V :
          /\ L[k].kind \in {"call", "closer"} /\ L[m].kind = "call" /\ L[n].kind = "result"
          /\ m < n /\ n < k
          => \E l \in V : L[l].kind = "result" /\ L[l].call = m /\ l < k
    /\ \A m \in V : L[m].kind = "call" => \E n \in V : L[n].kind = "result" /\ L[n].call = m

CallsBy(L, V, k) == {m \in V : m <= k /\ L[m].kind = "call"}

\* The calls up to the k-th event that no result up to it answers.
Pending(L, V, k) ==
    {m \in CallsBy(L, V, k) : \A n \in V : L[n].kind = "result" /\ L[n].call = m => k < n}

\* What a round does to the calls that wait.
LEMMA PendingStep ==
    ASSUME NEW L \in Seq(Event), NEW V \in SUBSET (1..Len(L)), Legal(L, V), NEW k \in 1..Len(L)
    PROVE  /\ k \notin V \/ L[k].kind \notin {"call", "result"} =>
                 Pending(L, V, k) = Pending(L, V, k - 1)
           /\ k \in V /\ L[k].kind = "call" => Pending(L, V, k) = Pending(L, V, k - 1) \cup {k}
           /\ k \in V /\ L[k].kind = "result" =>
                 /\ Pending(L, V, k) = Pending(L, V, k - 1) \ {L[k].call}
                 /\ L[k].call \in CallsIn(L, V) => L[k].call \in Pending(L, V, k - 1)
           /\ CallsBy(L, V, k - 1) \subseteq CallsBy(L, V, k)
<1>1. /\ \A n \in V : n \in Nat /\ (n <= k <=> n <= k - 1 \/ n = k)
      /\ \A n \in V : (k - 1 < n <=> k < n \/ n = k)
      /\ k <= k /\ ~ (k < k) /\ k - 1 < k /\ ~ (k <= k - 1)
      OBVIOUS
<1>2. \A m : m \in CallsBy(L, V, k) <=>
                m \in CallsBy(L, V, k - 1) \/ (m = k /\ k \in V /\ L[k].kind = "call")
      BY <1>1, Zenon DEF CallsBy
<1>3. \A m : m \in CallsBy(L, V, k - 1) => m \in V /\ L[m].kind = "call" /\ m <= k - 1
      BY DEF CallsBy
<1>4. \A j : \A m : m \in Pending(L, V, j) <=>
         m \in CallsBy(L, V, j) /\ \A n \in V : L[n].kind = "result" /\ L[n].call = m => j < n
      BY DEF Pending
<1>5. \A m \in CallsBy(L, V, k - 1) :
         m \in Pending(L, V, k) <=> /\ m \in Pending(L, V, k - 1)
                                    /\ ~ (k \in V /\ L[k].kind = "result" /\ L[k].call = m)
  <2>.  SUFFICES ASSUME NEW m \in CallsBy(L, V, k - 1)
                 PROVE  m \in Pending(L, V, k) <=>
                           /\ m \in Pending(L, V, k - 1)
                           /\ ~ (k \in V /\ L[k].kind = "result" /\ L[k].call = m)
        OBVIOUS
  <2>1. m \in Pending(L, V, k) <=>
           \A n \in V : L[n].kind = "result" /\ L[n].call = m => k < n
        BY <1>2, <1>4
  <2>2. m \in Pending(L, V, k - 1) <=>
           \A n \in V : L[n].kind = "result" /\ L[n].call = m => k - 1 < n
        BY <1>4
  <2>.  QED  BY <1>1, <2>1, <2>2
<1>6. ASSUME k \notin V \/ L[k].kind \notin {"call", "result"}
      PROVE  Pending(L, V, k) = Pending(L, V, k - 1)
      BY <1>2, <1>4, <1>5, <1>6
<1>7. ASSUME k \in V, L[k].kind = "call"
      PROVE  Pending(L, V, k) = Pending(L, V, k - 1) \cup {k}
  <2>1. k \in Pending(L, V, k)
    <3>1. \A n \in V : L[n].kind = "result" /\ L[n].call = k => k < n
          BY DEF Legal
    <3>.  QED  BY <1>2, <1>4, <1>7, <3>1
  <2>.  QED  BY <1>2, <1>4, <1>5, <1>7, <2>1
<1>8. ASSUME k \in V, L[k].kind = "result"
      PROVE  /\ Pending(L, V, k) = Pending(L, V, k - 1) \ {L[k].call}
             /\ L[k].call \in CallsIn(L, V) => L[k].call \in Pending(L, V, k - 1)
  <2>1. ASSUME L[k].call \in CallsIn(L, V)
        PROVE  L[k].call \in Pending(L, V, k - 1)
    <3>1. PICK m \in V : m = L[k].call /\ L[m].kind = "call"
          BY <2>1 DEF CallsIn, Legal
    <3>2. m \in CallsBy(L, V, k - 1)
      <4>1. m < k
            BY <1>8, <3>1 DEF Legal
      <4>2. m <= k - 1
            BY <1>1, <3>1, <4>1
      <4>.  QED  BY <3>1, <4>2 DEF CallsBy
    <3>3. \A n \in V : L[n].kind = "result" /\ L[n].call = m => n = k
          BY <1>8, <3>1 DEF Legal
    <3>.  QED  BY <1>1, <1>4, <3>1, <3>2, <3>3
  <2>2. Pending(L, V, k) = Pending(L, V, k - 1) \ {L[k].call}
        BY <1>2, <1>4, <1>5, <1>8
  <2>.  QED  BY <2>1, <2>2
<1>9. CallsBy(L, V, k - 1) \subseteq CallsBy(L, V, k)
      BY <1>2
<1>.  QED  BY <1>6, <1>7, <1>8, <1>9

\* ms is closed but for a last message, of calls.
HalfOpen(ms, m) ==
    /\ m \in Msg /\ m.role = "assistant" /\ m.uses # <<>> /\ m.results = <<>>
    /\ \E rest \in Seq(Msg) : Closed(rest) /\ ms = Append(rest, m)

\* The locals after the k-th event: calls wait in the assistant's message that is not
\* sent yet, or in the last that is, whose results are not.
Waiting(s, L, V, k) ==
    s.results = <<>> /\ Closed(s.messages) /\ ToSet(s.uses) = Pending(L, V, k)

Collecting(s, L, V, k) ==
    /\ s.text = 0 /\ s.uses = <<>>
    /\ \E m : HalfOpen(s.messages, m) /\ ToSet(m.uses) = Pending(L, V, k) \cup ToSet(s.results)
    /\ ToSet(s.results) \subseteq CallsBy(L, V, k)
    /\ \E n \in V : L[n].kind = "result" /\ n <= k /\ \A m \in Pending(L, V, k) : m < n

PairState(s, L, V, k) == s \in Locals /\ (Waiting(s, L, V, k) \/ Collecting(s, L, V, k))

\* The flushes close the messages once no call is open.
LEMMA FlushWaiting ==
    ASSUME NEW s \in Locals, Closed(s.messages), s.uses = <<>>, s.results = <<>>
    PROVE  Closed(FlushAssistant(s).messages) /\ Closed(Flush(s).messages)
<1>1. PICK a : a = FlushAssistant(s)
      OBVIOUS
<1>2. /\ a \in Locals /\ a.results = <<>>
      /\ a.messages = IF s.text = 0 /\ s.uses = <<>> THEN s.messages
                      ELSE Append(s.messages, Message("assistant", s.text, s.uses, <<>>))
      BY <1>1, Assistant
<1>3. PICK m : m = Message("assistant", s.text, s.uses, <<>>)
      OBVIOUS
<1>4. m \in Msg /\ m.uses = <<>> /\ m.results = <<>> /\ s.messages \in Seq(Msg)
      BY <1>3 DEF Message, Msg, Roles, Locals
<1>5. Closed(a.messages)
      BY <1>2, <1>3, <1>4, ClosedOne
<1>6. Flush(s).messages = a.messages
      BY <1>1, <1>2, Tools DEF Flush
<1>.  QED  BY <1>1, <1>5, <1>6

LEMMA FlushCollecting ==
    ASSUME NEW s \in Locals, s.text = 0, s.uses = <<>>, NEW m, HalfOpen(s.messages, m),
           ToSet(m.uses) = ToSet(s.results)
    PROVE  /\ Closed(FlushToolResults(s).messages) /\ s.results # <<>>
           /\ Flush(s).messages = FlushToolResults(s).messages
<1>1. PICK rest \in Seq(Msg) : Closed(rest) /\ s.messages = Append(rest, m)
      BY DEF HalfOpen
<1>2. m \in Msg /\ m.role = "assistant" /\ m.uses # <<>> /\ m.results = <<>> /\ m.uses \in Seq(Nat)
      BY DEF HalfOpen, Msg
<1>3. s.results # <<>>
  <2>1. ToSet(m.uses) # {}
        BY <1>2, ToSets
  <2>.  QED  BY <2>1, ToSetEmpty
<1>4. PICK b : b = Message("tool", 0, <<>>, s.results)
      OBVIOUS
<1>5. b \in Msg /\ b.uses = <<>> /\ b.results = s.results /\ b.role = "tool"
      BY <1>4 DEF Message, Msg, Roles, Locals
<1>6. FlushToolResults(s).messages = Append(s.messages, b)
      BY <1>3, <1>4, Tools
<1>7. Answers(b, m)
      BY <1>2, <1>5 DEF Answers
<1>8. Closed(Append(Append(rest, m), b))
      BY <1>1, <1>2, <1>5, <1>7, ClosedTwo
<1>9. FlushAssistant(s) = s
      BY DEF FlushAssistant
<1>.  QED  BY <1>1, <1>3, <1>6, <1>8, <1>9 DEF Flush

LEMMA ToSetOne == \A x \in Nat : ToSet(Append(<<>>, x)) = {x}
<1>0. <<>> \in Seq(Nat)
      OBVIOUS
<1>1. PICK s \in Seq(Nat) : s = <<>>
      BY <1>0
<1>2. \A x \in Nat : ToSet(Append(s, x)) = ToSet(s) \cup {x}
      BY ToSets
<1>.  QED  BY <1>1, <1>2, ToSetEmpty

\* The flushes leave locals.
LEMMA FlushedLocals ==
    ASSUME NEW s \in Locals
    PROVE  Flush(s) \in Locals /\ Flush(s).messages \in Seq(Msg)
<1>1. PICK a : a = FlushAssistant(s) /\ a \in Locals
      BY Assistant
<1>2. PICK b : b = Flush(s) /\ b \in Locals
      BY <1>1, Tools DEF Flush
<1>.  QED  BY <1>2 DEF Locals

\* A round, while calls wait in the assistant's message.
LEMMA WaitingStep ==
    ASSUME NEW L \in Seq(Event), NEW V \in SUBSET (1..Len(L)), Legal(L, V), NEW k \in V,
           NEW s \in Locals, Waiting(s, L, V, k - 1),
           NEW t, t = AddEvent(s, L[k], k, CallsIn(L, V))
    PROVE  PairState(t, L, V, k)
<1>1. k \in Nat /\ k \in 1..Len(L) /\ L[k] \in Event /\ L[k].call \in Nat
  <2>1. k \in Nat /\ k \in 1..Len(L) /\ L[k] \in Event
        OBVIOUS
  <2>.  QED  BY <2>1 DEF Event
<1>2. /\ s.results = <<>> /\ Closed(s.messages) /\ ToSet(s.uses) = Pending(L, V, k - 1)
      /\ s.uses \in Seq(Nat) /\ s.messages \in Seq(Msg)
      BY DEF Waiting, Locals
<1>3. PICK flushed : flushed = Flush(s)
      OBVIOUS
<1>4. /\ t \in Locals
      /\ L[k].kind \in {"prompt", "user"} =>
            \E role \in {"system", "user"} :
               /\ t.messages = Append(flushed.messages, Message(role, k, <<>>, <<>>))
               /\ t.uses = <<>> /\ t.results = <<>>
      /\ L[k].kind = "closer" =>
            t.messages = FlushToolResults(s).messages /\ t.uses = s.uses /\ t.results = <<>>
      /\ L[k].kind = "call" =>
            t.messages = s.messages /\ t.uses = Append(s.uses, L[k].call) /\ t.results = <<>>
      /\ L[k].kind = "result" =>
            /\ t.messages = FlushAssistant(s).messages /\ t.text = 0 /\ t.uses = <<>>
            /\ t.results = IF L[k].call \in CallsIn(L, V) THEN Append(s.results, L[k].call)
                           ELSE s.results
      /\ L[k].kind \notin {"prompt", "user", "closer", "call", "result"} => t = s
  <2>1. PICK e \in Event : e = L[k]
        BY <1>1
  <2>2. PICK C : C = CallsIn(L, V)
        OBVIOUS
  <2>3. t = AddEvent(s, e, k, C)
        BY <2>1, <2>2
  <2>4. t \in Locals
        BY <1>1, <2>3, RoundLocals
  <2>5. e.kind \in {"prompt", "user"} =>
           \E role \in {"system", "user"} :
              /\ t.messages = Append(flushed.messages, Message(role, k, <<>>, <<>>))
              /\ t.uses = <<>> /\ t.results = <<>>
        BY <1>1, <1>2, <1>3, <2>3, Rounds
  <2>6. e.kind = "closer" =>
           t.messages = FlushToolResults(s).messages /\ t.uses = s.uses /\ t.results = <<>>
        BY <1>1, <1>2, <1>3, <2>3, Rounds
  <2>7. e.kind = "call" =>
           t.messages = s.messages /\ t.uses = Append(s.uses, e.call) /\ t.results = <<>>
        BY <1>1, <1>2, <1>3, <2>3, Rounds
  <2>8. ASSUME e.kind = "result"
        PROVE  /\ t.messages = FlushAssistant(s).messages /\ t.text = 0 /\ t.uses = <<>>
               /\ t.results = IF e.call \in C THEN Append(s.results, e.call) ELSE s.results
        BY <1>1, <2>3, <2>8, ResultRound
  <2>9. e.kind \notin {"prompt", "user", "closer", "call", "result"} => t = s
        BY <1>1, <1>2, <1>3, <2>3, Rounds
  <2>.  QED  BY <2>1, <2>2, <2>4, <2>5, <2>6, <2>7, <2>8, <2>9
<1>5. CASE L[k].kind \in {"prompt", "user"}
  <2>1. Pending(L, V, k - 1) = {}
    <3>.  SUFFICES ASSUME NEW m \in Pending(L, V, k - 1) PROVE FALSE
          OBVIOUS
    <3>1. m \in V /\ L[m].kind = "call" /\ m <= k - 1
          BY DEF Pending, CallsBy
    <3>2. k < m
          BY <1>5, <3>1 DEF Legal
    <3>.  QED  BY <3>1, <3>2
  <2>2. s.uses = <<>>
        BY <1>2, <2>1, ToSets
  <2>3. Closed(flushed.messages) /\ flushed.messages \in Seq(Msg)
        BY <1>2, <1>3, <2>2, FlushWaiting, FlushedLocals
  <2>4. PICK role \in {"system", "user"} :
           /\ t.messages = Append(flushed.messages, Message(role, k, <<>>, <<>>))
           /\ t.uses = <<>> /\ t.results = <<>>
        BY <1>4, <1>5
  <2>5. PICK m : m = Message(role, k, <<>>, <<>>)
        OBVIOUS
  <2>6. m \in Msg /\ m.uses = <<>> /\ m.results = <<>>
        BY <1>1, <2>5 DEF Message, Msg, Roles
  <2>7. Closed(t.messages)
        BY <2>3, <2>4, <2>5, <2>6, ClosedOne
  <2>8. Pending(L, V, k) = {}
        BY <1>1, <1>5, <2>1, PendingStep
  <2>.  QED  BY <1>4, <2>4, <2>7, <2>8, ToSetEmpty DEF PairState, Waiting
<1>6. CASE L[k].kind = "closer"
  <2>1. t.messages = s.messages
        BY <1>2, <1>4, <1>6, Tools
  <2>2. Pending(L, V, k) = Pending(L, V, k - 1)
        BY <1>1, <1>6, PendingStep
  <2>.  QED  BY <1>2, <1>4, <1>6, <2>1, <2>2 DEF PairState, Waiting
<1>7. CASE L[k].kind = "call"
  <2>1. L[k].call = k /\ Pending(L, V, k) = Pending(L, V, k - 1) \cup {k}
        BY <1>1, <1>7, PendingStep DEF Legal
  <2>2. ToSet(t.uses) = ToSet(s.uses) \cup {k}
    <3>1. \A x \in Nat : ToSet(Append(s.uses, x)) = ToSet(s.uses) \cup {x}
          BY <1>2, ToSets
    <3>.  QED  BY <1>1, <1>4, <1>7, <2>1, <3>1
  <2>.  QED  BY <1>2, <1>4, <1>7, <2>1, <2>2 DEF PairState, Waiting
<1>8. CASE L[k].kind = "result"
  <2>1. /\ Pending(L, V, k) = Pending(L, V, k - 1) \ {L[k].call}
        /\ L[k].call \in CallsIn(L, V) => L[k].call \in Pending(L, V, k - 1)
        /\ CallsBy(L, V, k - 1) \subseteq CallsBy(L, V, k)
        BY <1>1, <1>8, PendingStep
  <2>2. CASE s.uses = <<>>
    <3>1. Pending(L, V, k - 1) = {}
          BY <1>2, <2>2, ToSetEmpty
    <3>2. L[k].call \notin CallsIn(L, V) /\ Pending(L, V, k) = {}
          BY <2>1, <3>1
    <3>3. Closed(t.messages)
          BY <1>2, <1>4, <1>8, <2>2, FlushWaiting
    <3>.  QED  BY <1>2, <1>4, <1>8, <3>2, <3>3, ToSetEmpty DEF PairState, Waiting
  <2>3. CASE s.uses # <<>>
    <3>1. PICK m : m = Message("assistant", s.text, s.uses, <<>>)
          OBVIOUS
    <3>2. m \in Msg /\ m.role = "assistant" /\ m.uses = s.uses /\ m.results = <<>>
          BY <3>1 DEF Message, Msg, Roles, Locals
    <3>3. t.messages = Append(s.messages, m)
          BY <1>4, <1>8, <2>3, <3>1, Assistant
    <3>4. HalfOpen(t.messages, m)
          BY <1>2, <2>3, <3>2, <3>3 DEF HalfOpen
    <3>5. ToSet(t.results) = IF L[k].call \in CallsIn(L, V) THEN {L[k].call} ELSE {}
      <4>1. CASE L[k].call \in CallsIn(L, V)
        <5>1. <<>> \in Seq(Nat) /\ t.results = Append(<<>>, L[k].call)
              BY <1>2, <1>4, <1>8, <4>1
        <5>2. ToSet(t.results) = ToSet(<<>>) \cup {L[k].call}
              BY <1>1, <5>1, ToSetOne, ToSetEmpty
        <5>.  QED  BY <4>1, <5>2, ToSetEmpty
      <4>2. CASE L[k].call \notin CallsIn(L, V)
            BY <1>2, <1>4, <1>8, <4>2, ToSetEmpty
      <4>.  QED  BY <4>1, <4>2
    <3>6. L[k].call \in Pending(L, V, k - 1) => L[k].call \in CallsIn(L, V)
          BY DEF Pending, CallsBy, CallsIn, Legal
    <3>7. ToSet(m.uses) = Pending(L, V, k) \cup ToSet(t.results)
          BY <1>2, <2>1, <3>2, <3>5, <3>6
    <3>8. ToSet(t.results) \subseteq CallsBy(L, V, k)
      <4>1. Pending(L, V, k - 1) \subseteq CallsBy(L, V, k - 1)
            BY DEF Pending
      <4>.  QED  BY <2>1, <3>5, <4>1
    <3>9. \A m0 \in Pending(L, V, k) : m0 < k
      <4>1. \A m0 \in Pending(L, V, k - 1) : m0 \in V /\ m0 <= k - 1
            BY DEF Pending, CallsBy
      <4>2. \A m0 \in V : m0 <= k - 1 => m0 < k
            BY <1>1
      <4>.  QED  BY <2>1, <4>1, <4>2
    <3>10. k \in V /\ L[k].kind = "result" /\ k <= k
          BY <1>1, <1>8
    <3>11. t.text = 0 /\ t.uses = <<>> /\ t \in Locals
          BY <1>4, <1>8
    <3>12. Collecting(t, L, V, k)
          BY <3>4, <3>7, <3>8, <3>9, <3>10, <3>11, Zenon DEF Collecting
    <3>.  QED  BY <3>11, <3>12 DEF PairState
  <2>.  QED  BY <2>2, <2>3
<1>9. CASE L[k].kind \notin {"prompt", "user", "closer", "call", "result"}
  <2>1. Pending(L, V, k) = Pending(L, V, k - 1) /\ t = s
        BY <1>1, <1>4, <1>9, PendingStep
  <2>.  QED  BY <1>2, <1>4, <2>1 DEF PairState, Waiting
<1>.  QED  BY <1>5, <1>6, <1>7, <1>8, <1>9

\* A round, while results are collected.
LEMMA CollectingStep ==
    ASSUME NEW L \in Seq(Event), NEW V \in SUBSET (1..Len(L)), Legal(L, V), NEW k \in V,
           NEW s \in Locals, Collecting(s, L, V, k - 1),
           NEW t, t = AddEvent(s, L[k], k, CallsIn(L, V))
    PROVE  PairState(t, L, V, k)
<1>1. k \in Nat /\ k \in 1..Len(L) /\ L[k] \in Event /\ L[k].call \in Nat
  <2>1. k \in Nat /\ k \in 1..Len(L) /\ L[k] \in Event
        OBVIOUS
  <2>.  QED  BY <2>1 DEF Event
<1>2. PICK m : HalfOpen(s.messages, m)
               /\ ToSet(m.uses) = Pending(L, V, k - 1) \cup ToSet(s.results)
      BY DEF Collecting
<1>3. PICK n \in V : /\ L[n].kind = "result" /\ n <= k - 1
                     /\ \A p \in Pending(L, V, k - 1) : p < n
      BY DEF Collecting
<1>4. /\ s.text = 0 /\ s.uses = <<>> /\ ToSet(s.results) \subseteq CallsBy(L, V, k - 1)
      /\ s.results \in Seq(Nat)
      BY DEF Collecting, Locals
<1>5. /\ t \in Locals
      /\ L[k].kind = "closer" =>
            t.messages = FlushToolResults(s).messages /\ t.uses = s.uses /\ t.results = <<>>
      /\ L[k].kind = "call" =>
            IF s.results = <<>> THEN TRUE
            ELSE /\ t.messages = Flush(s).messages
                 /\ t.uses = Append(<<>>, L[k].call) /\ t.results = <<>>
      /\ L[k].kind = "result" =>
            /\ t.messages = FlushAssistant(s).messages /\ t.text = 0 /\ t.uses = <<>>
            /\ t.results = IF L[k].call \in CallsIn(L, V) THEN Append(s.results, L[k].call)
                           ELSE s.results
      /\ L[k].kind \notin {"prompt", "user", "closer", "call", "result"} => t = s
  <2>1. PICK e \in Event : e = L[k]
        BY <1>1
  <2>2. PICK C : C = CallsIn(L, V)
        OBVIOUS
  <2>3. t = AddEvent(s, e, k, C)
        BY <2>1, <2>2
  <2>4. t \in Locals
        BY <1>1, <2>3, RoundLocals
  <2>5. e.kind = "closer" =>
           t.messages = FlushToolResults(s).messages /\ t.uses = s.uses /\ t.results = <<>>
        BY <1>1, <2>3, Rounds
  <2>6. e.kind = "call" =>
           IF s.results = <<>> THEN TRUE
           ELSE /\ t.messages = Flush(s).messages
                /\ t.uses = Append(<<>>, e.call) /\ t.results = <<>>
        BY <1>1, <2>3, Rounds
  <2>7. ASSUME e.kind = "result"
        PROVE  /\ t.messages = FlushAssistant(s).messages /\ t.text = 0 /\ t.uses = <<>>
               /\ t.results = IF e.call \in C THEN Append(s.results, e.call) ELSE s.results
        BY <1>1, <2>3, <2>7, ResultRound
  <2>8. e.kind \notin {"prompt", "user", "closer", "call", "result"} => t = s
        BY <2>3 DEF AddEvent
  <2>.  QED  BY <2>1, <2>2, <2>4, <2>5, <2>6, <2>7, <2>8
<1>6. \A p \in CallsBy(L, V, k - 1) : p \in V /\ L[p].kind = "call" /\ p <= k - 1 /\ p < k
  <2>1. \A p \in V : p <= k - 1 => p < k
        BY <1>1
  <2>.  QED  BY <2>1 DEF CallsBy
<1>7. Pending(L, V, k - 1) \subseteq CallsBy(L, V, k - 1)
      BY DEF Pending
<1>8. CASE L[k].kind \in {"prompt", "user"}
  <2>1. m.uses \in Seq(Nat) /\ m.uses # <<>>
        BY <1>2 DEF HalfOpen, Msg
  <2>2. PICK p : p \in ToSet(m.uses)
        BY <2>1, ToSets
  <2>3. p \in CallsBy(L, V, k - 1)
        BY <1>2, <1>4, <1>7, <2>2
  <2>4. k < p
    <3>1. p \in V /\ L[p].kind = "call"
          BY <1>6, <2>3
    <3>.  QED  BY <1>8, <3>1 DEF Legal
  <2>5. \A q \in V : q \in Nat
        OBVIOUS
  <2>6. p \in Nat /\ p < k
        BY <1>6, <2>3, <2>5
  <2>.  QED  BY <1>1, <2>4, <2>6
<1>9. CASE L[k].kind \in {"call", "closer"}
  <2>1. Pending(L, V, k - 1) = {}
    <3>.  SUFFICES ASSUME NEW p \in Pending(L, V, k - 1) PROVE FALSE
          OBVIOUS
    <3>1. /\ p \in V /\ L[p].kind = "call" /\ p < n /\ n < k
          /\ \A l \in V : L[l].kind = "result" /\ L[l].call = p => k - 1 < l
      <4>1. n < k
            BY <1>3
      <4>2. \A l \in V : L[l].kind = "result" /\ L[l].call = p => k - 1 < l
            BY DEF Pending
      <4>.  QED  BY <1>3, <1>6, <1>7, <4>1, <4>2
    <3>2. PICK l \in V : L[l].kind = "result" /\ L[l].call = p /\ l < k
          BY <1>9, <1>3, <3>1 DEF Legal
    <3>.  QED  BY <3>1, <3>2
  <2>2. ToSet(m.uses) = ToSet(s.results)
        BY <1>2, <2>1
  <2>3. /\ Closed(FlushToolResults(s).messages) /\ s.results # <<>>
        /\ Flush(s).messages = FlushToolResults(s).messages
        BY <1>2, <1>4, <2>2, FlushCollecting
  <2>4. CASE L[k].kind = "call"
    <3>1. L[k].call = k /\ Pending(L, V, k) = {k}
          BY <1>1, <2>1, <2>4, PendingStep DEF Legal
    <3>3. ToSet(t.uses) = {k}
          BY <1>1, <1>5, <2>3, <2>4, <3>1, ToSetOne
    <3>.  QED  BY <1>5, <2>3, <2>4, <3>1, <3>3 DEF PairState, Waiting
  <2>5. CASE L[k].kind = "closer"
    <3>1. Pending(L, V, k) = {}
          BY <1>1, <2>1, <2>5, PendingStep
    <3>.  QED  BY <1>4, <1>5, <2>3, <2>5, <3>1, ToSetEmpty DEF PairState, Waiting
  <2>.  QED  BY <1>9, <2>4, <2>5
<1>10. CASE L[k].kind = "result"
  <2>1. /\ Pending(L, V, k) = Pending(L, V, k - 1) \ {L[k].call}
        /\ L[k].call \in CallsIn(L, V) => L[k].call \in Pending(L, V, k - 1)
        /\ CallsBy(L, V, k - 1) \subseteq CallsBy(L, V, k)
        BY <1>1, <1>10, PendingStep
  <2>2. t.messages = s.messages
        BY <1>4, <1>5, <1>10 DEF FlushAssistant
  <2>3. ToSet(t.results) = IF L[k].call \in CallsIn(L, V) THEN ToSet(s.results) \cup {L[k].call}
                           ELSE ToSet(s.results)
    <3>1. \A x \in Nat : ToSet(Append(s.results, x)) = ToSet(s.results) \cup {x}
      <4>1. s.results \in Seq(Nat)
            BY <1>4
      <4>.  QED  BY <4>1, ToSets
    <3>.  QED  BY <1>1, <1>5, <1>10, <3>1
  <2>4. L[k].call \in Pending(L, V, k - 1) => L[k].call \in CallsIn(L, V)
        BY DEF Pending, CallsBy, CallsIn, Legal
  <2>5. ToSet(m.uses) = Pending(L, V, k) \cup ToSet(t.results)
        BY <1>2, <2>1, <2>3, <2>4
  <2>6. ToSet(t.results) \subseteq CallsBy(L, V, k)
        BY <1>4, <1>7, <2>1, <2>3
  <2>7. n \in V /\ L[n].kind = "result" /\ n <= k /\ \A p \in Pending(L, V, k) : p < n
    <3>1. n <= k
          BY <1>3
    <3>.  QED  BY <1>3, <2>1, <3>1
  <2>8. t.text = 0 /\ t.uses = <<>> /\ t \in Locals /\ HalfOpen(t.messages, m)
        BY <1>2, <1>5, <1>10, <2>2
  <2>9. Collecting(t, L, V, k)
        BY <2>5, <2>6, <2>7, <2>8, Zenon DEF Collecting
  <2>.  QED  BY <2>8, <2>9 DEF PairState
<1>11. CASE L[k].kind \notin {"prompt", "user", "closer", "call", "result"}
  <2>1. /\ Pending(L, V, k) = Pending(L, V, k - 1) /\ t = s
        /\ CallsBy(L, V, k - 1) \subseteq CallsBy(L, V, k)
        BY <1>1, <1>5, <1>11, PendingStep
  <2>2. n <= k
        BY <1>3
  <2>3. Collecting(s, L, V, k)
        BY <1>2, <1>3, <1>4, <2>1, <2>2, Zenon DEF Collecting
  <2>.  QED  BY <2>1, <2>3 DEF PairState
<1>.  QED  BY <1>8, <1>9, <1>10, <1>11

\* A round, whichever way the calls wait.
LEMMA PairStep ==
    ASSUME NEW L \in Seq(Event), NEW V \in SUBSET (1..Len(L)), Legal(L, V), NEW k \in 1..Len(L),
           NEW s \in Locals, PairState(s, L, V, k - 1),
           NEW t, t = IF k \in V THEN AddEvent(s, L[k], k, CallsIn(L, V)) ELSE s
    PROVE  PairState(t, L, V, k)
<1>1. CASE k \in V
      BY <1>1, WaitingStep, CollectingStep DEF PairState
<1>2. CASE k \notin V
  <2>1. /\ Pending(L, V, k) = Pending(L, V, k - 1) /\ t = s
        /\ CallsBy(L, V, k - 1) \subseteq CallsBy(L, V, k)
        BY <1>2, PendingStep
  <2>2. CASE Waiting(s, L, V, k - 1)
        BY <2>1, <2>2 DEF PairState, Waiting
  <2>3. CASE Collecting(s, L, V, k - 1)
    <3>1. \A n \in V : n <= k - 1 => n <= k
          OBVIOUS
    <3>2. Collecting(s, L, V, k)
          BY <2>1, <2>3, <3>1 DEF Collecting
    <3>.  QED  BY <2>1, <3>2 DEF PairState
  <2>.  QED  BY <2>2, <2>3 DEF PairState
<1>.  QED  BY <1>1, <1>2

\* If a view is legal, what build_context makes of it is paired.
LEMMA LegalPaired ==
    ASSUME NEW L \in Seq(Event), NEW V \in SUBSET (1..Len(L)), Legal(L, V)
    PROVE  Paired(BuildContext(L, V))
<1>1. PICK f : /\ BuildContext(L, V) = Flush(f[Len(L)]).messages
               /\ f[0] = Nothing
               /\ \A n \in 1..Len(L) :
                     f[n] = IF n \in V THEN AddEvent(f[n - 1], L[n], n, CallsIn(L, V))
                            ELSE f[n - 1]
      BY FoldShape
<1>2. PICK N \in Nat : N = Len(L) /\ V \subseteq 1..N /\ V \subseteq Nat
      OBVIOUS
<1>.  DEFINE S == {k \in 0..N : PairState(f[k], L, V, k)}
<1>3. 0 \in S
  <2>1. \A n \in V : ~ (n <= 0)
        BY <1>2
  <2>2. CallsBy(L, V, 0) = {} /\ Pending(L, V, 0) = {}
        BY <2>1 DEF CallsBy, Pending
  <2>3. <<>> \in Seq(Msg) /\ <<>> \in Seq(Nat) /\ DOMAIN <<>> = {}
        OBVIOUS
  <2>4. /\ Nothing \in Locals /\ Nothing.messages = <<>>
        /\ Nothing.uses = <<>> /\ Nothing.results = <<>>
        BY <2>3 DEF Nothing, Locals
  <2>5. Closed(Nothing.messages)
        BY <2>3, <2>4 DEF Closed
  <2>6. PairState(Nothing, L, V, 0)
        BY <2>2, <2>4, <2>5, ToSetEmpty DEF PairState, Waiting
  <2>7. PairState(f[0], L, V, 0)
        BY <1>1, <2>6
  <2>8. 0 \in 0..N
        OBVIOUS
  <2>.  QED  BY <2>7, <2>8, Zenon
<1>4. ASSUME NEW k \in 1..N, k - 1 \in S
      PROVE  k \in S
  <2>0. k \in Nat /\ k \in 1..Len(L) /\ L[k] \in Event
        BY <1>2
  <2>1. PICK s : s = f[k - 1] /\ s \in Locals /\ PairState(s, L, V, k - 1)
        BY <1>4 DEF PairState
  <2>2. PICK t : t = f[k] /\ t = IF k \in V THEN AddEvent(s, L[k], k, CallsIn(L, V)) ELSE s
        BY <1>1, <2>0, <2>1
  <2>3. PairState(t, L, V, k) => k \in S
    <3>1. k \in 0..N /\ t = f[k]
          BY <2>0, <2>2
    <3>.  QED  BY <3>1, Zenon
  <2>4. PairState(t, L, V, k)
        BY <2>0, <2>1, <2>2, PairStep
  <2>.  QED  BY <2>3, <2>4
<1>.  HIDE DEF S
<1>5. N \in S
  <2>1. \A k \in 0..N : k \in S
        BY <1>3, <1>4, Up
  <2>.  QED  BY <2>1
<1>6. PICK s : s = f[N] /\ PairState(s, L, V, N) /\ s \in Locals
      BY <1>5 DEF S, PairState
<1>7. BuildContext(L, V) = Flush(s).messages
      BY <1>1, <1>2, <1>6
<1>8. Pending(L, V, N) = {}
  <2>.  SUFFICES ASSUME NEW m \in Pending(L, V, N) PROVE FALSE
        OBVIOUS
  <2>1. m \in V /\ L[m].kind = "call" /\ \A n \in V : L[n].kind = "result" /\ L[n].call = m => N < n
        BY DEF Pending, CallsBy
  <2>2. PICK n \in V : L[n].kind = "result" /\ L[n].call = m
        BY <2>1 DEF Legal
  <2>.  QED  BY <1>2, <2>1, <2>2
<1>9. CASE Waiting(s, L, V, N)
  <2>1. s.uses = <<>>
    <3>1. s.uses \in Seq(Nat) /\ ToSet(s.uses) = {}
          BY <1>6, <1>8, <1>9 DEF Waiting, Locals
    <3>.  QED  BY <3>1, ToSets
  <2>2. Closed(Flush(s).messages)
        BY <1>6, <1>9, <2>1, FlushWaiting DEF Waiting
  <2>.  QED  BY <1>6, <1>7, <2>2, FlushedLocals, ClosedPaired
<1>10. CASE Collecting(s, L, V, N)
  <2>1. PICK m : HalfOpen(s.messages, m) /\ ToSet(m.uses) = ToSet(s.results)
        BY <1>8, <1>10 DEF Collecting
  <2>2. Closed(Flush(s).messages)
        BY <1>6, <1>10, <2>1, FlushCollecting DEF Collecting
  <2>.  QED  BY <1>6, <1>7, <2>2, FlushedLocals, ClosedPaired
<1>.  QED  BY <1>6, <1>9, <1>10 DEF PairState

-----------------------------------------------------------------------------
(* Results follow their calls *)

\* What that asks of a view of a log, whatever was dropped: a call's id is its position; a
\* result comes after the call it answers; the prompt and the users' messages come before
\* the calls; and a turn begins after what results of the one before the view has.
Orderly(L, V) ==
    /\ \A m \in V : L[m].kind = "call" => L[m].call = m
    /\ \A n \in V : L[n].kind = "result" => L[n].call < n
    /\ \A k, m \in V : L[k].kind \in {"prompt", "user"} /\ L[m].kind = "call" => k < m
    /\ \A k, m, n, l \in V :
          /\ L[k].kind \in {"call", "closer"} /\ L[m].kind = "call" /\ L[n].kind = "result"
          /\ L[l].kind = "result" /\ L[l].call = m /\ m < n /\ n < k
          => l < k

\* The calls up to the k-th event with a result to come.
Open(L, V, k) ==
    {m \in V : /\ m <= k /\ L[m].kind = "call"
               /\ \E l \in V : L[l].kind = "result" /\ L[l].call = m /\ k < l}

\* The results of b are of calls of a.
Follows(b, a) ==
    a.role # "system" /\ b.role # "system" /\ ToSet(b.results) \subseteq ToSet(a.uses)

Followed(ms) ==
    \A i \in DOMAIN ms : ms[i].results # <<>> =>
       i - 1 \in DOMAIN ms /\ Follows(ms[i], ms[i - 1])

EndsWith(ms, a) == \E rest \in Seq(Msg) : ms = Append(rest, a)

\* The locals after the k-th event: the calls with a result to come are in the assistant's
\* message that is not sent yet, or in the last that is, with those of the pending results.
Holding(s, L, V, k) == s.results = <<>> /\ Open(L, V, k) \subseteq ToSet(s.uses)

Gathering(s, L, V, k) ==
    /\ s.text = 0 /\ s.uses = <<>>
    /\ \E a \in Msg : /\ EndsWith(s.messages, a) /\ a.role = "assistant"
                      /\ Open(L, V, k) \cup ToSet(s.results) \subseteq ToSet(a.uses)
    /\ \E n \in V : L[n].kind = "result" /\ n <= k /\ \A m \in Open(L, V, k) : m < n

FollowState(s, L, V, k) ==
    /\ s \in Locals /\ Followed(s.messages)
    /\ Holding(s, L, V, k) \/ Gathering(s, L, V, k)

\* What a round does to the calls with a result to come.
LEMMA OpenStep ==
    ASSUME NEW L \in Seq(Event), NEW V \in SUBSET (1..Len(L)), Orderly(L, V), NEW k \in 1..Len(L)
    PROVE  /\ k \notin V \/ L[k].kind # "call" => Open(L, V, k) \subseteq Open(L, V, k - 1)
           /\ Open(L, V, k) \subseteq Open(L, V, k - 1) \cup {k}
           /\ k \in V /\ L[k].kind = "result" /\ L[k].call \in CallsIn(L, V) =>
                 L[k].call \in Open(L, V, k - 1)
           /\ k \in V /\ L[k].kind \in {"prompt", "user"} => Open(L, V, k - 1) = {}
           /\ /\ k \in V /\ L[k].kind \in {"call", "closer"}
              /\ \E n \in V : L[n].kind = "result" /\ n <= k - 1
                             /\ \A m \in Open(L, V, k - 1) : m < n
              => Open(L, V, k - 1) = {}
<1>1. /\ \A n \in V : n \in Nat /\ (n <= k <=> n <= k - 1 \/ n = k)
      /\ \A n \in V : k < n => k - 1 < n
      /\ \A n \in V : n <= k - 1 => n < k /\ ~ (k < n)
      /\ \A n \in V : n < k => n <= k - 1 /\ ~ (k - 1 < n)
      /\ k - 1 < k
      OBVIOUS
<1>2. \A j : \A m : m \in Open(L, V, j) <=>
         /\ m \in V /\ m <= j /\ L[m].kind = "call"
         /\ \E l \in V : L[l].kind = "result" /\ L[l].call = m /\ j < l
      BY DEF Open
<1>3. ASSUME NEW m \in Open(L, V, k)
      PROVE  m \in Open(L, V, k - 1) \/ (m = k /\ k \in V /\ L[k].kind = "call")
  <2>1. /\ m \in V /\ m <= k /\ L[m].kind = "call"
        /\ \E l \in V : L[l].kind = "result" /\ L[l].call = m /\ k < l
        BY <1>2
  <2>2. \E l \in V : L[l].kind = "result" /\ L[l].call = m /\ k - 1 < l
        BY <1>1, <2>1
  <2>3. m <= k - 1 \/ m = k
        BY <1>1, <2>1
  <2>.  QED  BY <1>2, <2>1, <2>2, <2>3
<1>4. ASSUME k \in V, L[k].kind = "result", L[k].call \in CallsIn(L, V)
      PROVE  L[k].call \in Open(L, V, k - 1)
  <2>1. PICK m \in V : m = L[k].call /\ L[m].kind = "call"
        BY <1>4 DEF CallsIn, Orderly
  <2>2. m < k
        BY <1>4, <2>1 DEF Orderly
  <2>3. m <= k - 1
        BY <1>1, <2>2
  <2>.  QED  BY <1>1, <1>2, <1>4, <2>1, <2>3
<1>5. ASSUME k \in V, L[k].kind \in {"prompt", "user"}, NEW m \in Open(L, V, k - 1)
      PROVE  FALSE
  <2>1. m \in V /\ L[m].kind = "call" /\ m <= k - 1
        BY <1>2
  <2>2. k < m
        BY <1>5, <2>1 DEF Orderly
  <2>.  QED  BY <1>1, <2>1, <2>2
<1>6. ASSUME k \in V, L[k].kind \in {"call", "closer"}, NEW n \in V, L[n].kind = "result",
             n <= k - 1, NEW m \in Open(L, V, k - 1), m < n
      PROVE  FALSE
  <2>1. m \in V /\ L[m].kind = "call"
        BY <1>2
  <2>2. PICK l \in V : L[l].kind = "result" /\ L[l].call = m /\ k - 1 < l
        BY <1>2
  <2>3. n < k
        BY <1>1, <1>6
  <2>4. l < k
        BY <1>6, <2>1, <2>2, <2>3 DEF Orderly
  <2>.  QED  BY <1>1, <2>2, <2>4
<1>7. k \notin V \/ L[k].kind # "call" => Open(L, V, k) \subseteq Open(L, V, k - 1)
      BY <1>3
<1>8. Open(L, V, k) \subseteq Open(L, V, k - 1) \cup {k}
      BY <1>3
<1>.  QED  BY <1>4, <1>5, <1>6, <1>7, <1>8

\* A message without results, or with those of the last one's calls, leaves the list in order.
LEMMA FollowedMore ==
    ASSUME NEW ms \in Seq(Msg), Followed(ms), NEW b \in Msg,
           \/ b.results = <<>>
           \/ \E a : EndsWith(ms, a) /\ Follows(b, a)
    PROVE  Followed(Append(ms, b))
<1>1. PICK more \in Seq(Msg) : more = Append(ms, b)
      BY Longer, Zenon
<1>2. PICK k \in Nat : k = Len(ms)
      OBVIOUS
<1>3. /\ DOMAIN ms = 1..k /\ DOMAIN more = 1..(k + 1) /\ more[k + 1] = b
      /\ \A i \in 1..k : more[i] = ms[i]
      BY <1>1, <1>2, OneMessage
<1>4. ASSUME NEW i \in 1..(k + 1), more[i].results # <<>>
      PROVE  i - 1 \in DOMAIN more /\ Follows(more[i], more[i - 1])
  <2>1. CASE i \in 1..k
    <3>1. i - 1 \in 1..k /\ Follows(ms[i], ms[i - 1])
          BY <1>3, <1>4, <2>1 DEF Followed
    <3>.  QED  BY <1>3, <2>1, <3>1
  <2>2. CASE i = k + 1
    <3>1. PICK a : EndsWith(ms, a) /\ Follows(b, a)
          BY <1>3, <1>4, <2>2
    <3>2. PICK rest \in Seq(Msg) : ms = Append(rest, a)
          BY <3>1 DEF EndsWith
    <3>3. Len(ms) = Len(rest) + 1 /\ ms[Len(rest) + 1] = a /\ Len(rest) \in Nat
          BY <3>2
    <3>4. k \in 1..k /\ ms[k] = a /\ i - 1 = k
          BY <1>2, <2>2, <3>3
    <3>.  QED  BY <1>3, <2>2, <3>1, <3>4
  <2>.  QED  BY <2>1, <2>2
<1>.  QED  BY <1>1, <1>3, <1>4 DEF Followed

\* The flushes leave the results after their calls.
LEMMA FlushHolding ==
    ASSUME NEW s \in Locals, Followed(s.messages), s.results = <<>>
    PROVE  Followed(FlushAssistant(s).messages) /\ Followed(Flush(s).messages)
<1>1. PICK a : a = FlushAssistant(s)
      OBVIOUS
<1>2. /\ a \in Locals /\ a.results = <<>>
      /\ a.messages = IF s.text = 0 /\ s.uses = <<>> THEN s.messages
                      ELSE Append(s.messages, Message("assistant", s.text, s.uses, <<>>))
      BY <1>1, Assistant
<1>3. PICK m : m = Message("assistant", s.text, s.uses, <<>>)
      OBVIOUS
<1>4. m \in Msg /\ m.results = <<>> /\ s.messages \in Seq(Msg)
      BY <1>3 DEF Message, Msg, Roles, Locals
<1>5. Followed(a.messages)
      BY <1>2, <1>3, <1>4, FollowedMore
<1>6. Flush(s).messages = a.messages
      BY <1>1, <1>2, Tools DEF Flush
<1>.  QED  BY <1>1, <1>5, <1>6

LEMMA FlushGathering ==
    ASSUME NEW s \in Locals, Followed(s.messages), s.text = 0, s.uses = <<>>, NEW a \in Msg,
           EndsWith(s.messages, a), a.role = "assistant", ToSet(s.results) \subseteq ToSet(a.uses)
    PROVE  /\ Followed(FlushToolResults(s).messages)
           /\ Flush(s).messages = FlushToolResults(s).messages
<1>1. PICK b : b = Message("tool", 0, <<>>, s.results)
      OBVIOUS
<1>2. b \in Msg /\ b.results = s.results /\ b.role = "tool" /\ s.messages \in Seq(Msg)
      BY <1>1 DEF Message, Msg, Roles, Locals
<1>3. Follows(b, a)
      BY <1>2 DEF Follows
<1>4. Followed(Append(s.messages, b))
      BY <1>2, <1>3, FollowedMore
<1>5. FlushToolResults(s).messages = IF s.results = <<>> THEN s.messages ELSE Append(s.messages, b)
      BY <1>1, Tools
<1>6. FlushAssistant(s) = s
      BY DEF FlushAssistant
<1>.  QED  BY <1>4, <1>5, <1>6 DEF Flush

LEMMA FollowFlushed ==
    ASSUME NEW L, NEW V, NEW k, NEW s, FollowState(s, L, V, k)
    PROVE  Followed(Flush(s).messages) /\ Flush(s).messages \in Seq(Msg)
<1>1. s \in Locals /\ Followed(s.messages)
      BY DEF FollowState
<1>2. CASE Holding(s, L, V, k)
      BY <1>1, <1>2, FlushHolding, FlushedLocals DEF Holding
<1>3. CASE Gathering(s, L, V, k)
      BY <1>1, <1>3, FlushGathering, FlushedLocals DEF Gathering
<1>.  QED  BY <1>2, <1>3 DEF FollowState

\* What rounds do to the parts of the locals that matter here.
LEMMA FollowRounds ==
    ASSUME NEW s \in Locals, NEW e \in Event, NEW k \in Nat, NEW C,
           NEW t, t = AddEvent(s, e, k, C), NEW flushed, flushed = Flush(s)
    PROVE  /\ t \in Locals
           /\ e.kind \in {"prompt", "user"} =>
                 \E m \in Msg : /\ t.messages = Append(flushed.messages, m)
                                /\ m.results = <<>> /\ t.results = <<>>
           /\ e.kind = "closer" =>
                 t.messages = FlushToolResults(s).messages /\ t.uses = s.uses /\ t.results = <<>>
           /\ e.kind = "call" =>
                 /\ t.results = <<>>
                 /\ IF s.results = <<>>
                    THEN t.messages = s.messages /\ t.uses = Append(s.uses, e.call)
                    ELSE t.messages = flushed.messages /\ t.uses = Append(<<>>, e.call)
           /\ e.kind \notin {"prompt", "user", "closer", "call", "result"} => t = s
<1>1. t \in Locals
      BY RoundLocals
<1>2. ASSUME e.kind \in {"prompt", "user"}
      PROVE  \E m \in Msg : /\ t.messages = Append(flushed.messages, m)
                            /\ m.results = <<>> /\ t.results = <<>>
  <2>1. PICK role \in {"system", "user"} :
           /\ t.messages = Append(flushed.messages, Message(role, k, <<>>, <<>>))
           /\ t.results = <<>>
        BY <1>2, Rounds
  <2>2. PICK m : m = Message(role, k, <<>>, <<>>)
        OBVIOUS
  <2>3. m \in Msg /\ m.results = <<>>
        BY <2>2 DEF Message, Msg, Roles
  <2>.  QED  BY <2>1, <2>2, <2>3
<1>3. e.kind = "closer" =>
         t.messages = FlushToolResults(s).messages /\ t.uses = s.uses /\ t.results = <<>>
      BY Rounds
<1>4. e.kind = "call" =>
         /\ t.results = <<>>
         /\ IF s.results = <<>>
            THEN t.messages = s.messages /\ t.uses = Append(s.uses, e.call)
            ELSE t.messages = flushed.messages /\ t.uses = Append(<<>>, e.call)
      BY Rounds
<1>5. e.kind \notin {"prompt", "user", "closer", "call", "result"} => t = s
      BY Rounds
<1>.  QED  BY <1>1, <1>2, <1>3, <1>4, <1>5

\* A round of a result.
LEMMA FollowResult ==
    ASSUME NEW L \in Seq(Event), NEW V \in SUBSET (1..Len(L)), Orderly(L, V), NEW k \in V,
           L[k].kind = "result", NEW s, FollowState(s, L, V, k - 1),
           NEW t, t = AddEvent(s, L[k], k, CallsIn(L, V))
    PROVE  FollowState(t, L, V, k)
<1>1. PICK e \in Event : e = L[k] /\ k \in Nat /\ k \in 1..Len(L)
      OBVIOUS
<1>2. s \in Locals /\ Followed(s.messages) /\ s.results \in Seq(Nat) /\ s.uses \in Seq(Nat)
      /\ s.messages \in Seq(Msg) /\ e.call \in Nat
      BY DEF FollowState, Locals, Event
<1>3. /\ t \in Locals /\ t.messages = FlushAssistant(s).messages /\ t.text = 0 /\ t.uses = <<>>
      /\ t.results = IF e.call \in CallsIn(L, V) THEN Append(s.results, e.call) ELSE s.results
  <2>1. PICK C : C = CallsIn(L, V)
        OBVIOUS
  <2>2. s \in Locals /\ e.kind = "result" /\ k \in Nat /\ t = AddEvent(s, e, k, C)
        BY <1>1, <1>2, <2>1
  <2>3. /\ t \in Locals /\ t.messages = FlushAssistant(s).messages /\ t.text = 0 /\ t.uses = <<>>
        /\ t.results = IF e.call \in C THEN Append(s.results, e.call) ELSE s.results
        BY <2>2, ResultRound
  <2>.  QED  BY <2>1, <2>3
<1>4. /\ Open(L, V, k) \subseteq Open(L, V, k - 1)
      /\ e.call \in CallsIn(L, V) => e.call \in Open(L, V, k - 1)
      BY <1>1, OpenStep
<1>5. ToSet(t.results) \subseteq ToSet(s.results) \cup Open(L, V, k - 1)
  <2>1. ToSet(Append(s.results, e.call)) = ToSet(s.results) \cup {e.call}
        BY <1>2, ToSets
  <2>.  QED  BY <1>3, <1>4, <2>1
<1>6. CASE Holding(s, L, V, k - 1)
  <2>1. s.results = <<>> /\ Open(L, V, k - 1) \subseteq ToSet(s.uses) /\ Followed(t.messages)
        BY <1>2, <1>3, <1>6, FlushHolding DEF Holding
  <2>2. CASE s.uses = <<>>
    <3>1. Open(L, V, k - 1) = {}
          BY <2>1, <2>2, ToSetEmpty
    <3>2. t.results = <<>> /\ Open(L, V, k) = {}
          BY <1>3, <1>4, <2>1, <3>1
    <3>.  QED  BY <1>3, <2>1, <3>2 DEF FollowState, Holding
  <2>3. CASE s.uses # <<>>
    <3>1. PICK a : a = Message("assistant", s.text, s.uses, <<>>)
          OBVIOUS
    <3>2. a \in Msg /\ a.role = "assistant" /\ a.uses = s.uses
          BY <1>2, <3>1 DEF Message, Msg, Roles, Locals
    <3>3. EndsWith(t.messages, a)
          BY <1>2, <1>3, <2>3, <3>1, Assistant DEF EndsWith
    <3>4. Open(L, V, k) \cup ToSet(t.results) \subseteq ToSet(a.uses)
          BY <1>4, <1>5, <2>1, <3>2, ToSetEmpty
    <3>5. \A m \in Open(L, V, k) : m < k
      <4>1. \A m \in Open(L, V, k - 1) : m \in V /\ m <= k - 1
            BY DEF Open
      <4>2. \A m \in V : m <= k - 1 => m < k
            BY <1>1
      <4>.  QED  BY <1>4, <4>1, <4>2
    <3>6. k <= k
          BY <1>1
    <3>7. Gathering(t, L, V, k)
          BY <1>3, <3>2, <3>3, <3>4, <3>5, <3>6 DEF Gathering
    <3>.  QED  BY <1>3, <2>1, <3>7 DEF FollowState
  <2>.  QED  BY <2>2, <2>3
<1>7. CASE Gathering(s, L, V, k - 1)
  <2>1. s.text = 0 /\ s.uses = <<>>
        BY <1>7 DEF Gathering
  <2>2. PICK a \in Msg : /\ EndsWith(s.messages, a) /\ a.role = "assistant"
                         /\ Open(L, V, k - 1) \cup ToSet(s.results) \subseteq ToSet(a.uses)
        BY <1>7 DEF Gathering
  <2>3. PICK n \in V : L[n].kind = "result" /\ n <= k - 1 /\ \A m \in Open(L, V, k - 1) : m < n
        BY <1>7 DEF Gathering
  <2>4. t.messages = s.messages
        BY <1>2, <1>3, <2>1, Assistant
  <2>5. Open(L, V, k) \cup ToSet(t.results) \subseteq ToSet(a.uses)
        BY <1>4, <1>5, <2>2
  <2>6. n <= k /\ \A m \in Open(L, V, k) : m < n
    <3>1. n \in Nat
          OBVIOUS
    <3>.  QED  BY <1>1, <1>4, <2>3, <3>1
  <2>7. Gathering(t, L, V, k)
        BY <1>3, <2>2, <2>3, <2>4, <2>5, <2>6 DEF Gathering
  <2>.  QED  BY <1>2, <1>3, <2>4, <2>7 DEF FollowState
<1>.  QED  BY <1>6, <1>7 DEF FollowState

\* A round of any event.
LEMMA FollowStep ==
    ASSUME NEW L \in Seq(Event), NEW V \in SUBSET (1..Len(L)), Orderly(L, V), NEW k \in 1..Len(L),
           NEW s, FollowState(s, L, V, k - 1),
           NEW t, t = IF k \in V THEN AddEvent(s, L[k], k, CallsIn(L, V)) ELSE s
    PROVE  FollowState(t, L, V, k)
<1>1. PICK e \in Event : e = L[k] /\ k \in Nat
      OBVIOUS
<1>2. s \in Locals /\ Followed(s.messages) /\ s.uses \in Seq(Nat) /\ e.call \in Nat
      BY DEF FollowState, Locals, Event
<1>3. PICK flushed : flushed = Flush(s)
      OBVIOUS
<1>4. ASSUME k \in V
      PROVE  /\ t \in Locals
             /\ e.kind \in {"prompt", "user"} =>
                   \E m \in Msg : /\ t.messages = Append(flushed.messages, m)
                                  /\ m.results = <<>> /\ t.results = <<>>
             /\ e.kind = "closer" =>
                   /\ t.messages = FlushToolResults(s).messages
                   /\ t.uses = s.uses /\ t.results = <<>>
             /\ e.kind = "call" =>
                   /\ t.results = <<>>
                   /\ IF s.results = <<>>
                      THEN t.messages = s.messages /\ t.uses = Append(s.uses, e.call)
                      ELSE t.messages = flushed.messages /\ t.uses = Append(<<>>, e.call)
             /\ e.kind \notin {"prompt", "user", "closer", "call", "result"} => t = s
  <2>1. PICK C : C = CallsIn(L, V)
        OBVIOUS
  <2>2. s \in Locals /\ k \in Nat /\ t = AddEvent(s, e, k, C)
        BY <1>1, <1>2, <1>4, <2>1
  <2>3. t \in Locals
        BY <2>2, RoundLocals
  <2>4. e.kind \in {"prompt", "user"} =>
           \E m \in Msg : /\ t.messages = Append(flushed.messages, m)
                          /\ m.results = <<>> /\ t.results = <<>>
        BY <1>3, <2>2, FollowRounds
  <2>5. e.kind = "closer" =>
           t.messages = FlushToolResults(s).messages /\ t.uses = s.uses /\ t.results = <<>>
        BY <1>3, <2>2, FollowRounds
  <2>6. e.kind = "call" =>
           /\ t.results = <<>>
           /\ IF s.results = <<>>
              THEN t.messages = s.messages /\ t.uses = Append(s.uses, e.call)
              ELSE t.messages = flushed.messages /\ t.uses = Append(<<>>, e.call)
        BY <1>3, <2>2, FollowRounds
  <2>7. e.kind \notin {"prompt", "user", "closer", "call", "result"} => t = s
        BY <1>3, <2>2, FollowRounds
  <2>.  QED  BY <2>3, <2>4, <2>5, <2>6, <2>7
<1>5. CASE k \notin V \/ e.kind \notin {"prompt", "user", "closer", "call", "result"}
  <2>1. t = s
        BY <1>1, <1>5, <1>4
  <2>2. Open(L, V, k) \subseteq Open(L, V, k - 1)
        BY <1>1, <1>5, OpenStep
  <2>3. CASE Holding(s, L, V, k - 1)
        BY <1>2, <2>1, <2>2, <2>3 DEF FollowState, Holding
  <2>4. CASE Gathering(s, L, V, k - 1)
    <3>1. \A n \in V : n <= k - 1 => n <= k
          BY <1>1
    <3>2. Gathering(s, L, V, k)
          BY <2>2, <2>4, <3>1 DEF Gathering
    <3>.  QED  BY <1>2, <2>1, <3>2 DEF FollowState
  <2>.  QED  BY <2>3, <2>4 DEF FollowState
<1>6. CASE k \in V /\ e.kind \in {"prompt", "user"}
  <2>1. PICK m \in Msg : /\ t.messages = Append(flushed.messages, m)
                         /\ m.results = <<>> /\ t.results = <<>> /\ t \in Locals
        BY <1>6, <1>4
  <2>2. Followed(t.messages)
        BY <1>3, <2>1, FollowFlushed, FollowedMore
  <2>3. Open(L, V, k) = {}
        BY <1>1, <1>6, OpenStep
  <2>.  QED  BY <2>1, <2>2, <2>3 DEF FollowState, Holding
<1>7. CASE k \in V /\ e.kind \in {"closer", "call"} /\ Holding(s, L, V, k - 1)
  <2>1. /\ t \in Locals /\ t.messages = s.messages /\ t.results = <<>>
        /\ t.uses = IF e.kind = "call" THEN Append(s.uses, e.call) ELSE s.uses
        BY <1>2, <1>7, <1>4, Tools DEF Holding
  <2>2. Open(L, V, k - 1) \subseteq ToSet(s.uses)
        BY <1>7 DEF Holding
  <2>3. CASE e.kind = "call"
    <3>1. e.call = k
          BY <1>1, <1>7, <2>3 DEF Orderly
    <3>2. ToSet(t.uses) = ToSet(s.uses) \cup {k}
          BY <1>2, <2>1, <2>3, <3>1, ToSets
    <3>3. Open(L, V, k) \subseteq ToSet(t.uses)
          BY <2>2, <3>2, OpenStep
    <3>.  QED  BY <1>2, <2>1, <3>3 DEF FollowState, Holding
  <2>4. CASE e.kind = "closer"
    <3>1. Open(L, V, k) \subseteq ToSet(t.uses)
          BY <1>1, <2>1, <2>2, <2>4, OpenStep
    <3>.  QED  BY <1>2, <2>1, <3>1 DEF FollowState, Holding
  <2>.  QED  BY <1>7, <2>3, <2>4
<1>8. CASE k \in V /\ e.kind \in {"closer", "call"} /\ Gathering(s, L, V, k - 1)
  <2>1. Open(L, V, k - 1) = {}
        BY <1>1, <1>8, OpenStep DEF Gathering
  <2>2. /\ Followed(FlushToolResults(s).messages) /\ Followed(flushed.messages)
        /\ s.uses = <<>>
        BY <1>2, <1>8, <1>3, FlushGathering DEF Gathering
  <2>3. CASE e.kind = "closer"
    <3>1. t \in Locals /\ t.messages = FlushToolResults(s).messages /\ t.results = <<>>
          BY <1>8, <1>4, <2>3
    <3>2. Open(L, V, k) = {}
          BY <1>1, <2>1, <2>3, OpenStep
    <3>.  QED  BY <2>2, <3>1, <3>2 DEF FollowState, Holding
  <2>4. CASE e.kind = "call"
    <3>1. /\ t \in Locals /\ t.results = <<>> /\ t.uses = Append(<<>>, e.call)
          /\ t.messages = IF s.results = <<>> THEN s.messages ELSE flushed.messages
          BY <1>8, <1>4, <2>2, <2>4
    <3>2. e.call = k
          BY <1>1, <1>8, <2>4 DEF Orderly
    <3>3. ToSet(t.uses) = {k}
          BY <1>2, <3>1, <3>2, ToSetOne
    <3>4. Open(L, V, k) \subseteq ToSet(t.uses)
          BY <2>1, <3>3, OpenStep
    <3>.  QED  BY <1>2, <2>2, <3>1, <3>4 DEF FollowState, Holding
  <2>.  QED  BY <1>8, <2>3, <2>4
<1>9. CASE k \in V /\ e.kind = "result"
      BY <1>1, <1>9, FollowResult
<1>.  QED  BY <1>5, <1>6, <1>7, <1>8, <1>9 DEF FollowState

\* build_context puts every result of such a view right after its call.
LEMMA OrderlyFollow ==
    ASSUME NEW L \in Seq(Event), NEW V \in SUBSET (1..Len(L)), Orderly(L, V)
    PROVE  ResultsFollow(BuildContext(L, V))
<1>1. PICK f : /\ BuildContext(L, V) = Flush(f[Len(L)]).messages
               /\ f[0] = Nothing
               /\ \A n \in 1..Len(L) :
                     f[n] = IF n \in V THEN AddEvent(f[n - 1], L[n], n, CallsIn(L, V))
                            ELSE f[n - 1]
      BY FoldShape
<1>2. PICK N \in Nat : N = Len(L) /\ V \subseteq 1..N
      OBVIOUS
<1>.  DEFINE S == {k \in 0..N : FollowState(f[k], L, V, k)}
<1>3. 0 \in S
  <2>1. Open(L, V, 0) = {}
    <3>1. \A n \in V : ~ (n <= 0)
          BY <1>2
    <3>.  QED  BY <3>1 DEF Open
  <2>2. <<>> \in Seq(Msg) /\ <<>> \in Seq(Nat) /\ DOMAIN <<>> = {}
        OBVIOUS
  <2>3. Nothing \in Locals /\ Nothing.messages = <<>> /\ Nothing.results = <<>>
        BY <2>2 DEF Nothing, Locals
  <2>4. FollowState(Nothing, L, V, 0)
        BY <2>1, <2>2, <2>3 DEF FollowState, Followed, Holding
  <2>5. FollowState(f[0], L, V, 0) /\ 0 \in 0..N
        BY <1>1, <2>4
  <2>.  QED  BY <2>5, Zenon
<1>4. ASSUME NEW k \in 1..N, k - 1 \in S
      PROVE  k \in S
  <2>1. k \in 1..Len(L) /\ k \in 0..N
        BY <1>2
  <2>2. PICK s : s = f[k - 1] /\ FollowState(s, L, V, k - 1)
        BY <1>4
  <2>3. PICK t : t = f[k] /\ t = IF k \in V THEN AddEvent(s, L[k], k, CallsIn(L, V)) ELSE s
        BY <1>1, <2>1, <2>2
  <2>4. FollowState(t, L, V, k)
        BY <2>1, <2>2, <2>3, FollowStep
  <2>.  QED  BY <2>1, <2>3, <2>4, Zenon
<1>.  HIDE DEF S
<1>5. N \in S
  <2>1. \A k \in 0..N : k \in S
        BY <1>3, <1>4, Up
  <2>.  QED  BY <2>1
<1>6. FollowState(f[N], L, V, N)
      BY <1>5 DEF S
<1>7. PICK ms : ms = BuildContext(L, V) /\ ms \in Seq(Msg) /\ Followed(ms)
      BY <1>1, <1>2, <1>6, FollowFlushed
<1>8. ASSUME NEW j \in DOMAIN ms, ms[j].results # <<>>
      PROVE  \E i \in DOMAIN ms : /\ NextInConversation(ms, i, j)
                                  /\ ToSet(ms[j].results) \subseteq ToSet(ms[i].uses)
  <2>1. PICK i \in DOMAIN ms : i = j - 1 /\ Follows(ms[j], ms[i])
        BY <1>7, <1>8 DEF Followed
  <2>2. i \in Nat /\ i < j /\ (i + 1)..(j - 1) = {}
    <3>1. i \in Nat /\ j \in Nat
          BY <1>7
    <3>.  QED  BY <2>1, <3>1
  <2>.  QED  BY <2>1, <2>2 DEF Follows, NextInConversation
<1>.  QED  BY <1>7, <1>8 DEF ResultsFollow

-----------------------------------------------------------------------------
(* The shape of a log that one run alone has written *)

InLoop == {"top", "compact", "reread", "stream"}

\* The users have spoken before the run begins.
UsersFirst == \A n \in Positions("user") : \A m \in 1..(n - 1) : log[m].kind = "user"

BegunOK == (\E n \in DOMAIN log : log[n].kind # "user") => completed \/ \E r \in Runs : PastSeed(r)

\* The calls before a result are answered before the next turn's calls and closer.
TurnsAnswered ==
    \A k \in Positions("call") \cup Positions("closer"), m \in Positions("call"),
       n \in Positions("result") :
          m < n /\ n < k => \E l \in Positions("result") : log[l].call = m /\ l < k

\* A turn whose closer is followed by another turn's has run its tools.
ClosersApart ==
    \A p, q \in Positions("closer") : p < q => \E n \in Positions("result") : p < n /\ n < q

\* What the first compaction keeps of the events before the last it drops is users'
\* messages. A later one keeps the records before it as well, and brings back what the
\* first one dropped.
RecordsCut ==
    \A d \in Positions("compaction") : (\A c \in Positions("compaction") : d <= c) =>
       /\ log[d].dropped \subseteq 1..(d - 1)
       /\ \A m, n \in 1..(d - 1) :
             m < n /\ m \notin log[d].dropped /\ n \in log[d].dropped => log[m].kind = "user"

\* What holds of a run in its loop.
RunShape(r) ==
    /\ pc[r] \in InLoop \cup Answering => Positions("error") = {}
    /\ pc[r] \in InLoop => \A p \in Positions("closer") : \E n \in Positions("result") : p < n
    /\ pc[r] = "stream" =>
          \A i \in DOMAIN calls[r], n \in Positions("result") : n < calls[r][i]
    /\ pc[r] = "stream" /\ chunks[r] = 0 => read[r] = PageEnd /\ calls[r] = <<>>

LogShape == UsersFirst /\ BegunOK /\ TurnsAnswered /\ ClosersApart /\ RecordsCut

ShapeOK == quiet => LogShape /\ \A r \in Runs : RunShape(r)

\* Where a run writes what, and where it goes from there.
Written ==
    {<<"seed", "prompt", "top">>, <<"compact", "compaction", "reread">>,
     <<"stream", "delta", "stream">>, <<"stream", "call", "stream">>,
     <<"stream", "error", "destroy">>, <<"stream", "closer", "tool">>,
     <<"stream", "closer", "destroy">>, <<"record", "sandbox", "execute">>,
     <<"result", "result", "top">>, <<"result", "result", "tool">>}

Writes(r) == \E e \in Event : log' = Append(log, e) /\ <<pc[r], e.kind, pc'[r]>> \in Written

Moves(r) ==
    /\ \A q \in Runs \ {r} : pc'[q] = pc[q]
    /\ pc'[r] \notin {"new", "seed"}
    /\ (log' = log /\ pc[r] # "result") \/ Writes(r)
    /\ pc'[r] \in InLoop => pc[r] \in InLoop \cup {"seed", "result"}
    /\ pc'[r] \in Answering => pc[r] \in Answering \cup {"stream"}
    /\ pc'[r] = "stream" =>
          \/ /\ pc[r] \in {"top", "reread"} /\ log' = log /\ calls' = calls
             /\ read'[r] = PageEnd
          \/ /\ pc[r] = "stream" /\ chunks'[r] # 0
             /\ \/ calls'[r] = calls[r]
                \/ calls'[r] = Append(calls[r], Len(log) + 1)

\* A step of a run that is not cut off writes what is in Written, or nothing.
LEMMA RunMoves ==
    ASSUME TypeOK, NEW r \in Runs, RunStep(r), ~ completed
    PROVE  Moves(r)
<1>0. /\ pc \in [Runs -> Steps] /\ calls \in [Runs -> Seq(Nat)] /\ log \in Seq(Event)
      /\ chunks \in [Runs -> 0..MaxChunks] /\ read \in [Runs -> 0..Len(log)]
      BY DEF TypeOK, Steps
<1>1. CASE Seed(r)
  <2>1. /\ pc[r] = "seed" /\ pc' = [pc EXCEPT ![r] = "top"]
        /\ log' = log \/ log' = Append(log, Plain("prompt"))
        BY <1>1 DEF Seed, Goto
  <2>2. Plain("prompt") \in Event /\ Plain("prompt").kind = "prompt"
        BY EventsAreEvents
  <2>3. log' = log \/ Writes(r)
        BY <1>0, <2>1, <2>2 DEF Writes, Written
  <2>.  QED  BY <1>0, <2>1, <2>3 DEF Moves, InLoop, Answering
<1>2. CASE TurnBegin(r)
  <2>1. pc[r] = "top" /\ log' = log /\ calls' = calls
        BY <1>2 DEF TurnBegin
  <2>2. \/ pc' = [pc EXCEPT ![r] = "compact"]
        \/ pc' = [pc EXCEPT ![r] = "destroy"]
        \/ pc' = [pc EXCEPT ![r] = "stream"] /\ read' = [read EXCEPT ![r] = PageEnd]
        BY <1>2 DEF TurnBegin, Respond, Goto
  <2>.  QED  BY <1>0, <2>1, <2>2 DEF Moves, InLoop, Answering
<1>3. CASE Reread(r)
  <2>1. pc[r] = "reread" /\ log' = log /\ calls' = calls
        BY <1>3 DEF Reread
  <2>2. \/ pc' = [pc EXCEPT ![r] = "destroy"]
        \/ pc' = [pc EXCEPT ![r] = "stream"] /\ read' = [read EXCEPT ![r] = PageEnd]
        BY <1>3 DEF Reread, Respond, Goto
  <2>.  QED  BY <1>0, <2>1, <2>2 DEF Moves, InLoop, Answering
<1>4. CASE Compact(r)
  <2>.  DEFINE dropped == PlanTruncate(Prefix(read[r]), View(Prefix(read[r])))
               e == Ev("compaction", 0, NoSandbox, dropped)
  <2>1. dropped \in SUBSET Nat
    <3>1. read[r] \in 0..Len(log)
          BY <1>0
    <3>.  QED  BY <3>1, PlanType
  <2>2. /\ pc[r] = "compact" /\ pc' = [pc EXCEPT ![r] = "reread"]
        /\ log' = log \/ log' = Append(log, e)
        BY <1>4 DEF Compact, Emit, Goto
  <2>.  HIDE DEF dropped
  <2>3. e \in Event /\ e.kind = "compaction"
        BY <2>1, EventsAreEvents DEF NoSandbox
  <2>.  HIDE DEF e
  <2>4. log' = log \/ Writes(r)
        BY <1>0, <2>2, <2>3 DEF Writes, Written
  <2>.  QED  BY <1>0, <2>2, <2>4 DEF Moves, InLoop, Answering
<1>5. CASE TextDelta(r) \/ ErrorChunk(r)
  <2>1. /\ pc[r] = "stream" /\ calls' = calls /\ chunks' = [chunks EXCEPT ![r] = @ + 1]
        /\ \E kind \in {"delta", "error"} :
              /\ log' = Append(log, Plain(kind))
              /\ pc' = [pc EXCEPT ![r] = IF kind = "delta" THEN "stream" ELSE "destroy"]
        BY <1>5 DEF TextDelta, ErrorChunk, NextChunk, Emit, Goto
  <2>2. chunks'[r] # 0
        BY <1>0, <2>1
  <2>3. PICK kind \in {"delta", "error"} :
           /\ log' = Append(log, Plain(kind))
           /\ pc' = [pc EXCEPT ![r] = IF kind = "delta" THEN "stream" ELSE "destroy"]
        BY <2>1
  <2>4. Plain(kind) \in Event /\ Plain(kind).kind = kind
        BY EventsAreEvents
  <2>5. Writes(r)
        BY <1>0, <2>1, <2>3, <2>4 DEF Writes, Written
  <2>.  QED  BY <1>0, <2>1, <2>2, <2>3, <2>5 DEF Moves, InLoop, Answering
<1>6. CASE ToolCallEnd(r)
  <2>.  DEFINE e == Ev("call", CallId(r), NoSandbox, {})
  <2>1. /\ pc[r] = "stream" /\ chunks' = [chunks EXCEPT ![r] = @ + 1]
        /\ log' = Append(log, e) /\ pc' = [pc EXCEPT ![r] = "stream"]
        /\ calls' = [calls EXCEPT ![r] = Append(@, Len(log) + 1)]
        BY <1>6 DEF ToolCallEnd, NextChunk, Emit, Goto, CallId
  <2>2. chunks'[r] # 0 /\ calls'[r] = Append(calls[r], Len(log) + 1)
        BY <1>0, <2>1
  <2>3. CallId(r) \in Nat
        BY <1>0 DEF CallId
  <2>4. e \in Event /\ e.kind = "call"
        BY <2>3, EventsAreEvents DEF NoSandbox
  <2>.  HIDE DEF e
  <2>5. Writes(r)
        BY <1>0, <2>1, <2>4 DEF Writes, Written
  <2>.  QED  BY <1>0, <2>1, <2>2, <2>5 DEF Moves, InLoop, Answering
<1>7. CASE EndTurn(r)
  <2>1. /\ pc[r] = "stream"
        /\ log' = log \/ log' = Append(log, Plain("closer"))
        /\ \E to \in {"destroy", "tool"} : pc' = [pc EXCEPT ![r] = to]
        BY <1>7 DEF EndTurn, Emit, Goto
  <2>2. Plain("closer") \in Event /\ Plain("closer").kind = "closer"
        BY EventsAreEvents
  <2>3. log' = log \/ Writes(r)
        BY <1>0, <2>1, <2>2 DEF Writes, Written
  <2>.  QED  BY <1>0, <2>1, <2>3 DEF Moves, InLoop, Answering
<1>8. CASE \/ ToolWithoutSandbox(r) \/ ToolFindsSandbox(r) \/ Provision(r)
           \/ ProvisionFails(r) \/ Execute(r)
  <2>1. /\ pc[r] \in Answering \ {"result"} /\ log' = log
        /\ \E to \in Answering : pc' = [pc EXCEPT ![r] = to]
        BY <1>8 DEF ToolWithoutSandbox, ToolFindsSandbox, Provision, ProvisionFails, Execute,
              Goto, Answering
  <2>.  QED  BY <1>0, <2>1 DEF Moves, InLoop, Answering
<1>9. CASE RecordSandbox(r)
  <2>1. /\ pc[r] = "record" /\ log' = Append(log, Ev("sandbox", 0, sandbox[r], {}))
        /\ pc' = [pc EXCEPT ![r] = "execute"] /\ sandbox[r] \in Nat
        BY <1>9 DEF RecordSandbox, Goto, TypeOK
  <2>2. PICK e : e = Ev("sandbox", 0, sandbox[r], {})
        OBVIOUS
  <2>3. e \in Event /\ e.kind = "sandbox"
        BY <2>1, <2>2, EventsAreEvents
  <2>4. Writes(r)
        BY <1>0, <2>1, <2>2, <2>3 DEF Writes, Written
  <2>.  QED  BY <1>0, <2>1, <2>4 DEF Moves, InLoop, Answering
<1>10. CASE Result(r)
  <2>.  DEFINE e == Ev("result", Head(calls[r]), NoSandbox, {})
  <2>1. /\ pc[r] = "result" /\ log' = Append(log, e)
        /\ \E to \in {"top", "tool"} : pc' = [pc EXCEPT ![r] = to]
        BY <1>10 DEF Result, Emit, Goto
  <2>2. calls[r] # <<>> /\ calls[r] \in Seq(Nat)
        BY <2>1 DEF TypeOK
  <2>3. Head(calls[r]) \in Nat
        BY <2>2
  <2>4. e \in Event /\ e.kind = "result"
        BY <2>3, EventsAreEvents DEF NoSandbox
  <2>.  HIDE DEF e
  <2>5. Writes(r)
        BY <1>0, <2>1, <2>4 DEF Writes, Written
  <2>.  QED  BY <1>0, <2>1, <2>5 DEF Moves, InLoop, Answering
<1>11. CASE TurnsOver(r) \/ DestroySandbox(r) \/ Destroyed(r) \/ MarkComplete(r)
  <2>1. /\ pc[r] \in {"top", "destroy", "complete"} /\ log' = log
        /\ \E to \in {"destroy", "done", "complete"} : pc' = [pc EXCEPT ![r] = to]
        BY <1>0, <1>11 DEF TurnsOver, DestroySandbox, Destroyed, MarkComplete, Goto
  <2>.  QED  BY <1>0, <2>1 DEF Moves, InLoop, Answering
<1>.  QED  BY <1>1, <1>2, <1>3, <1>4, <1>5, <1>6, <1>7, <1>8, <1>9, <1>10, <1>11
           DEF RunStep

\* A plan for a log without a record cuts it: only users' messages are kept from before
\* the last event dropped.
LEMMA PlanCuts ==
    ASSUME TypeOK, Records(log) = {}, NEW k \in 0..Len(log),
           NEW dropped, dropped = PlanTruncate(Prefix(k), View(Prefix(k)))
    PROVE  /\ dropped \subseteq 1..k
           /\ \A m, n \in 1..k :
                 m < n /\ m \notin dropped /\ n \in dropped => log[m].kind = "user"
<1>0. log \in Seq(Event) /\ Len(log) \in Nat /\ k \in Nat
      BY DEF TypeOK
<1>1. PICK p : p = Prefix(k)
      OBVIOUS
<1>2. Len(p) = k /\ \A m \in 1..k : p[m] = log[m] /\ m \in 1..Len(log)
      BY <1>0, <1>1 DEF Prefix
<1>3. View(p) = 1..k
  <2>1. Records(p) = {}
        BY <1>2 DEF Records, IsCompaction
  <2>2. Latest(p) = {}
        BY <2>1 DEF Latest
  <2>3. Dropped(p) = {}
        BY <2>2 DEF Dropped
  <2>.  QED  BY <1>2, <2>3 DEF View
<1>4. dropped = (1..k) \ Kept(p, 1..k)
      BY <1>1, <1>3 DEF PlanTruncate
<1>5. ASSUME NEW m \in 1..k, NEW n \in 1..k, m < n, m \notin dropped, n \in dropped
      PROVE  log[m].kind = "user"
  <2>1. n \notin LastOf(1..k, KeepLastN)
        BY <1>4, <1>5 DEF Kept
  <2>2. m \notin LastOf(1..k, KeepLastN)
    <3>.  DEFINE Above(i) == {j \in 1..k : j > i}
    <3>1. Above(n) \subseteq Above(m)
          BY <1>5
    <3>2. IsFiniteSet(Above(m)) /\ IsFiniteSet(Above(n))
      <4>1. IsFiniteSet(1..k)
            BY <1>0, FS_Interval
      <4>2. Above(m) \subseteq 1..k /\ Above(n) \subseteq 1..k
            OBVIOUS
      <4>.  QED  BY <4>1, <4>2, FS_Subset
    <3>3. Cardinality(Above(n)) <= Cardinality(Above(m))
          BY <3>1, <3>2, FS_Subset
    <3>4. Cardinality(Above(n)) \in Nat /\ Cardinality(Above(m)) \in Nat
          BY <3>2, FS_CardinalityType
    <3>5. ~ (Cardinality(Above(n)) < KeepLastN)
          BY <1>5, <2>1 DEF LastOf
    <3>6. ~ (Cardinality(Above(m)) < KeepLastN)
      <4>.  HIDE DEF Above
      <4>.  QED  BY <3>3, <3>4, <3>5, CompactionAssumption
    <3>.  QED  BY <3>6 DEF LastOf
  <2>3. m \in FirstUser(p, 1..k)
    <3>1. Records(p) \cap (1..k) = {}
          BY <1>2 DEF Records, IsCompaction
    <3>.  QED  BY <1>4, <1>5, <2>2, <3>1 DEF Kept
  <2>.  QED  BY <1>2, <1>5, <2>3 DEF FirstUser
<1>.  QED  BY <1>4, <1>5

\* A step of the run that has the session to itself.
Alone(r) ==
    /\ TypeOK /\ CallsOK /\ AloneOK /\ AnsweredOK /\ LogShape /\ RunShape(r)
    /\ quiet /\ ~ completed /\ Going(r) /\ RunStep(r) /\ Moves(r)
    /\ quiet' /\ (pc'[r] = "done" => completed')
    /\ pc[r] = "seed" => \A n \in DOMAIN log : log[n].kind = "user"
    /\ log \in Seq(Event) /\ Len(log) \in Nat /\ DOMAIN log = 1..Len(log)

LEMMA RunAlone ==
    ASSUME InductiveInvariant, ShapeOK, [Next]_vars, quiet', NEW r \in Runs, RunStep(r)
    PROVE  Alone(r)
<1>1. /\ TypeOK /\ CallsOK /\ AloneOK /\ AnsweredOK /\ quiet /\ Going(r)
      /\ LogShape /\ \A q \in Runs : RunShape(q)
      BY QuietOnlyEnds, RunGoing DEF InductiveInvariant, ShapeOK
<1>2. ~ completed
      BY <1>1 DEF AloneOK
<1>3. Moves(r)
      BY <1>1, <1>2, RunMoves
<1>4. pc'[r] = "done" => completed'
  <2>1. PICK to \in Steps : Leads(r, to)
        BY <1>1, <1>2, RunLeads
  <2>2. pc'[r] = to
        BY <1>1, <2>1 DEF Leads, TypeOK
  <2>.  QED  BY <2>1, <2>2 DEF Leads
<1>5. ASSUME pc[r] = "seed", NEW n \in DOMAIN log
      PROVE  log[n].kind = "user"
  <2>.  SUFFICES ASSUME log[n].kind # "user" PROVE FALSE
        OBVIOUS
  <2>1. PICK q \in Runs : PastSeed(q)
        BY <1>1, <1>2 DEF LogShape, BegunOK
  <2>2. q = r
        BY <1>1, <2>1 DEF AloneOK, PastSeed, Going
  <2>.  QED  BY <1>5, <2>1, <2>2 DEF PastSeed
<1>6. log \in Seq(Event) /\ Len(log) \in Nat /\ DOMAIN log = 1..Len(log)
      BY <1>1 DEF TypeOK
<1>.  QED  BY <1>1, <1>2, <1>3, <1>4, <1>5, <1>6 DEF Alone

\* What its step adds to the positions of a kind.
LEMMA Added ==
    ASSUME NEW r \in Runs, Alone(r), NEW kind
    PROVE  /\ Positions(kind) \subseteq Positions(kind)' /\ Positions(kind) \subseteq 1..Len(log)
           /\ \A n \in 1..Len(log) : log'[n] = log[n]
           /\ \A n \in Positions(kind)' :
                 \/ n \in Positions(kind)
                 \/ /\ n = Len(log) + 1 /\ log'[n].kind = kind
                    /\ <<pc[r], kind, pc'[r]>> \in Written
<1>1. Positions(kind) \subseteq 1..Len(log)
      BY DEF Alone, Positions
<1>2. CASE log' = log
      BY <1>1, <1>2 DEF Positions
<1>3. CASE Writes(r)
  <2>1. PICK e \in Event : log' = Append(log, e) /\ <<pc[r], e.kind, pc'[r]>> \in Written
        BY <1>3 DEF Writes
  <2>2. /\ Positions(kind)' = IF e.kind = kind THEN Positions(kind) \cup {Len(log) + 1}
                             ELSE Positions(kind)
        /\ log'[Len(log) + 1] = e
        /\ \A n \in 1..Len(log) : log'[n] = log[n]
        BY <2>1, AppendPositions, AppendGrows DEF Alone
  <2>.  QED  BY <1>1, <2>1, <2>2
<1>.  QED  BY <1>2, <1>3 DEF Alone, Moves

LEMMA UsersStep ==
    ASSUME NEW r \in Runs, Alone(r)
    PROVE  UsersFirst' /\ BegunOK'
<1>1. \A n \in Positions("user")' : n \in Positions("user") /\ n \in 1..Len(log)
      BY Added DEF Written
<1>2. \A n \in 1..Len(log) : log'[n] = log[n]
      BY Added
<1>3. ASSUME NEW n \in Positions("user")', NEW m \in 1..(n - 1)
      PROVE  log'[m].kind = "user"
  <2>1. n \in Positions("user") /\ n \in 1..Len(log) /\ Len(log) \in Nat
        BY <1>1 DEF Alone
  <2>2. m \in 1..Len(log)
        BY <2>1
  <2>3. log[m].kind = "user"
        BY <2>1 DEF Alone, LogShape, UsersFirst
  <2>.  QED  BY <1>2, <2>2, <2>3
<1>4. completed' \/ PastSeed(r)'
      BY DEF Alone, Moves, PastSeed
<1>.  QED  BY <1>3, <1>4 DEF UsersFirst, BegunOK

LEMMA TurnsStep ==
    ASSUME NEW r \in Runs, Alone(r)
    PROVE  TurnsAnswered'
<1>0. Len(log) \in Nat
      BY DEF Alone
<1>.  SUFFICES ASSUME NEW k \in Positions("call")' \cup Positions("closer")',
                      NEW m \in Positions("call")', NEW n \in Positions("result")', m < n, n < k
               PROVE  \E l \in Positions("result")' : log'[l].call = m /\ l < k
      BY DEF TurnsAnswered
<1>1. k \in 1..(Len(log) + 1)
  <2>1. \A x \in Positions("call")' : x \in 1..Len(log) \/ x = Len(log) + 1
        BY Added
  <2>2. \A x \in Positions("closer")' : x \in 1..Len(log) \/ x = Len(log) + 1
        BY Added
  <2>3. k \in 1..Len(log) \/ k = Len(log) + 1
        BY <2>1, <2>2
  <2>.  QED  BY <1>0, <2>3
<1>2. n \in Positions("result") /\ n \in 1..Len(log)
  <2>1. \A x \in Positions("result")' : x \in Positions("result") \/ x = Len(log) + 1
        BY Added DEF Written
  <2>2. Positions("result") \subseteq 1..Len(log)
        BY Added
  <2>.  QED  BY <1>0, <1>1, <2>1, <2>2
<1>3. m \in Positions("call") /\ m \in 1..Len(log)
  <2>1. \A x \in Positions("call")' : x \in Positions("call") \/ x = Len(log) + 1
        BY Added DEF Written
  <2>2. Positions("call") \subseteq 1..Len(log)
        BY Added
  <2>.  QED  BY <1>0, <1>2, <2>1, <2>2
<1>4. ASSUME NEW l \in Positions("result"), log[l].call = m, l < k
      PROVE  \E j \in Positions("result")' : log'[j].call = m /\ j < k
  <2>1. l \in Positions("result")' /\ l \in 1..Len(log) /\ log'[l] = log[l]
        BY Added
  <2>.  QED  BY <1>4, <2>1
<1>5. CASE k \in Positions("call") \cup Positions("closer")
  <2>1. \E l \in Positions("result") : log[l].call = m /\ l < k
        BY <1>2, <1>3, <1>5 DEF Alone, LogShape, TurnsAnswered
  <2>.  QED  BY <1>4, <2>1
<1>6. CASE k \notin Positions("call") \cup Positions("closer")
  <2>1. k = Len(log) + 1 /\ pc[r] = "stream"
        BY <1>6, Added DEF Written
  <2>2. Positions("error") = {} /\ \A i \in DOMAIN calls[r] : n < calls[r][i]
        BY <1>2, <2>1 DEF Alone, RunShape, InLoop
  <2>3. ~ Owed(m)
    <3>.  SUFFICES ASSUME NEW q \in Runs, NEW i \in DOMAIN calls[q], calls[q][i] = m PROVE FALSE
          BY DEF Owed
    <3>1. CASE q = r
      <4>1. n < m
            BY <2>2, <3>1
      <4>.  QED  BY <1>2, <1>3, <4>1
    <3>2. CASE q # r
      <4>1. ~ Going(q)
            BY <3>2 DEF Alone, AloneOK
      <4>2. pc[q] = "new"
            BY <4>1 DEF Alone, AloneOK, Going
      <4>3. calls[q] = <<>>
            BY <4>2 DEF Alone, AnsweredOK
      <4>.  QED  BY <4>3
    <3>.  QED  BY <3>1, <3>2
  <2>4. Answered(m)
        BY <1>3, <2>2, <2>3 DEF Alone, AnsweredOK
  <2>5. PICK l \in Positions("result") : log[l].call = m
        BY <2>4 DEF Answered
  <2>6. l \in 1..Len(log)
        BY Added
  <2>7. l < k
        BY <1>0, <2>1, <2>6
  <2>.  QED  BY <1>4, <2>5, <2>7
<1>.  QED  BY <1>5, <1>6

LEMMA ClosersStep ==
    ASSUME NEW r \in Runs, Alone(r)
    PROVE  ClosersApart'
<1>0. Len(log) \in Nat
      BY DEF Alone
<1>.  SUFFICES ASSUME NEW p \in Positions("closer")', NEW q \in Positions("closer")', p < q
               PROVE  \E n \in Positions("result")' : p < n /\ n < q
      BY DEF ClosersApart
<1>1. \/ q \in 1..Len(log) /\ q \in Positions("closer")
      \/ q = Len(log) + 1 /\ pc[r] = "stream"
  <2>1. \A x \in Positions("closer")' : \/ x \in 1..Len(log) /\ x \in Positions("closer")
                                        \/ x = Len(log) + 1 /\ pc[r] = "stream"
        BY Added DEF Written
  <2>.  QED  BY <2>1
<1>2. p \in Positions("closer") /\ p \in 1..Len(log)
  <2>1. \A x \in Positions("closer")' : x \in Positions("closer") \/ x = Len(log) + 1
        BY Added DEF Written
  <2>2. Positions("closer") \subseteq 1..Len(log)
        BY Added
  <2>.  QED  BY <1>0, <1>1, <2>1, <2>2
<1>3. \E n \in Positions("result") : p < n /\ n < q
  <2>1. CASE q \in Positions("closer")
        BY <1>2, <2>1 DEF Alone, LogShape, ClosersApart
  <2>2. CASE q = Len(log) + 1 /\ pc[r] = "stream"
    <3>1. PICK n \in Positions("result") : p < n
          BY <1>2, <2>2 DEF Alone, RunShape, InLoop
    <3>2. n \in 1..Len(log)
          BY Added
    <3>.  QED  BY <1>0, <2>2, <3>1, <3>2
  <2>.  QED  BY <1>1, <2>1, <2>2
<1>4. Positions("result") \subseteq Positions("result")'
      BY Added
<1>.  QED  BY <1>3, <1>4

LEMMA RecordsStep ==
    ASSUME NEW r \in Runs, Alone(r)
    PROVE  RecordsCut'
<1>0. Len(log) \in Nat /\ TypeOK /\ quiet'
      BY DEF Alone
<1>1. ASSUME NEW d \in Positions("compaction")', \A c \in Positions("compaction")' : d <= c
      PROVE  /\ log'[d].dropped \subseteq 1..(d - 1)
             /\ \A m, n \in 1..(d - 1) :
                   m < n /\ m \notin log'[d].dropped /\ n \in log'[d].dropped =>
                      log'[m].kind = "user"
  <2>0. /\ \A m \in 1..Len(log) : log'[m] = log[m]
        /\ Positions("compaction") \subseteq 1..Len(log)
        /\ Positions("compaction") \subseteq Positions("compaction")'
        BY Added
  <2>1. CASE d \in Positions("compaction")
    <3>1. d \in 1..Len(log) /\ log'[d] = log[d]
          BY <2>0, <2>1
    <3>2. \A m \in 1..(d - 1) : log'[m] = log[m]
          BY <1>0, <2>0, <3>1
    <3>3. /\ log[d].dropped \subseteq 1..(d - 1)
          /\ \A m, n \in 1..(d - 1) :
                m < n /\ m \notin log[d].dropped /\ n \in log[d].dropped => log[m].kind = "user"
          BY <1>1, <2>0, <2>1 DEF Alone, LogShape, RecordsCut
    <3>.  QED  BY <3>1, <3>2, <3>3
  <2>2. CASE d \notin Positions("compaction")
    <3>1. d = Len(log) + 1 /\ log'[d].kind = "compaction" /\ pc[r] = "compact"
          BY <2>2, Added DEF Written
    <3>2. Compact(r)
          BY <3>1 DEF Alone, RunStep, Seed, TurnBegin, TurnsOver, Reread, TextDelta, ToolCallEnd,
                ErrorChunk, NextChunk, EndTurn, ToolWithoutSandbox, ToolFindsSandbox, Provision,
                ProvisionFails, RecordSandbox, Execute, Result, DestroySandbox, Destroyed,
                MarkComplete
    <3>3. PICK dropped : dropped = PlanTruncate(Prefix(read[r]), View(Prefix(read[r])))
          OBVIOUS
    <3>4. /\ Records(log) = {}
          /\ log' = log \/ log' = Append(log, Ev("compaction", 0, NoSandbox, dropped))
      <4>1. \A c \in 1..Len(log) : ~ (d <= c)
            BY <1>0, <3>1
      <4>2. Positions("compaction") = {} /\ DOMAIN log = 1..Len(log)
            BY <1>1, <2>0, <4>1 DEF Alone
      <4>3. Records(log) = {}
            BY <4>2 DEF Records, IsCompaction, Positions
      <4>.  QED  BY <3>2, <3>3, <4>3 DEF Compact, Emit
    <3>5. log' # log
          BY <1>0, <1>1, <2>0, <2>2, <3>1 DEF Positions
    <3>6. read[r] \in 0..Len(log) /\ log \in Seq(Event)
          BY <1>0 DEF TypeOK
    <3>7. log'[d] = Ev("compaction", 0, NoSandbox, dropped)
      <4>1. PICK e : e = Ev("compaction", 0, NoSandbox, dropped)
            OBVIOUS
      <4>2. log' = Append(log, e)
            BY <3>4, <3>5, <4>1
      <4>3. log'[Len(log) + 1] = e
            BY <3>6, <4>2
      <4>.  QED  BY <3>1, <4>1, <4>3
    <3>8. log'[d].dropped = dropped
          BY <3>7 DEF Ev
    <3>9. /\ dropped \subseteq 1..read[r]
          /\ \A m, n \in 1..read[r] :
                m < n /\ m \notin dropped /\ n \in dropped => log[m].kind = "user"
          BY <1>0, <3>3, <3>4, <3>6, PlanCuts
    <3>10. 1..read[r] \subseteq 1..(d - 1)
           BY <1>0, <3>1, <3>6
    <3>11. ASSUME NEW m \in 1..(d - 1), NEW n \in 1..(d - 1), m < n, m \notin dropped, n \in dropped
           PROVE  log'[m].kind = "user"
      <4>1. n \in 1..read[r]
            BY <3>9, <3>11
      <4>2. m \in 1..read[r] /\ m \in 1..Len(log)
            BY <1>0, <3>6, <3>11, <4>1
      <4>.  QED  BY <2>0, <3>9, <3>11, <4>1, <4>2
    <3>.  QED  BY <3>8, <3>9, <3>10, <3>11
  <2>.  QED  BY <2>1, <2>2
<1>.  QED  BY <1>1 DEF RecordsCut

LEMMA RunShapeStep ==
    ASSUME NEW r \in Runs, Alone(r)
    PROVE  RunShape(r)'
<1>0. Len(log) \in Nat /\ log \in Seq(Event) /\ DOMAIN log = 1..Len(log) /\ RunShape(r) /\ Moves(r)
      BY DEF Alone
<1>1. ASSUME pc'[r] \in InLoop \cup Answering
      PROVE  Positions("error")' = {}
  <2>1. \A n \in Positions("error")' : n \in Positions("error")
        BY <1>1, Added DEF Written, InLoop, Answering
  <2>2. Positions("error") = {}
    <3>1. CASE pc[r] = "seed"
          BY <3>1 DEF Alone, Positions
    <3>2. CASE pc[r] # "seed"
          BY <1>0, <1>1, <3>2 DEF RunShape, Moves, InLoop, Answering
    <3>.  QED  BY <3>1, <3>2
  <2>.  QED  BY <2>1, <2>2
<1>2. ASSUME pc'[r] \in InLoop, NEW p \in Positions("closer")'
      PROVE  \E n \in Positions("result")' : p < n
  <2>1. p \in Positions("closer") /\ p \in 1..Len(log)
        BY <1>2, Added DEF Written, InLoop
  <2>2. CASE pc[r] = "seed"
        BY <2>1, <2>2 DEF Alone, Positions
  <2>3. CASE pc[r] = "result"
    <3>1. PICK e \in Event : log' = Append(log, e) /\ e.kind = "result"
          BY <1>0, <2>3 DEF Moves, Writes, Written
    <3>2. Len(log) + 1 \in Positions("result")'
          BY <1>0, <3>1, AppendPositions
    <3>3. p < Len(log) + 1
          BY <1>0, <2>1
    <3>.  QED  BY <3>2, <3>3
  <2>4. CASE pc[r] \in InLoop
    <3>1. \E n \in Positions("result") : p < n
          BY <1>0, <2>1, <2>4 DEF RunShape
    <3>2. Positions("result") \subseteq Positions("result")'
          BY Added
    <3>.  QED  BY <3>1, <3>2
  <2>.  QED  BY <1>0, <1>2, <2>2, <2>3, <2>4 DEF Moves
<1>3. pc[r] \in {"top", "reread"} => calls[r] = <<>>
      BY DEF Alone, AnsweredOK
<1>4. ASSUME pc'[r] = "stream", NEW i \in DOMAIN calls'[r], NEW n \in Positions("result")'
      PROVE  n < calls'[r][i]
  <2>1. pc[r] = "stream" /\ (calls'[r] = calls[r] \/ calls'[r] = Append(calls[r], Len(log) + 1))
    <3>1. DOMAIN calls'[r] # {}
          BY <1>4
    <3>2. DOMAIN <<>> = {}
          OBVIOUS
    <3>.  QED  BY <1>0, <1>3, <1>4, <3>1, <3>2 DEF Moves
  <2>2. n \in Positions("result") /\ n \in 1..Len(log)
        BY <1>4, <2>1, Added DEF Written
  <2>3. \A j \in DOMAIN calls[r] : n < calls[r][j]
        BY <1>0, <2>1, <2>2 DEF RunShape
  <2>4. CASE calls'[r] = calls[r]
        BY <1>4, <2>3, <2>4
  <2>5. CASE calls'[r] = Append(calls[r], Len(log) + 1)
    <3>1. PICK s \in Seq(Nat) : s = calls[r]
          BY DEF Alone, TypeOK
    <3>2. calls'[r] = Append(s, Len(log) + 1)
          BY <2>5, <3>1
    <3>3. (i \in DOMAIN s /\ calls'[r][i] = s[i]) \/ calls'[r][i] = Len(log) + 1
          BY <1>0, <1>4, <3>2
    <3>.  QED  BY <1>0, <2>2, <2>3, <3>1, <3>3
  <2>.  QED  BY <2>1, <2>4, <2>5
<1>5. ASSUME pc'[r] = "stream", chunks'[r] = 0
      PROVE  read'[r] = PageEnd' /\ calls'[r] = <<>>
  <2>1. /\ pc[r] \in {"top", "reread"} /\ log' = log /\ calls' = calls
        /\ read'[r] = PageEnd
        BY <1>0, <1>5 DEF Moves
  <2>.  QED  BY <1>3, <2>1 DEF PageEnd
<1>.  QED  BY <1>1, <1>2, <1>4, <1>5 DEF RunShape

LEMMA InitShape ==
    ASSUME Init
    PROVE  ShapeOK
<1>1. \A kind : Positions(kind) = {}
      BY DEF Init, Positions
<1>2. DOMAIN log = {} /\ \A r \in Runs : pc[r] = "new"
      BY DEF Init
<1>3. LogShape
      BY <1>1, <1>2 DEF LogShape, UsersFirst, BegunOK, TurnsAnswered, ClosersApart, RecordsCut
<1>4. \A r \in Runs : RunShape(r)
      BY <1>2 DEF RunShape, InLoop, Answering
<1>.  QED  BY <1>3, <1>4 DEF ShapeOK

LEMMA ShapeStep ==
    ASSUME InductiveInvariant, ShapeOK, [Next]_vars
    PROVE  ShapeOK'
<1>.  SUFFICES ASSUME quiet'
               PROVE  LogShape' /\ \A r \in Runs : RunShape(r)'
      BY DEF ShapeOK
<1>0. /\ quiet /\ LogShape /\ \A r \in Runs : RunShape(r)
      /\ TypeOK /\ AloneOK /\ pc \in [Runs -> Steps] /\ log \in Seq(Event)
      BY QuietOnlyEnds DEF ShapeOK, InductiveInvariant, TypeOK, Steps
<1>1. ASSUME log' = log, calls' = calls, chunks' = chunks, read' = read, completed' = completed,
             \A r \in Runs : pc'[r] = pc[r] \/ (pc[r] = "new" /\ pc'[r] \in {"seed", "done"})
      PROVE  LogShape' /\ \A r \in Runs : RunShape(r)'
  <2>1. \A kind : Positions(kind)' = Positions(kind)
        BY <1>1 DEF Positions
  <2>2. \A r \in Runs : PastSeed(r) => PastSeed(r)'
        BY <1>1 DEF PastSeed
  <2>3. LogShape'
    <3>1. UsersFirst' /\ TurnsAnswered' /\ ClosersApart' /\ RecordsCut'
          BY <1>0, <1>1, <2>1
          DEF LogShape, UsersFirst, TurnsAnswered, ClosersApart, RecordsCut
    <3>2. BegunOK'
          BY <1>0, <1>1, <2>2 DEF LogShape, BegunOK
    <3>.  QED  BY <3>1, <3>2 DEF LogShape
  <2>4. ASSUME NEW r \in Runs
        PROVE  RunShape(r)'
    <3>1. CASE pc'[r] \in {"seed", "done"}
          BY <3>1 DEF RunShape, InLoop, Answering
    <3>2. CASE pc'[r] = pc[r]
      <4>1. PageEnd' = PageEnd
            BY <1>1 DEF PageEnd
      <4>.  QED  BY <1>0, <1>1, <2>1, <3>2, <4>1 DEF RunShape
    <3>.  QED  BY <1>1, <3>1, <3>2
  <2>.  QED  BY <2>3, <2>4
<1>2. CASE UNCHANGED vars
      BY <1>1, <1>2 DEF vars, runVars
<1>3. CASE CompleteByUser \/ Crash \/ \E r \in Runs : Cancel(r) \/ CancelDestroy(r)
      BY <1>3 DEF CompleteByUser, Crash, Cancel, CancelDestroy, Fault
<1>4. CASE SendUser
  <2>1. /\ ~ completed /\ log' = Append(log, Plain("user")) /\ pc' = pc
        /\ \A r \in Runs : ~ Going(r)
        BY <1>4 DEF SendUser
  <2>2. \A r \in Runs : pc[r] = "new"
        BY <1>0, <2>1 DEF AloneOK, Going
  <2>3. \A n \in DOMAIN log : log[n].kind = "user"
        BY <1>0, <2>1, <2>2 DEF LogShape, BegunOK, PastSeed
  <2>4. Plain("user") \in Event /\ Plain("user").kind = "user"
        BY EventsAreEvents
  <2>5. \A n \in DOMAIN log' : log'[n].kind = "user"
        BY <1>0, <2>1, <2>3, <2>4, AppendGrows
  <2>6. /\ \A n \in Positions("user")' : \A m \in 1..(n - 1) : m \in DOMAIN log'
        /\ Positions("call")' = {} /\ Positions("closer")' = {} /\ Positions("compaction")' = {}
    <3>1. DOMAIN log' = 1..(Len(log) + 1) /\ Len(log) \in Nat
          BY <1>0, <2>1, <2>4, AppendGrows
    <3>.  QED  BY <2>5, <3>1 DEF Positions
  <2>7. LogShape'
        BY <2>5, <2>6 DEF LogShape, UsersFirst, BegunOK, TurnsAnswered, ClosersApart, RecordsCut
  <2>8. \A r \in Runs : RunShape(r)'
        BY <2>1, <2>2 DEF RunShape, InLoop, Answering
  <2>.  QED  BY <2>7, <2>8
<1>5. ASSUME NEW r \in Runs, Start(r)
      PROVE  LogShape' /\ \A q \in Runs : RunShape(q)'
  <2>1. \A q \in Runs : pc'[q] = pc[q] \/ (pc[q] = "new" /\ pc'[q] \in {"seed", "done"})
        BY <1>0, <1>5 DEF Start, Goto
  <2>.  QED  BY <1>1, <1>5, <2>1 DEF Start, runVars
<1>6. ASSUME NEW r \in Runs, RunStep(r)
      PROVE  LogShape' /\ \A q \in Runs : RunShape(q)'
  <2>1. Alone(r)
        BY <1>6, RunAlone
  <2>2. LogShape' /\ RunShape(r)'
        BY <2>1, UsersStep, TurnsStep, ClosersStep, RecordsStep, RunShapeStep DEF LogShape
  <2>3. ASSUME NEW q \in Runs \ {r}
        PROVE  RunShape(q)'
    <3>1. ~ Going(q) /\ pc'[q] = pc[q]
          BY <2>1 DEF Alone, AloneOK, Moves
    <3>.  QED  BY <3>1 DEF Going, RunShape, InLoop, Answering
  <2>.  QED  BY <2>2, <2>3
<1>.  QED  BY <1>2, <1>3, <1>4, <1>5, <1>6 DEF Next

-----------------------------------------------------------------------------
(* The contexts of a run that has the session to itself *)

\* What is read of a log that a run alone has written and compacted once at the most:
\* after an event that is not a user's message and is in the view, nothing is dropped.
LEMMA ViewReaches ==
    ASSUME TypeOK, RecordsCut, NEW k \in 0..Len(log), NEW L, L = Prefix(k),
           \A m, n \in Records(L) : m = n
    PROVE  /\ L \in Seq(Event) /\ Len(L) = k /\ View(L) \in SUBSET (1..Len(L))
           /\ \A n \in 1..k : L[n] = log[n] /\ n \in DOMAIN log
           /\ \A p \in View(L), i \in 1..k : log[p].kind # "user" /\ p < i => i \in View(L)
<1>0. log \in Seq(Event) /\ Len(log) \in Nat /\ k \in Nat /\ DOMAIN log = 1..Len(log)
      BY DEF TypeOK
<1>1. /\ L \in Seq(Event) /\ Len(L) = k
      /\ \A n \in 1..k : L[n] = log[n] /\ n \in DOMAIN log
      BY <1>0 DEF Prefix
<1>2. View(L) = (1..k) \ Dropped(L)
      BY <1>1 DEF View
<1>3. ASSUME NEW p \in View(L), NEW i \in 1..k, log[p].kind # "user", p < i, i \notin View(L)
      PROVE  FALSE
  <2>1. PICK d \in Latest(L) : i \in L[d].dropped
        BY <1>2, <1>3 DEF Dropped
  <2>2. d \in 1..k /\ d \in Positions("compaction") /\ L[d] = log[d]
        BY <1>1, <2>1 DEF Latest, Records, IsCompaction, Positions
  <2>9. \A c \in Positions("compaction") : d <= c
    <3>1. ASSUME NEW c \in Positions("compaction"), c \in 1..k
          PROVE  c = d
      <4>1. c \in Records(L) /\ d \in Records(L)
            BY <1>1, <2>1, <3>1 DEF Latest, Records, IsCompaction, Positions
      <4>.  QED  BY <4>1
    <3>2. \A c \in Positions("compaction") : c \in Nat /\ c # 0
          BY <1>0 DEF Positions
    <3>3. \A c \in Nat : c # 0 => c \in 1..k \/ d <= c
          BY <1>0, <2>2
    <3>.  QED  BY <1>0, <2>2, <3>1, <3>2, <3>3
  <2>3. p \in 1..k /\ p \notin L[d].dropped
        BY <1>2, <2>1 DEF Dropped
  <2>4. i \in 1..(d - 1)
        BY <2>1, <2>2, <2>9 DEF RecordsCut
  <2>5. p \in 1..(d - 1)
        BY <1>0, <1>3, <2>2, <2>3, <2>4
  <2>6. log[p].kind = "user"
        BY <1>3, <2>1, <2>2, <2>3, <2>4, <2>5, <2>9 DEF RecordsCut
  <2>.  QED  BY <1>3, <2>6
<1>4. \A p \in View(L), i \in 1..k : log[p].kind # "user" /\ p < i => i \in View(L)
      BY <1>3
<1>5. View(L) \in SUBSET (1..Len(L))
      BY <1>1, <1>2
<1>.  QED  BY <1>1, <1>4, <1>5

\* Any view of what is read of a log that a run alone has written keeps its order.
LEMMA ViewOrderly ==
    ASSUME TypeOK, CallsOK, PromptOK, UsersFirst, TurnsAnswered, NEW k \in 0..Len(log),
           NEW L, L = Prefix(k), NEW V \in SUBSET (1..k)
    PROVE  /\ L \in Seq(Event) /\ V \in SUBSET (1..Len(L))
           /\ \A n \in V : /\ n \in Nat /\ n \in 1..k /\ L[n] = log[n]
                            /\ \A kind : L[n].kind = kind <=> n \in Positions(kind)
           /\ Orderly(L, V)
<1>0. log \in Seq(Event) /\ Len(log) \in Nat /\ k \in Nat /\ DOMAIN log = 1..Len(log)
      BY DEF TypeOK
<1>1. /\ L \in Seq(Event) /\ Len(L) = k
      /\ \A n \in 1..k : L[n] = log[n] /\ n \in DOMAIN log
      BY <1>0 DEF Prefix
<1>2. \A n \in V : /\ n \in Nat /\ n \in 1..k /\ L[n] = log[n]
                   /\ \A kind : L[n].kind = kind <=> n \in Positions(kind)
  <2>1. \A n \in V : n \in 1..k
        OBVIOUS
  <2>2. \A n \in V : n \in Nat /\ n \in 1..k /\ L[n] = log[n] /\ n \in DOMAIN log
        BY <1>0, <1>1, <2>1
  <2>.  QED  BY <2>2 DEF Positions
<1>3. \A m \in V : L[m].kind = "call" => L[m].call = m
      BY <1>2 DEF CallsOK
<1>4. \A n \in V : L[n].kind = "result" => L[n].call < n
      BY <1>2 DEF CallsOK
<1>5. ASSUME NEW p \in V, NEW m \in V, L[p].kind \in {"prompt", "user"}, L[m].kind = "call"
      PROVE  p < m
  <2>1. CASE L[p].kind = "user"
    <3>1. p \in Positions("user") /\ log[m].kind # "user" /\ p # m
          BY <1>2, <1>5, <2>1
    <3>2. m \notin 1..(p - 1)
          BY <3>1 DEF UsersFirst
    <3>.  QED  BY <1>2, <3>1, <3>2
  <2>2. CASE L[p].kind = "prompt"
    <3>1. p \in Positions("prompt") /\ m \in DOMAIN log /\ log[m].kind = "call"
          BY <1>1, <1>2, <1>5, <2>2
    <3>2. PICK n \in Positions("prompt") : n < m
          BY <3>1 DEF PromptOK
    <3>3. n = p
          BY <3>1, <3>2 DEF PromptOK
    <3>.  QED  BY <3>2, <3>3
  <2>.  QED  BY <1>5, <2>1, <2>2
<1>6. ASSUME NEW j \in V, NEW m \in V, NEW n \in V, NEW l \in V,
             L[j].kind \in {"call", "closer"}, L[m].kind = "call", L[n].kind = "result",
             L[l].kind = "result", L[l].call = m, m < n, n < j
      PROVE  l < j
  <2>1. /\ j \in Positions("call") \cup Positions("closer") /\ m \in Positions("call")
        /\ n \in Positions("result") /\ l \in Positions("result") /\ log[l].call = m
        BY <1>2, <1>6
  <2>2. PICK i \in Positions("result") : log[i].call = m /\ i < j
        BY <1>6, <2>1 DEF TurnsAnswered
  <2>3. i = l
        BY <2>1, <2>2 DEF CallsOK
  <2>.  QED  BY <2>2, <2>3
<1>7. Orderly(L, V)
      BY <1>3, <1>4, <1>5, <1>6 DEF Orderly
<1>.  QED  BY <1>1, <1>2, <1>7

-----------------------------------------------------------------------------
(* The theorems *)

LEMMA InitInvariant ==
    ASSUME Init
    PROVE  InductiveInvariant
<1>1. \A kind : Positions(kind) = {}
      BY DEF Init, Positions
<1>2. DOMAIN log = {} /\ \A r \in Runs : DOMAIN calls[r] = {}
      BY DEF Init
<1>3. PromptOK
      BY <1>1, <1>2 DEF Init, PromptOK, PastSeed
<1>4. CallsOK
      BY <1>1, <1>2 DEF CallsOK
<1>5. OwnedOK
      BY DEF Init, OwnedOK, SandboxesOwned
<1>6. AloneOK
      BY DEF Init, AloneOK, Going
<1>7. AnsweredOK
      BY <1>1 DEF Init, AnsweredOK
<1>.  QED  BY <1>3, <1>4, <1>5, <1>6, <1>7, InitTypes DEF InductiveInvariant

\* The strengthened invariant is one of run_session, whichever runs the session has,
\* wherever they are cut off and whatever the model and the tools answer.
THEOREM InductiveInvariantHolds == Spec => []InductiveInvariant
<1>1. InductiveInvariant /\ [Next]_vars => InductiveInvariant'
      BY TypesStep, PromptStep, CallsStep, OwnedStep, AloneStep, AnsweredStep DEF InductiveInvariant
<1>.  QED  BY <1>1, InitInvariant, PTL DEF Spec

\* Every variable of the harness holds a value of its kind, and a run in
\* _execute_tool_calls has a call to answer.
THEOREM TypeCorrect == Spec => []TypeOK
<1>1. InductiveInvariant => TypeOK
      BY DEF InductiveInvariant
<1>.  QED  BY <1>1, InductiveInvariantHolds, PTL

\* The prompt's id, which the session determines, keeps _seed_system_prompt_if_needed
\* from emitting a second one, and no event of a run comes before it.
THEOREM PromptOnce == Spec => []PromptSeededOnce
<1>1. ASSUME InductiveInvariant
      PROVE  PromptSeededOnce
  <2>1. PromptOK
        BY <1>1 DEF InductiveInvariant
  <2>2. Cardinality(Positions("prompt")) <= 1
    <3>1. CASE Positions("prompt") = {}
      <4>1. Cardinality({}) = 0
            BY FS_EmptySet
      <4>.  QED  BY <3>1, <4>1
    <3>2. CASE Positions("prompt") # {}
      <4>1. PICK m : Positions("prompt") = {m}
            BY <2>1, <3>2 DEF PromptOK
      <4>2. Cardinality({m}) = 1
            BY FS_Singleton
      <4>.  QED  BY <4>1, <4>2
    <3>.  QED  BY <3>1, <3>2
  <2>.  QED  BY <2>1, <2>2 DEF PromptOK, PromptSeededOnce
<1>.  QED  BY <1>1, InductiveInvariantHolds, PTL

\* _run_turn gives every call an id of its own, and _execute_tool_calls answers each one
\* at most once and only after the call, whatever other runs and faults come between.
THEOREM ResultsMatch == Spec => []ResultsMatchCalls
<1>1. ASSUME InductiveInvariant
      PROVE  ResultsMatchCalls
  <2>1. CallsOK
        BY <1>1 DEF InductiveInvariant
  <2>2. \A n \in Positions("result") : \E m \in Positions("call") : m < n /\ log[m].call = log[n].call
        BY <2>1 DEF CallsOK
  <2>.  QED  BY <2>1, <2>2 DEF CallsOK, ResultsMatchCalls
<1>.  QED  BY <1>1, InductiveInvariantHolds, PTL

\* `finally` destroys every sandbox a run has provisioned or found, whatever ends its loop:
\* each one the Sandbox knows is on the list of a run that has yet to leave it, or was on
\* that of one whose clean-up was cut short.
THEOREM SandboxesAreOwned == Spec => []SandboxesOwned
<1>1. InductiveInvariant => SandboxesOwned
      BY DEF InductiveInvariant, OwnedOK
<1>.  QED  BY <1>1, InductiveInvariantHolds, PTL

\* run_session marks a session it had to itself complete only with every tool call
\* answered, unless the model ended with an error: no call is lost between the stream
\* that makes it and the loop that answers it.
THEOREM CompletionsAnswer == Spec => []CompletedIsAnswered
<1>1. ASSUME InductiveInvariant
      PROVE  CompletedIsAnswered
  <2>.  SUFFICES ASSUME quiet, completed, Positions("error") = {}, NEW m \in Positions("call")
                 PROVE  \E n \in Positions("result") : log[n].call = log[m].call
        BY DEF CompletedIsAnswered
  <2>1. TypeOK /\ CallsOK /\ AloneOK /\ AnsweredOK
        BY <1>1 DEF InductiveInvariant
  <2>2. \A r \in Runs : calls[r] = <<>>
        BY <2>1 DEF AloneOK, AnsweredOK, Going
  <2>3. ~ Owed(m)
        BY <2>2 DEF Owed
  <2>4. Answered(m) /\ log[m].call = m
        BY <2>1, <2>3 DEF AnsweredOK, CallsOK
  <2>.  QED  BY <2>4 DEF Answered
<1>.  QED  BY <1>1, InductiveInvariantHolds, PTL

\* The log keeps the shape that a run alone gives it.
THEOREM ShapeHolds == Spec => [](InductiveInvariant /\ ShapeOK)
<1>1. Init => InductiveInvariant /\ ShapeOK
      BY InitInvariant, InitShape
<1>2. InductiveInvariant /\ ShapeOK /\ [Next]_vars => InductiveInvariant' /\ ShapeOK'
  <2>1. InductiveInvariant /\ [Next]_vars => InductiveInvariant'
        BY TypesStep, PromptStep, CallsStep, OwnedStep, AloneStep, AnsweredStep
        DEF InductiveInvariant
  <2>.  QED  BY <2>1, ShapeStep
<1>.  QED  BY <1>1, <1>2, PTL DEF Spec

\* build_context doubles or moves no word of what any run has read and no compaction
\* dropped, and loses none for a run that has the session to itself and compacts it once at
\* the most: no text waits in pending_text when the next one comes.
THEOREM WordsAreKept == Spec => []TextKeptUnlessDisturbed
<1>1. ASSUME InductiveInvariant, ShapeOK
      PROVE  TextKeptUnlessDisturbed
  <2>.  SUFFICES ASSUME NEW r \in Runs
                 PROVE  LET said == {n \in View(Prefix(read[r])) :
                                        log[n].kind \in {"prompt", "user", "closer"}}
                        IN  /\ TextsInOrder(ContextOf(r), said)
                            /\ quiet /\ CompactedOnce(r) => NoTextMissing(ContextOf(r), said)
        BY DEF TextKeptUnlessDisturbed
  <2>1. TypeOK
        BY <1>1 DEF InductiveInvariant
  <2>2. PICK k \in 0..Len(log) : k = read[r]
        BY <2>1 DEF TypeOK
  <2>3. PICK L : L = Prefix(k)
        OBVIOUS
  <2>4. PICK V : V = View(L)
        OBVIOUS
  <2>5. PICK all \in BOOLEAN : all <=> quiet /\ CompactedOnce(r)
        OBVIOUS
  <2>6. /\ L \in Seq(Event) /\ Len(L) = k /\ V \in SUBSET (1..Len(L)) /\ V \subseteq 1..k
        /\ \A n \in 1..k : L[n] = log[n] /\ n \in DOMAIN log
    <3>1. log \in Seq(Event) /\ Len(log) \in Nat /\ k \in Nat /\ DOMAIN log = 1..Len(log)
          BY <2>1 DEF TypeOK
    <3>2. /\ L \in Seq(Event) /\ Len(L) = k
          /\ \A n \in 1..k : L[n] = log[n] /\ n \in DOMAIN log
          BY <2>3, <3>1 DEF Prefix
    <3>.  QED  BY <2>4, <3>2 DEF View
  <2>7. ASSUME all, NEW p \in V, NEW q \in V, L[p].kind = "closer", L[q].kind = "closer", p < q
        PROVE  \E n \in V : L[n].kind = "result" /\ p < n /\ n < q
    <3>1. RecordsCut /\ ClosersApart /\ \A m, n \in Records(L) : m = n
          BY <1>1, <2>2, <2>3, <2>5, <2>7 DEF ShapeOK, LogShape, CompactedOnce
    <3>2. \A m \in V, i \in 1..k : log[m].kind # "user" /\ m < i => i \in V
          BY <2>1, <2>3, <2>4, <3>1, ViewReaches
    <3>3. p \in Positions("closer") /\ q \in Positions("closer") /\ q \in 1..k
          BY <2>6, <2>7 DEF Positions
    <3>4. PICK n \in Positions("result") : p < n /\ n < q
          BY <2>7, <3>1, <3>3 DEF ClosersApart
    <3>5. n \in 1..k
          BY <3>3, <3>4, <2>1 DEF Positions, TypeOK
    <3>6. log[p].kind # "user" /\ L[n].kind = "result"
          BY <2>6, <3>3, <3>4, <3>5 DEF Positions
    <3>.  QED  BY <3>2, <3>4, <3>5, <3>6
  <2>8. LET said == {n \in V : L[n].kind \in Spoken}
        IN  /\ TextsInOrder(BuildContext(L, V), said)
            /\ all => NoTextMissing(BuildContext(L, V), said)
        BY <2>6, <2>7, TextsKept
  <2>9. {n \in V : L[n].kind \in Spoken} = {n \in V : log[n].kind \in {"prompt", "user", "closer"}}
        BY <2>6 DEF Spoken
  <2>.  QED  BY <2>2, <2>3, <2>4, <2>5, <2>8, <2>9 DEF ContextOf
<1>.  QED  BY <1>1, ShapeHolds, PTL

\* Every result in a context that a run alone on the session sends comes right after its
\* call, whatever its compactions drop and bring back; and once it is compacted at the most,
\* and read in full, the calls and the results meet, message by message.
THEOREM ContextsPair == Spec => []PairedUnlessDisturbed
<1>1. ASSUME InductiveInvariant, ShapeOK
      PROVE  PairedUnlessDisturbed
  <2>.  SUFFICES ASSUME quiet, NEW r \in Runs, Sends(r)
                 PROVE  /\ ResultsFollow(ContextOf(r))
                        /\ CompactedOnce(r) /\ Len(log) <= PageLimit => Paired(ContextOf(r))
        BY DEF PairedUnlessDisturbed
  <2>1. /\ TypeOK /\ CallsOK /\ PromptOK /\ AloneOK /\ AnsweredOK
        /\ RecordsCut /\ TurnsAnswered /\ UsersFirst /\ \A q \in Runs : RunShape(q)
        BY <1>1 DEF InductiveInvariant, ShapeOK, LogShape
  <2>2. PICK k \in 0..Len(log) : k = read[r]
        BY <2>1 DEF TypeOK
  <2>3. PICK L : L = Prefix(k)
        OBVIOUS
  <2>4. PICK V : V = View(L)
        OBVIOUS
  <2>5. V \in SUBSET (1..k)
    <3>1. log \in Seq(Event) /\ Len(log) \in Nat
          BY <2>1 DEF TypeOK
    <3>2. Len(L) = k
          BY <2>3, <3>1 DEF Prefix
    <3>.  QED  BY <2>4, <3>2 DEF View
  <2>6. /\ L \in Seq(Event) /\ V \in SUBSET (1..Len(L))
        /\ \A n \in V : /\ n \in Nat /\ n \in 1..k /\ L[n] = log[n]
                         /\ \A kind : L[n].kind = kind <=> n \in Positions(kind)
        /\ Orderly(L, V)
        BY <2>1, <2>3, <2>5, ViewOrderly
  <2>7. ResultsFollow(ContextOf(r))
    <3>1. ResultsFollow(BuildContext(L, V))
          BY <2>6, OrderlyFollow
    <3>.  QED  BY <2>2, <2>3, <2>4, <3>1 DEF ContextOf
  <2>8. ASSUME CompactedOnce(r), Len(log) <= PageLimit
        PROVE  Paired(ContextOf(r))
    <3>1. Len(log) \in Nat /\ DOMAIN log = 1..Len(log)
          BY <2>1 DEF TypeOK
    <3>2. k = Len(log)
      <4>1. read[r] = PageEnd
            BY <2>1 DEF RunShape, Sends
      <4>2. PageLimit \in Nat
            BY HarnessAssumption
      <4>3. \A a, b \in Nat : a <= b /\ ~ (a < b) => a = b
            OBVIOUS
      <4>4. PageEnd = Len(log)
            BY <2>8, <3>1, <4>2, <4>3, Zenon DEF PageEnd
      <4>.  QED  BY <2>2, <4>1, <4>4
    <3>3. \A kind : Positions(kind) \subseteq 1..k
          BY <3>1, <3>2 DEF Positions
    <3>4. \A p \in V, i \in 1..k : log[p].kind # "user" /\ p < i => i \in V
      <4>1. \A m, n \in Records(L) : m = n
            BY <2>2, <2>3, <2>8 DEF CompactedOnce
      <4>.  QED  BY <2>1, <2>3, <2>4, <4>1, ViewReaches
    <3>5. ASSUME NEW m \in V, L[m].kind = "call", NEW l \in Positions("result"), log[l].call = m
          PROVE  l \in V /\ L[l].kind = "result" /\ L[l].call = m
      <4>1. m < l
            BY <2>1, <3>5 DEF CallsOK
      <4>2. log[m].kind # "user"
            BY <2>6, <3>5
      <4>3. l \in V
            BY <3>3, <3>4, <4>1, <4>2
      <4>.  QED  BY <2>6, <3>5, <4>3
    <3>6. \A l, n \in V :
             L[l].kind = "result" /\ L[n].kind = "result" /\ L[l].call = L[n].call => l = n
          BY <2>1, <2>6 DEF CallsOK
    <3>7. ASSUME NEW j \in V, NEW m \in V, NEW n \in V, L[j].kind \in {"call", "closer"},
                 L[m].kind = "call", L[n].kind = "result", m < n, n < j
          PROVE  \E l \in V : L[l].kind = "result" /\ L[l].call = m /\ l < j
      <4>1. /\ j \in Positions("call") \cup Positions("closer") /\ m \in Positions("call")
            /\ n \in Positions("result")
            BY <2>6, <3>7
      <4>2. PICK l \in Positions("result") : log[l].call = m /\ l < j
            BY <2>1, <3>7, <4>1 DEF TurnsAnswered
      <4>.  QED  BY <3>5, <3>7, <4>2
    <3>8. ASSUME NEW m \in V, L[m].kind = "call"
          PROVE  \E n \in V : L[n].kind = "result" /\ L[n].call = m
      <4>1. Positions("error") = {} /\ m \in Positions("call") /\ calls[r] = <<>>
            BY <2>1, <2>6, <3>8 DEF RunShape, InLoop, Sends
      <4>2. ~ Owed(m)
        <5>.  SUFFICES ASSUME NEW q \in Runs, NEW i \in DOMAIN calls[q] PROVE FALSE
              BY DEF Owed
        <5>1. q # r
              BY <4>1
        <5>2. Going(r) /\ ~ Going(q)
              BY <2>1, <5>1 DEF AloneOK, Going, Sends
        <5>3. pc[q] = "new"
              BY <2>1, <5>2 DEF AloneOK, Going
        <5>4. calls[q] = <<>>
              BY <2>1, <5>3 DEF AnsweredOK
        <5>.  QED  BY <5>4
      <4>3. PICK l \in Positions("result") : log[l].call = m
            BY <2>1, <4>1, <4>2 DEF AnsweredOK, Answered
      <4>.  QED  BY <3>5, <3>8, <4>3
    <3>9. Legal(L, V)
          BY <2>6, <3>6, <3>7, <3>8 DEF Legal, Orderly
    <3>10. Paired(BuildContext(L, V))
           BY <2>6, <3>9, LegalPaired
    <3>.  QED  BY <2>2, <2>3, <2>4, <3>10 DEF ContextOf
  <2>.  QED  BY <2>7, <2>8
<1>.  QED  BY <1>1, ShapeHolds, PTL
===============================================================================
