------------------------ MODULE SessionCreationProofs ------------------------
(***************************************************************************)
(* Proofs about SessionCreation, for any callers, ids and request ids.     *)
(***************************************************************************)
EXTENDS SessionCreation, TLAPS

\* A call has its agent, and one whose INSERT has run has its new row's id.
CallOK ==
    \A c \in Callers : /\ pc[c] # "idle" => agent[c] \in AgentIds
                       /\ pc[c] = "commit" => new_id[c] \in SessionIds

\* The unique index: one row per request, committed or not.
IndexOK ==
    /\ \A x, y \in sessions : SameRequest(x.request, y.request) => x = y
    /\ \A c \in Inserted :
          /\ \A row \in sessions : ~ SameRequest(row.request, request[c])
          /\ \A d \in Inserted \ {c} : ~ SameRequest(request[d], request[c])

\* The foreign key: the agent of an uncommitted row is there to stay, too.
ForeignKeyOK == \A c \in Inserted : agents[agent[c]] = "present"

\* Every answer names a committed row with its request.
AnswersOK ==
    \A x \in answers : \E row \in sessions :
        row.id = x.session /\ SameRequest(row.request, x.request)

\* The strengthened invariant.
InductiveInvariant ==
    /\ TypeOK /\ CallOK /\ IndexOK /\ ForeignKeyOK /\ AnswersOK
    /\ AgentOfEverySession /\ RaceLoserFindsWinner

-----------------------------------------------------------------------------
(* The steps one by one *)

\* A call that ends keeps the callers' fields well-typed and its row to itself.
LEMMA EndCallType ==
    ASSUME TypeOK, CallOK, NEW c \in Callers, EndCall(c)
    PROVE  /\ pc' \in [Callers -> {"idle", "find", "insert", "commit", "reread"}]
           /\ agent' \in [Callers -> AgentIds \cup {None}]
           /\ request' \in [Callers -> RequestValue \cup {None}]
           /\ new_id' \in [Callers -> SessionIds \cup {None}]
           /\ cause' \in [Callers -> {"none", "unique", "foreign_key"}]
           /\ CallOK' /\ Inserted' = Inserted \ {c}
           /\ pc'[c] = "idle"
           /\ \A d \in Callers \ {c} :
                 /\ pc'[d] = pc[d] /\ agent'[d] = agent[d]
                 /\ request'[d] = request[d] /\ cause'[d] = cause[d]
  BY DEF TypeOK, CallOK, EndCall, Goto, Inserted

\* A call that ends and leaves the tables as they are preserves the invariant.
LEMMA EndCallStep ==
    ASSUME InductiveInvariant, NEW c \in Callers, EndCall(c),
           UNCHANGED <<agents, sessions>>, AnswersOK',
           answers' \in SUBSET [request : RequestValue, session : SessionIds]
    PROVE  InductiveInvariant'
<1>.  USE DEF InductiveInvariant
<1>1. TypeOK' /\ CallOK'
      BY EndCallType DEF TypeOK
<1>2. IndexOK' /\ ForeignKeyOK'
      BY EndCallType DEF IndexOK, ForeignKeyOK, Inserted
<1>3. AgentOfEverySession' /\ RaceLoserFindsWinner'
      BY EndCallType DEF AgentOfEverySession, RaceLoserFindsWinner, RowsFor
<1>.  QED  BY <1>1, <1>2, <1>3

\* An answer from a committed row of the same request is one more true answer.
LEMMA ReturnRow ==
    ASSUME InductiveInvariant, NEW c \in Callers, NEW row \in RowsFor(request[c]),
           Return(c, row.id), UNCHANGED <<agents, sessions>>
    PROVE  InductiveInvariant'
<1>.  USE DEF InductiveInvariant
<1>1. row \in sessions /\ SameRequest(row.request, request[c]) /\ row.id \in SessionIds
      BY DEF RowsFor, SameRequest, TypeOK, Row
<1>2. AnswersOK'
      BY <1>1 DEF Return, AnswersOK
<1>3. answers' \in SUBSET [request : RequestValue, session : SessionIds]
      BY <1>1 DEF Return, TypeOK, SameRequest
<1>.  QED  BY <1>2, <1>3, EndCallStep DEF Return

\* What a caller does before its row goes in, and when it gives up.
LEMMA CallerSteps ==
    ASSUME InductiveInvariant, NEW c \in Callers,
           FindHit(c) \/ FindMiss(c) \/ InsertFails(c) \/ RereadHit(c) \/ RereadMiss(c)
             \/ Abort(c)
    PROVE  InductiveInvariant'
<1>.  USE DEF InductiveInvariant
<1>1. CASE FindHit(c)
      BY <1>1, ReturnRow DEF FindHit
<1>2. CASE RereadHit(c)
      BY <1>2, ReturnRow DEF RereadHit
<1>3. ASSUME EndCall(c), UNCHANGED <<agents, sessions, answers>>
      PROVE  InductiveInvariant'
      BY <1>3, EndCallStep DEF AnswersOK, TypeOK
<1>4. CASE RereadMiss(c) \/ Abort(c)
      BY <1>4, <1>3 DEF RereadMiss, Abort
<1>5. CASE FindMiss(c)
      BY <1>5 DEF FindMiss, Goto, locals, TypeOK, CallOK, IndexOK, ForeignKeyOK, AnswersOK,
                  AgentOfEverySession, RaceLoserFindsWinner, RowsFor, Inserted
<1>6. CASE InsertFails(c) /\ ~ EndCall(c)
  <2>1. /\ pc[c] = "insert" /\ pc' = [pc EXCEPT ![c] = "reread"]
        /\ cause' = [cause EXCEPT ![c] = IF RowsFor(request[c]) # {}
                                         THEN "unique" ELSE "foreign_key"]
        /\ UNCHANGED <<agents, sessions, agent, request, new_id, answers>>
        BY <1>6 DEF InsertFails, Goto
  <2>2. Inserted' = Inserted
        BY <2>1 DEF Inserted, TypeOK
  <2>3. TypeOK' /\ CallOK'
        BY <2>1 DEF TypeOK, CallOK
  <2>4. IndexOK' /\ ForeignKeyOK' /\ AnswersOK' /\ AgentOfEverySession'
        BY <2>1, <2>2 DEF IndexOK, ForeignKeyOK, AnswersOK, AgentOfEverySession
  <2>5. RaceLoserFindsWinner'
        BY <2>1 DEF RaceLoserFindsWinner, RowsFor, TypeOK
  <2>.  QED  BY <2>3, <2>4, <2>5
<1>7. CASE InsertFails(c) /\ EndCall(c)
      BY <1>7, <1>3 DEF InsertFails
<1>.  QED  BY <1>1, <1>2, <1>4, <1>5, <1>6, <1>7

\* A call begins with a merged request id and an agent that was once created.
LEMMA CreateCallStep ==
    ASSUME InductiveInvariant, NEW c \in Callers, NEW a \in AgentIds,
           NEW metadata \in RequestValue \cup {None}, NEW argument \in Argument \cup {None},
           CreateCall(c, a, metadata, argument)
    PROVE  InductiveInvariant'
<1>.  USE DEF InductiveInvariant
<1>1. Merged(metadata, argument) \in RequestValue \cup {None}
      BY DEF Merged, Argument, RequestValue
<1>2. PICK step \in {"find", "insert"} : pc' = [pc EXCEPT ![c] = step]
      BY DEF CreateCall, Goto
<1>3. Inserted' = Inserted /\ c \notin Inserted
      BY <1>2 DEF CreateCall, Inserted, TypeOK
<1>4. TypeOK' /\ CallOK'
      BY <1>1, <1>2 DEF CreateCall, TypeOK, CallOK
<1>5. IndexOK' /\ ForeignKeyOK'
      BY <1>3 DEF CreateCall, IndexOK, ForeignKeyOK, TypeOK, Inserted
<1>6. AnswersOK' /\ AgentOfEverySession' /\ RaceLoserFindsWinner'
      BY <1>2 DEF CreateCall, AnswersOK, AgentOfEverySession, RaceLoserFindsWinner, RowsFor, TypeOK
<1>.  QED  BY <1>4, <1>5, <1>6

\* The unique index lets an INSERT through when no row, committed or not, has
\* its request.
LEMMA InsertStep ==
    ASSUME InductiveInvariant, NEW c \in Callers, Insert(c)
    PROVE  InductiveInvariant'
<1>.  USE DEF InductiveInvariant
<1>1. /\ pc[c] = "insert" /\ pc' = [pc EXCEPT ![c] = "commit"]
      /\ UNCHANGED <<agents, sessions, agent, request, cause, answers>>
      BY DEF Insert, Goto
<1>2. Inserted' = Inserted \cup {c}
      BY <1>1 DEF Inserted, TypeOK
<1>3. TypeOK' /\ CallOK'
      BY <1>1 DEF Insert, TypeOK, CallOK
<1>4. IndexOK'
      BY <1>1, <1>2 DEF Insert, IndexOK, IndexFree, RowsFor, SameRequest
<1>5. ForeignKeyOK'
      BY <1>1, <1>2 DEF Insert, ForeignKeyOK
<1>6. AnswersOK' /\ AgentOfEverySession' /\ RaceLoserFindsWinner'
      BY <1>1 DEF AnswersOK, AgentOfEverySession, RaceLoserFindsWinner, RowsFor, TypeOK
<1>.  QED  BY <1>3, <1>4, <1>5, <1>6

\* The row that is committed is the only one of its request, and its caller's
\* answer.
LEMMA CommitStep ==
    ASSUME InductiveInvariant, NEW c \in Callers, Commit(c)
    PROVE  InductiveInvariant'
<1>.  USE DEF InductiveInvariant
<1>.  DEFINE row == [id |-> new_id[c], agent |-> agent[c], request |-> request[c]]
<1>1. /\ pc[c] = "commit" /\ c \in Inserted /\ EndCall(c)
      /\ sessions' = sessions \cup {row} /\ UNCHANGED agents
      BY DEF Commit, Return, Inserted
<1>2. row \in Row /\ request[c] \in RequestValue \cup {None}
      BY <1>1 DEF TypeOK, CallOK, Row
<1>3. answers' = answers \/ /\ request[c] # None
                            /\ answers' = answers \cup {[request |-> request[c],
                                                        session |-> new_id[c]]}
      BY DEF Commit, Return
<1>4. TypeOK' /\ CallOK'
  <2>1. answers' \in SUBSET [request : RequestValue, session : SessionIds]
        BY <1>1, <1>2, <1>3 DEF TypeOK, CallOK
  <2>.  QED  BY <1>1, <1>2, <2>1, EndCallType DEF TypeOK
<1>5. IndexOK'
  <2>1. \A x \in sessions : ~ SameRequest(x.request, request[c])
        BY <1>1 DEF IndexOK
  <2>2. \A x, y \in sessions' : SameRequest(x.request, y.request) => x = y
        BY <1>1, <2>1 DEF IndexOK, SameRequest
  <2>3. ASSUME NEW d \in Inserted'
        PROVE  /\ \A x \in sessions' : ~ SameRequest(x.request, request'[d])
               /\ \A e \in Inserted' \ {d} : ~ SameRequest(request'[e], request'[d])
    <3>1. d \in Inserted /\ d # c /\ request'[d] = request[d]
          BY <1>1, <2>3, EndCallType DEF Inserted
    <3>2. ~ SameRequest(request[c], request[d])
          BY <1>1, <3>1 DEF IndexOK
    <3>3. \A x \in sessions' : ~ SameRequest(x.request, request'[d])
          BY <1>1, <3>1, <3>2 DEF IndexOK
    <3>4. \A e \in Inserted' \ {d} : e \in Inserted \ {d} /\ request'[e] = request[e]
          BY <1>1, EndCallType DEF Inserted
    <3>.  QED  BY <3>1, <3>3, <3>4 DEF IndexOK
  <2>.  QED  BY <2>2, <2>3 DEF IndexOK
<1>6. ForeignKeyOK'
      BY <1>1, EndCallType DEF ForeignKeyOK, Inserted
<1>7. AnswersOK'
  <2>1. ASSUME NEW x \in answers
        PROVE  \E r \in sessions' : r.id = x.session /\ SameRequest(r.request, x.request)
        BY <1>1 DEF AnswersOK
  <2>2. ASSUME request[c] # None
        PROVE  row.id = new_id[c] /\ SameRequest(row.request, request[c])
        BY <2>2 DEF SameRequest
  <2>3. ASSUME NEW x \in answers', x \notin answers
        PROVE  /\ row \in sessions' /\ row.id = x.session
               /\ SameRequest(row.request, x.request)
    <3>1. request[c] # None /\ x = [request |-> request[c], session |-> new_id[c]]
          BY <1>3, <2>3
    <3>.  QED  BY <1>1, <2>2, <3>1
  <2>.  QED  BY <2>1, <2>3 DEF AnswersOK
<1>8. AgentOfEverySession'
      BY <1>1 DEF AgentOfEverySession, ForeignKeyOK
<1>9. RaceLoserFindsWinner'
      BY <1>1, EndCallType DEF RaceLoserFindsWinner, RowsFor
<1>.  QED  BY <1>4, <1>5, <1>6, <1>7, <1>8, <1>9

\* create_agent and delete_agent.
LEMMA AgentSteps ==
    ASSUME InductiveInvariant, NEW a \in AgentIds, CreateAgent(a) \/ DeleteAgent(a)
    PROVE  InductiveInvariant'
<1>.  USE DEF InductiveInvariant
<1>1. UNCHANGED <<sessions, pc, agent, request, new_id, cause, answers>>
      BY DEF CreateAgent, DeleteAgent, locals
<1>2. PICK row \in {"present", "deleted"} : agents' = [agents EXCEPT ![a] = row]
      BY DEF CreateAgent, DeleteAgent
<1>3. TypeOK' /\ CallOK' /\ IndexOK' /\ AnswersOK' /\ RaceLoserFindsWinner'
      BY <1>1, <1>2 DEF TypeOK, CallOK, IndexOK, AnswersOK, RaceLoserFindsWinner, Inserted, RowsFor
<1>4. ForeignKeyOK' /\ AgentOfEverySession'
      BY <1>1 DEF CreateAgent, DeleteAgent, TypeOK, CallOK, ForeignKeyOK, AgentOfEverySession,
                  Inserted, Row
<1>.  QED  BY <1>3, <1>4

\* Every step preserves the invariant.
LEMMA InductiveStep == InductiveInvariant /\ [Next]_vars => InductiveInvariant'
<1>.  SUFFICES ASSUME InductiveInvariant, [Next]_vars PROVE InductiveInvariant'
      OBVIOUS
<1>1. CASE UNCHANGED vars
      BY <1>1 DEF vars, locals, InductiveInvariant, TypeOK, CallOK, IndexOK, ForeignKeyOK,
                  AnswersOK, AgentOfEverySession, RaceLoserFindsWinner, Inserted, RowsFor
<1>2. CASE Next
      BY <1>2, CallerSteps, CreateCallStep, InsertStep, CommitStep, AgentSteps
      DEF Next, Proceed, TryInsert
<1>.  QED  BY <1>1, <1>2

\* No row, no call, no answer.
LEMMA InitInductive == Init => InductiveInvariant
  BY DEF Init, InductiveInvariant, TypeOK, CallOK, IndexOK, ForeignKeyOK, AnswersOK,
         AgentOfEverySession, RaceLoserFindsWinner, Inserted, RowsFor

\* However callers race, fail and die, the invariant holds.
THEOREM InductiveInvariantHolds == Spec => []InductiveInvariant
  BY InitInductive, InductiveStep, PTL DEF Spec

-----------------------------------------------------------------------------
(* The theorems *)

\* The tables and every call's locals keep their types.
THEOREM TypeCorrect == Spec => []TypeOK
  BY InductiveInvariantHolds, PTL DEF InductiveInvariant

\* All callers of create_session that are answered for one request id are given
\* one session.
THEOREM OneSessionPerRequest == Spec => []SameSessionPerRequest
<1>1. InductiveInvariant => SameSessionPerRequest
  <2>.  SUFFICES ASSUME InductiveInvariant, NEW x \in answers, NEW y \in answers,
                        x.request.text = y.request.text
                 PROVE  x.session = y.session
        BY DEF SameSessionPerRequest
  <2>1. PICK r \in sessions : r.id = x.session /\ SameRequest(r.request, x.request)
        BY DEF InductiveInvariant, AnswersOK
  <2>2. PICK q \in sessions : q.id = y.session /\ SameRequest(q.request, y.request)
        BY DEF InductiveInvariant, AnswersOK
  <2>3. r = q
        BY <2>1, <2>2 DEF InductiveInvariant, IndexOK, SameRequest
  <2>.  QED  BY <2>1, <2>2, <2>3
<1>.  QED  BY <1>1, InductiveInvariantHolds, PTL

\* A session's agent cannot be deleted, not even between the INSERT of the
\* session and its COMMIT.
THEOREM AgentsStay == Spec => []AgentOfEverySession
  BY InductiveInvariantHolds, PTL DEF InductiveInvariant

\* The re-read after a lost race finds the winner's row.
THEOREM LoserFindsWinner == Spec => []RaceLoserFindsWinner
  BY InductiveInvariantHolds, PTL DEF InductiveInvariant
=============================================================================
