-------------------------- MODULE SessionCreation ---------------------------
(***************************************************************************)
(* Creating agents and sessions: SessionService.create_session, idempotent *)
(* on a request_id kept in the session's metadata, and the SDK's agent     *)
(* calls (create_agent, delete_agent) whose rows sessions refer to.        *)
(*                                                                         *)
(* PostgreSQL takes part with the partial unique index                     *)
(* uq_sessions_request_id, on the text of metadata->>'request_id', and     *)
(* with the RESTRICT foreign key from a session to its agent.              *)
(***************************************************************************)
EXTENDS Naturals, FiniteSets

CONSTANTS Callers,      \* concurrent callers of the SDK
          AgentIds,     \* uuid4 values create_agent may draw
          SessionIds,   \* gen_random_uuid() values: bounds the sessions made
          RequestIds,   \* texts of request ids
          None          \* no request id, an idle caller's argument

ASSUME CreationAssumption ==
    None \notin Callers \cup AgentIds \cup SessionIds \cup RequestIds

VARIABLES
    agents,     \* each agent id's row: absent (not drawn yet), present, deleted
    sessions,   \* the committed rows of the sessions table
    pc,         \* what each caller does next
    agent,      \* its agent_id argument
    request,    \* merged_metadata's request_id
    new_id,     \* the id of the row it has inserted and not committed
    cause,      \* history: which constraint its IntegrityError was about
    answers     \* history: the session each request id was answered with

locals == <<agent, request, new_id, cause>>
vars == <<agents, sessions, pc, locals, answers>>

\* A JSON value under "request_id": a string, or a number with the same text.
RequestValue == [text : RequestIds, string : BOOLEAN]
Argument == [text : RequestIds, string : {TRUE}]

Row == [id : SessionIds, agent : AgentIds, request : RequestValue \cup {None}]

\* _merge_metadata: the argument and metadata['request_id'], when both are
\* given, must be equal; a number is not equal to the string with its text.
Conflict(metadata, argument) ==
    metadata # None /\ argument # None /\ metadata # argument

Merged(metadata, argument) == IF argument # None THEN argument ELSE metadata

IsString(r) == r # None /\ r.string

\* The rows the unique index takes for the same request.
SameRequest(r, q) == r # None /\ q # None /\ r.text = q.text

RowsFor(r) == {row \in sessions : SameRequest(row.request, r)}

\* Callers whose INSERT has run and whose transaction is open.
Inserted == {c \in Callers : pc[c] = "commit"}

UsedIds == {row.id : row \in sessions} \cup {new_id[c] : c \in Inserted}

Init ==
    /\ agents = [a \in AgentIds |-> "absent"]
    /\ sessions = {}
    /\ pc = [c \in Callers |-> "idle"]
    /\ agent = [c \in Callers |-> None]
    /\ request = [c \in Callers |-> None]
    /\ new_id = [c \in Callers |-> None]
    /\ cause = [c \in Callers |-> "none"]
    /\ answers = {}

Goto(c, step) == pc' = [pc EXCEPT ![c] = step]

EndCall(c) ==
    /\ Goto(c, "idle")
    /\ agent' = [agent EXCEPT ![c] = None]
    /\ request' = [request EXCEPT ![c] = None]
    /\ new_id' = [new_id EXCEPT ![c] = None]
    /\ cause' = [cause EXCEPT ![c] = "none"]

\* create_session returns the session `id`.
Return(c, id) ==
    /\ answers' = IF request[c] = None THEN answers
                  ELSE answers \cup {[request |-> request[c], session |-> id]}
    /\ EndCall(c)

-----------------------------------------------------------------------------
(* create_session *)

\* Bound: enough ids are left for every insert that may still run. A call
\* whose request ids conflict raises ValidationError and touches nothing.
CreateCall(c, a, metadata, argument) ==
    /\ pc[c] = "idle"
    /\ agents[a] # "absent"
    /\ ~ Conflict(metadata, argument)
    /\ Cardinality(sessions) + Cardinality({d \in Callers : pc[d] # "idle"})
          < Cardinality(SessionIds)
    /\ LET r == Merged(metadata, argument) IN
          /\ request' = [request EXCEPT ![c] = r]
          /\ Goto(c, IF IsString(r) THEN "find" ELSE "insert")
    /\ agent' = [agent EXCEPT ![c] = a]
    /\ UNCHANGED <<agents, sessions, new_id, cause, answers>>

FindHit(c) ==
    /\ pc[c] = "find"
    /\ \E row \in RowsFor(request[c]) : Return(c, row.id)
    /\ UNCHANGED <<agents, sessions>>

FindMiss(c) ==
    /\ pc[c] = "find"
    /\ RowsFor(request[c]) = {}
    /\ Goto(c, "insert")
    /\ UNCHANGED <<agents, sessions, locals, answers>>

\* The INSERT waits for an open transaction that has inserted the same request.
IndexFree(c) == \A d \in Inserted : ~ SameRequest(request[c], request[d])

\* Variant: there is no unique index.
InsertUnindexed(c) ==
    /\ pc[c] = "insert"
    /\ agents[agent[c]] = "present"
    /\ \E id \in SessionIds \ UsedIds : new_id' = [new_id EXCEPT ![c] = id]
    /\ Goto(c, "commit")
    /\ UNCHANGED <<agents, sessions, agent, request, cause, answers>>

Insert(c) ==
    /\ pc[c] = "insert"
    /\ IndexFree(c)
    /\ RowsFor(request[c]) = {}
    /\ agents[agent[c]] = "present"
    /\ \E id \in SessionIds \ UsedIds : new_id' = [new_id EXCEPT ![c] = id]
    /\ Goto(c, "commit")
    /\ UNCHANGED <<agents, sessions, agent, request, cause, answers>>

\* Variant: another transaction's uncommitted row already counts as a conflict.
InsertFailsEarly(c) ==
    /\ pc[c] = "insert"
    /\ RowsFor(request[c]) # {} \/ ~ IndexFree(c)
    /\ IsString(request[c])
    /\ cause' = [cause EXCEPT ![c] = "unique"]
    /\ Goto(c, "reread")
    /\ UNCHANGED <<agents, sessions, agent, request, new_id, answers>>

\* IntegrityError: the transaction is rolled back. A caller with a string
\* request id reads again; any other is told RuntimeError.
InsertFails(c) ==
    /\ pc[c] = "insert"
    /\ IndexFree(c)
    /\ RowsFor(request[c]) # {} \/ agents[agent[c]] # "present"
    /\ IF IsString(request[c])
       THEN /\ cause' = [cause EXCEPT ![c] = IF RowsFor(request[c]) # {}
                                             THEN "unique" ELSE "foreign_key"]
            /\ Goto(c, "reread")
            /\ UNCHANGED <<agent, request, new_id>>
       ELSE EndCall(c)
    /\ UNCHANGED <<agents, sessions, answers>>

Commit(c) ==
    /\ pc[c] = "commit"
    /\ sessions' = sessions \cup
          {[id |-> new_id[c], agent |-> agent[c], request |-> request[c]]}
    /\ Return(c, new_id[c])
    /\ UNCHANGED agents

\* Variant: the loser of a race inserts again instead of reading.
RereadHitRetries(c) ==
    /\ pc[c] = "reread"
    /\ RowsFor(request[c]) # {}
    /\ Goto(c, "insert")
    /\ UNCHANGED <<agents, sessions, locals, answers>>

RereadHit(c) ==
    /\ pc[c] = "reread"
    /\ \E row \in RowsFor(request[c]) : Return(c, row.id)
    /\ UNCHANGED <<agents, sessions>>

\* RuntimeError("session insert failed and idempotent retry found no row").
RereadMiss(c) ==
    /\ pc[c] = "reread"
    /\ RowsFor(request[c]) = {}
    /\ EndCall(c)
    /\ UNCHANGED <<agents, sessions, answers>>

\* The caller dies; its open transaction is rolled back.
Abort(c) ==
    /\ pc[c] # "idle"
    /\ EndCall(c)
    /\ UNCHANGED <<agents, sessions, answers>>

-----------------------------------------------------------------------------
(* create_agent, delete_agent: one statement and its commit each *)

CreateAgent(a) ==
    /\ agents[a] = "absent"
    /\ agents' = [agents EXCEPT ![a] = "present"]
    /\ UNCHANGED <<sessions, pc, locals, answers>>

\* The DELETE waits for open transactions whose new session refers to the agent
\* (the foreign key's share lock on its row) and is refused by committed ones.
DeleteAgent(a) ==
    /\ agents[a] = "present"
    /\ \A c \in Inserted : agent[c] # a
    /\ \A row \in sessions : row.agent # a
    /\ agents' = [agents EXCEPT ![a] = "deleted"]
    /\ UNCHANGED <<sessions, pc, locals, answers>>

-----------------------------------------------------------------------------
TryInsert(c) == Insert(c) \/ InsertFails(c)

Proceed(c) == \/ FindHit(c) \/ FindMiss(c) \/ TryInsert(c) \/ Commit(c)
              \/ RereadHit(c) \/ RereadMiss(c)

Next ==
    \/ \E c \in Callers :
          \/ \E a \in AgentIds, m \in RequestValue \cup {None},
                r \in Argument \cup {None} : CreateCall(c, a, m, r)
          \/ Proceed(c)
          \/ Abort(c)
    \/ \E a \in AgentIds : CreateAgent(a) \/ DeleteAgent(a)

Spec == Init /\ [][Next]_vars

\* Callers that are not killed go on, and PostgreSQL wakes an INSERT that waits
\* for an index entry as soon as that transaction ends; nobody has to call.
FairSpec == Spec /\ \A c \in Callers : WF_vars(Proceed(c)) /\ SF_vars(TryInsert(c))

-----------------------------------------------------------------------------
(* Properties *)

\* Every variable holds a value of its kind.
TypeOK ==
    /\ agents \in [AgentIds -> {"absent", "present", "deleted"}]
    /\ sessions \in SUBSET Row
    /\ pc \in [Callers -> {"idle", "find", "insert", "commit", "reread"}]
    /\ agent \in [Callers -> AgentIds \cup {None}]
    /\ request \in [Callers -> RequestValue \cup {None}]
    /\ new_id \in [Callers -> SessionIds \cup {None}]
    /\ cause \in [Callers -> {"none", "unique", "foreign_key"}]
    /\ answers \in SUBSET [request : RequestValue, session : SessionIds]

\* create_session is idempotent on request_id: however concurrent calls race
\* and whichever of them die, all that are answered are given the one session
\* of that request, a number counting as the string with its text.
SameSessionPerRequest ==
    \A x, y \in answers :
        x.request.text = y.request.text => x.session = y.session

\* A session is never left without its agent: delete_agent and create_session
\* cannot pass each other.
AgentOfEverySession == \A row \in sessions : agents[row.agent] = "present"

\* The caller that loses the race on a request id finds the winner's row when
\* it reads again: the RuntimeError is not an outcome of the race.
RaceLoserFindsWinner ==
    \A c \in Callers :
        pc[c] = "reread" /\ cause[c] = "unique" => RowsFor(request[c]) # {}

\* Every call of create_session ends: nobody waits for an index entry for ever.
CreateEnds == \A c \in Callers : pc[c] # "idle" ~> pc[c] = "idle"
=============================================================================
