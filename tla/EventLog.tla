------------------------------ MODULE EventLog ------------------------------
(***************************************************************************)
(* What the session store promises about a session's event log, with no    *)
(* transactions, locks or retries in sight: a log only ever grows at its   *)
(* end, by one event whose id is new to that session; a session closes at  *)
(* most once; and what a caller has been told about an event stays true.   *)
(* SessionService implements this specification (SessionService!Log).      *)
(***************************************************************************)
EXTENDS Naturals, Sequences

CONSTANTS Sessions,    \* the sessions
          EventIds     \* the event ids their callers may use

VARIABLES log,         \* log[s] is the sequence of ids of session s's events
          closed,      \* the sessions that reached a terminal status
          told         \* what emitters were told: session, id and position

logVars == <<log, closed, told>>

Receipt(s, i) == [session |-> s, id |-> log[s][i], sequence |-> i]

Init == /\ log = [s \in Sessions |-> <<>>]
        /\ closed = {}
        /\ told = {}

AppendEvent(s, id) ==
    /\ \A i \in 1..Len(log[s]) : log[s][i] # id
    /\ log' = [log EXCEPT ![s] = Append(@, id)]
    /\ UNCHANGED <<closed, told>>

Close(s) ==
    /\ closed' = closed \cup {s}
    /\ UNCHANGED <<log, told>>

Tell(s, i) ==
    /\ told' = told \cup {Receipt(s, i)}
    /\ UNCHANGED <<log, closed>>

Next == \E s \in Sessions :
            \/ \E id \in EventIds : AppendEvent(s, id)
            \/ Close(s)
            \/ \E i \in 1..Len(log[s]) : Tell(s, i)

Spec == Init /\ [][Next]_logVars
=============================================================================
