---------------------------- MODULE ToolExecutor ----------------------------
(***************************************************************************)
(* ToolExecutor.execute: the enforcement pipeline every tool call passes.  *)
(* Calls run concurrently and share only the table tool_executions, whose  *)
(* partial unique index admits one succeeded row per tool and idempotency  *)
(* key.  The lookup of that row, the handler, the row's insertion and the  *)
(* audit event are separate transactions: a call may stop between any two, *)
(* and another call may run in between.                                    *)
(***************************************************************************)
EXTENDS Integers

CONSTANTS Calls,          \* invocations of execute
          Tools,          \* registered tools
          Keys,           \* idempotency keys
          Inputs,         \* validated payloads (told apart by their hash)
          External,       \* tools with side_effect_level external or critical
          ApprovalTools,  \* tools with requires_approval()
          IdempotentTools,
          MaxRetries,     \* max_retries of each tool
          MaxFaults,      \* bound: transactions that fail, and crashes
          None

ASSUME ToolAssumption ==
    /\ External \subseteq Tools
    /\ ApprovalTools \subseteq Tools
    /\ IdempotentTools \subseteq Tools
    /\ MaxRetries \in [Tools -> Nat]
    /\ MaxFaults \in Nat
    /\ None \notin Keys
    /\ None \notin Calls
    /\ None \notin [input : Inputs, output : Calls]

VARIABLES
    step,       \* where each call is
    request,    \* tool, key, input, scopes and approval it came with
    tries,      \* attempts of the handler so far
    answer,     \* the call whose handler produced the output held
    row,        \* the succeeded row of a tool and a key: its input and output
    effects,    \* history: per tool and key, how often the handler took effect
    doer,       \* history: calls whose handler was started
    faults

vars == <<step, request, tries, answer, row, effects, doer, faults>>

Requests == [tool : Tools, key : Keys \union {None}, input : Inputs,
             scoped : BOOLEAN, approved : BOOLEAN]
Rows == [input : Inputs, output : Calls]

\* "new" calls have no request yet; "returned" and "raised" calls are over.
Steps == {"new", "lookup", "run", "record", "recordFailure", "audit", "auditFailure",
          "returned", "raised"}
Over == {"returned", "raised"}

Tool(c) == request[c].tool
Key(c) == request[c].key

Init ==
    /\ step = [c \in Calls |-> "new"]
    /\ request \in [Calls -> {None}]
    /\ tries = [c \in Calls |-> 0]
    /\ answer = [c \in Calls |-> None]
    /\ row = [t \in Tools |-> [k \in Keys |-> None]]
    /\ effects = [t \in Tools |-> [k \in Keys |-> 0]]
    /\ doer = {}
    /\ faults = 0

Goto(c, s) == step' = [step EXCEPT ![c] = s]

-----------------------------------------------------------------------------
\* Steps 2 to 4 of the pipeline: scopes, approval, key of a side effect.
Allowed(r) ==
    /\ r.scoped
    /\ r.tool \in ApprovalTools => r.approved
    /\ r.tool \in External => r.key # None

\* resolve, validate the input, authorize.  A denial is audited and raised.
Begin(c) ==
    /\ step[c] = "new"
    /\ \E r \in Requests :
        /\ request' = [request EXCEPT ![c] = r]
        /\ Goto(c, IF ~Allowed(r) THEN "raised" ELSE IF r.key = None THEN "run" ELSE "lookup")
    /\ UNCHANGED <<tries, answer, row, effects, doer, faults>>

\* A variant of find_succeeded that does not compare the payloads.
ReplayAnyInput(c) ==
    /\ step[c] = "lookup"
    /\ LET found == row[Tool(c)][Key(c)]
       IN IF found = None
          THEN Goto(c, "run") /\ UNCHANGED answer
          ELSE Goto(c, "audit") /\ answer' = [answer EXCEPT ![c] = found.output]
    /\ UNCHANGED <<request, tries, row, effects, doer, faults>>

\* Replay the stored output, refuse the key for another payload, or go on.
find_succeeded(c) ==
    /\ step[c] = "lookup"
    /\ LET found == row[Tool(c)][Key(c)]
       IN \/ found = None /\ Goto(c, "run") /\ UNCHANGED answer
          \/ /\ found # None
             /\ found.input # request[c].input
             /\ Goto(c, "raised") /\ UNCHANGED answer
          \/ /\ found # None
             /\ found.input = request[c].input
             /\ Goto(c, "audit") /\ answer' = [answer EXCEPT ![c] = found.output]
    /\ UNCHANGED <<request, tries, row, effects, doer, faults>>

AttemptsAllowed(t) == 1 + IF t \in IdempotentTools THEN MaxRetries[t] ELSE 0

\* One attempt of the handler under the timeout.  It answers; it times out or
\* fails in the infrastructure, which is retried while attempts are left; its
\* output is invalid; or it raises something else, which leaves the executor
\* at once.  A handler that does not answer may have taken effect.
Attempt(c) ==
    LET took(n) == effects' = IF Key(c) = None THEN effects
                              ELSE [effects EXCEPT ![Tool(c)][Key(c)] = @ + n]
        more == tries[c] + 1 < AttemptsAllowed(Tool(c))
    IN /\ step[c] = "run"
       /\ tries' = [tries EXCEPT ![c] = @ + 1]
       /\ doer' = doer \union {c}
       /\ \/ took(1) /\ Goto(c, "record") /\ answer' = [answer EXCEPT ![c] = c]
          \/ /\ \E n \in 0..1 : took(n)
             /\ \/ Goto(c, IF more THEN "run" ELSE "recordFailure")
                \/ Goto(c, "recordFailure")
                \/ Goto(c, "raised")
             /\ UNCHANGED answer
       /\ UNCHANGED <<request, row, faults>>

\* A variant of record whose insert gives way to a row that is already there.
recordGivesWay(c) ==
    /\ step[c] = "record"
    /\ row' = IF Key(c) # None /\ row[Tool(c)][Key(c)] = None
              THEN [row EXCEPT ![Tool(c)][Key(c)] =
                      [input |-> request[c].input, output |-> answer[c]]]
              ELSE row
    /\ Goto(c, "audit")
    /\ UNCHANGED <<request, tries, answer, effects, doer, faults>>

\* The succeeded row is inserted, unless the unique index already has one:
\* then the call that lost the race raises, its effect notwithstanding.
record(c) ==
    /\ step[c] = "record"
    /\ \/ /\ Key(c) = None
          /\ Goto(c, "audit") /\ UNCHANGED row
       \/ /\ Key(c) # None /\ row[Tool(c)][Key(c)] = None
          /\ row' = [row EXCEPT ![Tool(c)][Key(c)] =
                       [input |-> request[c].input, output |-> answer[c]]]
          /\ Goto(c, "audit")
       \/ /\ Key(c) # None /\ row[Tool(c)][Key(c)] # None
          /\ Goto(c, "raised") /\ UNCHANGED row
    /\ UNCHANGED <<request, tries, answer, effects, doer, faults>>

\* The failed row, the audit event tool.failed, and the error.
recordFailure(c) ==
    /\ \/ step[c] = "recordFailure" /\ Goto(c, "auditFailure")
       \/ step[c] = "auditFailure" /\ Goto(c, "raised")
    /\ UNCHANGED <<request, tries, answer, row, effects, doer, faults>>

\* tool.executed or tool.replayed is appended and the output returned.
_audit(c) ==
    /\ step[c] = "audit"
    /\ Goto(c, "returned")
    /\ UNCHANGED <<request, tries, answer, row, effects, doer, faults>>

\* A transaction fails or the process stops: the call ends where it is.
Stop(c) ==
    /\ step[c] \notin Over \union {"new"}
    /\ faults < MaxFaults
    /\ faults' = faults + 1
    /\ Goto(c, "raised")
    /\ UNCHANGED <<request, tries, answer, row, effects, doer>>

Execute(c) ==
    find_succeeded(c) \/ Attempt(c) \/ record(c) \/ recordFailure(c) \/ _audit(c)

Next == \E c \in Calls : Begin(c) \/ Execute(c) \/ Stop(c)

Spec == Init /\ [][Next]_vars

\* The event loop keeps running a call that has begun.
FairSpec == Spec /\ \A c \in Calls : WF_vars(Execute(c))

-----------------------------------------------------------------------------
(* Properties                                                              *)

\* Steps, requests, attempts and rows keep their types.
TypeOK ==
    /\ step \in [Calls -> Steps]
    /\ request \in [Calls -> Requests \union {None}]
    /\ tries \in [Calls -> Nat]
    /\ answer \in [Calls -> Calls \union {None}]
    /\ row \in [Tools -> [Keys -> Rows \union {None}]]
    /\ effects \in [Tools -> [Keys -> Nat]]
    /\ doer \subseteq Calls
    /\ faults \in Nat

\* However the calls for one tool and key race, those that return return one
\* output: the one the succeeded row keeps.
OneAnswerPerKey ==
    \A c \in Calls : step[c] = "returned" /\ Key(c) # None =>
        /\ row[Tool(c)][Key(c)] # None
        /\ answer[c] = row[Tool(c)][Key(c)].output

\* No call returns the output of another payload: what it got was computed by
\* a call of the same tool, with the same key and the same input.
AnswersOwnInput ==
    \A c \in Calls : step[c] = "returned" =>
        LET d == answer[c]
        IN /\ d \in doer
           /\ Tool(d) = Tool(c) /\ request[d].input = request[c].input

\* The handler of a tool is started only by calls that hold its scopes, its
\* approval and, for a side effect, a key; and a tool that is not idempotent
\* is started once per call, an idempotent one at most 1 + max_retries times.
HandlerIsGuarded ==
    \A c \in doer :
        /\ request[c].scoped
        /\ Tool(c) \in ApprovalTools => request[c].approved
        /\ Tool(c) \in External => Key(c) # None
        /\ tries[c] =< 1 + MaxRetries[Tool(c)]
        /\ Tool(c) \notin IdempotentTools => tries[c] = 1

\* The stored row never changes: a replay today is the replay of tomorrow.
RowIsFinal ==
    [][\A t \in Tools, k \in Keys : row[t][k] # None => row'[t][k] = row[t][k]]_row

\* A call that has begun returns or raises.
EveryCallEnds == \A c \in Calls : step[c] # "new" ~> step[c] \in Over

\* executor.py: "Side effects require an idempotency key; replays return the
\* stored result without re-executing."  So a tool that is not idempotent
\* takes effect once per key.
EffectOnce ==
    \A t \in Tools \ IdempotentTools, k \in Keys : effects[t][k] =< 1
=============================================================================
