------------------------- MODULE ToolExecutorProofs -------------------------
(***************************************************************************)
(* Proofs about ToolExecutor for any calls, tools, keys and payloads.      *)
(***************************************************************************)
EXTENDS ToolExecutor, TLAPS

\* What an answer in hand is: the output of a handler that ran, for the same
\* tool and the same payload.
Computed(d, t, i) == d \in doer /\ request[d] \in Requests
                     /\ request[d].tool = t /\ request[d].input = i

\* A call that has begun carries its request, and past the guards an allowed
\* one; only a call with a key looks up and none has attempts to spare when
\* it runs its handler.
CallSound(c) ==
    /\ step[c] # "new" => request[c] \in Requests
    /\ step[c] \notin {"new", "raised"} => Allowed(request[c])
    /\ c \in doer => step[c] # "new" /\ Allowed(request[c]) /\ tries[c] > 0
    /\ step[c] \in {"new", "lookup"} => tries[c] = 0 /\ c \notin doer
    /\ step[c] = "lookup" => request[c].key # None
    /\ step[c] = "run" => tries[c] < AttemptsAllowed(request[c].tool)
    /\ step[c] # "new" => tries[c] =< AttemptsAllowed(request[c].tool)

\* What a call holds when it records and when it returns.
AnswerSound(c) ==
    /\ step[c] = "record" => answer[c] = c /\ c \in doer
    /\ step[c] \in {"audit", "returned"} =>
         /\ Computed(answer[c], request[c].tool, request[c].input)
         /\ request[c].key # None =>
              /\ row[request[c].tool][request[c].key] # None
              /\ row[request[c].tool][request[c].key].output = answer[c]

\* A stored row is the output of a call of that tool for that payload.
RowSound(t, k) == row[t][k] # None => Computed(row[t][k].output, t, row[t][k].input)

IInv ==
    /\ TypeOK
    /\ \A c \in Calls : CallSound(c) /\ AnswerSound(c)
    /\ \A t \in Tools, k \in Keys : RowSound(t, k)


-----------------------------------------------------------------------------
\* Every kind of step leaves the other calls alone, keeps the handlers that
\* ran and the rows that are stored: what the invariant says of them stays.
Frame(c) ==
    /\ \A d \in Calls \ {c} : /\ step'[d] = step[d] /\ request'[d] = request[d]
                              /\ tries'[d] = tries[d] /\ answer'[d] = answer[d]
                              /\ d \in doer' <=> d \in doer
    /\ doer \subseteq doer'
    /\ step[c] # "new" => request'[c] = request[c]
    /\ \A t \in Tools, k \in Keys : row[t][k] # None => row'[t][k] = row[t][k]

LEMMA InitInv == Init => IInv
<1> SUFFICES ASSUME Init PROVE IInv
  OBVIOUS
<1> USE ToolAssumption DEF Init
<1>1. TypeOK
  BY DEF TypeOK, Steps
<1>2. \A c \in Calls : CallSound(c) /\ AnswerSound(c)
  BY DEF CallSound, AnswerSound
<1>3. \A t \in Tools, k \in Keys : RowSound(t, k)
  BY DEF RowSound
<1>4. QED
  BY <1>1, <1>2, <1>3 DEF IInv

\* The types survive a step of any action.
LEMMA BeginTypes == ASSUME TypeOK, NEW c \in Calls, Begin(c) PROVE TypeOK' /\ Frame(c)
<1> USE DEF TypeOK, Begin, Goto
<1>1. PICK r \in Requests :
        /\ request' = [request EXCEPT ![c] = r]
        /\ step' = [step EXCEPT ![c] = IF ~Allowed(r) THEN "raised"
                                       ELSE IF r.key = None THEN "run" ELSE "lookup"]
  OBVIOUS
<1>2. step' \in [Calls -> Steps]
  BY <1>1 DEF Steps
<1>3. request' \in [Calls -> Requests \union {None}]
  BY <1>1
<1>4. TypeOK'
  BY <1>2, <1>3
<1>5. Frame(c)
  BY <1>1 DEF Frame
<1>6. QED
  BY <1>4, <1>5

LEMMA FindTypes == ASSUME TypeOK, NEW c \in Calls, find_succeeded(c), request[c] \in Requests,
                          request[c].key # None
                   PROVE TypeOK' /\ Frame(c)
<1> USE DEF TypeOK, find_succeeded, Goto
<1>1. row[Tool(c)][Key(c)] \in Rows \union {None}
  BY DEF Requests, Tool, Key
<1>2. step' \in [Calls -> Steps]
  BY DEF Steps
<1>3. answer' \in [Calls -> Calls \union {None}]
  BY <1>1 DEF Rows
<1>4. TypeOK'
  BY <1>2, <1>3
<1>5. Frame(c)
  BY DEF Frame
<1>6. QED
  BY <1>4, <1>5

LEMMA AttemptTypes == ASSUME TypeOK, NEW c \in Calls, Attempt(c), request[c] \in Requests
                      PROVE TypeOK' /\ Frame(c)
<1> DEFINE took(n) == effects' = IF Key(c) = None THEN effects
                                 ELSE [effects EXCEPT ![Tool(c)][Key(c)] = @ + n]
<1>1. Tool(c) \in Tools /\ Key(c) \in Keys \union {None}
  BY DEF Requests, Tool, Key
<1>2. \E n \in 0..1 : took(n)
  BY DEF Attempt
<1>3. PICK n \in 0..1 : took(n)
  BY <1>2
<1>4. effects' \in [Tools -> [Keys -> Nat]]
  BY <1>1, <1>3 DEF TypeOK
<1>5. step' \in [Calls -> Steps]
  BY DEF TypeOK, Attempt, Goto, Steps
<1>6. tries' \in [Calls -> Nat] /\ answer' \in [Calls -> Calls \union {None}]
  BY DEF TypeOK, Attempt
<1>7. doer' \subseteq Calls
  BY DEF TypeOK, Attempt
<1>8. TypeOK'
  BY <1>4, <1>5, <1>6, <1>7 DEF TypeOK, Attempt
<1>9. Frame(c)
  BY DEF Frame, Attempt, Goto, TypeOK
<1>10. QED
  BY <1>8, <1>9

LEMMA RecordTypes == ASSUME TypeOK, NEW c \in Calls, record(c), request[c] \in Requests,
                            answer[c] \in Calls
                     PROVE TypeOK' /\ Frame(c)
<1>1. Tool(c) \in Tools /\ Key(c) \in Keys \union {None}
  BY DEF Requests, Tool, Key
<1> DEFINE new == [input |-> request[c].input, output |-> answer[c]]
<1>2. row' \in [Tools -> [Keys -> Rows \union {None}]]
  <2>1. new \in Rows
    BY DEF Rows, Requests
  <2>2. row' = row \/ (Key(c) \in Keys /\ row' = [row EXCEPT ![Tool(c)][Key(c)] = new])
    BY <1>1 DEF record
  <2>3. row \in [Tools -> [Keys -> Rows \union {None}]]
    BY DEF TypeOK
  <2> HIDE DEF new
  <2>4. QED
    BY <1>1, <2>1, <2>2, <2>3
<1>3. step' \in [Calls -> Steps]
  BY DEF TypeOK, record, Goto, Steps
<1>4. TypeOK'
  BY <1>2, <1>3 DEF TypeOK, record
<1>5. \A t \in Tools, k \in Keys : row[t][k] # None => row'[t][k] = row[t][k]
  BY <1>1 DEF TypeOK, record
<1>6. Frame(c)
  BY <1>5 DEF Frame, record, Goto, TypeOK
<1>7. QED
  BY <1>4, <1>6

\* recordFailure, _audit and Stop move the call on and change nothing else.
LEMMA MoveTypes == ASSUME TypeOK, NEW c \in Calls, recordFailure(c) \/ _audit(c) \/ Stop(c)
                   PROVE TypeOK' /\ Frame(c)
<1>1. step' \in [Calls -> Steps]
  BY DEF TypeOK, recordFailure, _audit, Stop, Goto, Steps
<1>2. UNCHANGED <<request, tries, answer, row, effects, doer>> /\ faults' \in Nat
  BY ToolAssumption DEF TypeOK, recordFailure, _audit, Stop
<1>3. TypeOK'
  BY <1>1, <1>2 DEF TypeOK
<1>4. Frame(c)
  BY <1>2 DEF Frame, TypeOK, recordFailure, _audit, Stop, Goto
<1>5. QED
  BY <1>3, <1>4

-----------------------------------------------------------------------------
\* What a handler has computed stays computed.
LEMMA ComputedStays ==
    ASSUME IInv, NEW c \in Calls, Frame(c), NEW d, NEW t, NEW i, Computed(d, t, i)
    PROVE Computed(d, t, i)'
<1>1. d \in Calls /\ step[d] # "new"
  BY DEF IInv, TypeOK, Computed, CallSound
<1>2. request'[d] = request[d] /\ d \in doer'
  BY <1>1 DEF Frame, Computed
<1>3. QED
  BY <1>2 DEF Computed

\* It remains to look at the call that moves and at the rows it stores.
LEMMA StepInv ==
    ASSUME IInv, NEW c \in Calls, Frame(c), TypeOK', CallSound(c)', AnswerSound(c)',
           \A t \in Tools, k \in Keys : row[t][k] = None => RowSound(t, k)'
    PROVE IInv'
<1>1. ASSUME NEW d \in Calls \ {c} PROVE CallSound(d)'
  BY <1>1 DEF IInv, CallSound, Frame, Allowed, AttemptsAllowed
<1>2. ASSUME NEW d \in Calls \ {c} PROVE AnswerSound(d)'
  <2>1. /\ step'[d] = step[d] /\ request'[d] = request[d] /\ answer'[d] = answer[d]
        /\ d \in doer' <=> d \in doer
    BY <1>2 DEF Frame
  <2>2. AnswerSound(d) /\ CallSound(d)
    BY DEF IInv
  <2>3. CASE step[d] \in {"audit", "returned"}
    <3>1. request[d] \in Requests
      BY <2>2, <2>3 DEF CallSound
    <3>2. Computed(answer[d], request[d].tool, request[d].input)'
      BY <2>1, <2>2, <2>3, ComputedStays DEF AnswerSound
    <3>3. ASSUME request[d].key # None
          PROVE row'[request[d].tool][request[d].key] = row[request[d].tool][request[d].key]
      BY <2>2, <2>3, <3>1, <3>3 DEF Frame, AnswerSound, Requests
    <3>4. QED
      BY <2>1, <2>2, <2>3, <3>2, <3>3 DEF AnswerSound
  <2>4. CASE step[d] \notin {"audit", "returned"}
    BY <2>1, <2>2, <2>4 DEF AnswerSound
  <2>5. QED
    BY <2>3, <2>4
<1>3. ASSUME NEW t \in Tools, NEW k \in Keys PROVE RowSound(t, k)'
  <2>1. CASE row[t][k] = None
    BY <2>1
  <2>2. CASE row[t][k] # None
    <3>1. row'[t][k] = row[t][k] /\ RowSound(t, k)
      BY <2>2 DEF Frame, IInv
    <3>2. Computed(row[t][k].output, t, row[t][k].input)'
      BY <2>2, <3>1, ComputedStays DEF RowSound
    <3>3. QED
      BY <3>1, <3>2 DEF RowSound
  <2>3. QED
    BY <2>1, <2>2
<1>4. QED
  BY <1>1, <1>2, <1>3 DEF IInv

\* An action that stores nothing asks for nothing about the rows.
LEMMA NoNewRow ==
    ASSUME UNCHANGED row
    PROVE \A t \in Tools, k \in Keys : row[t][k] = None => RowSound(t, k)'
BY DEF RowSound

LEMMA BeginInv == ASSUME IInv, NEW c \in Calls, Begin(c) PROVE IInv'
<1>1. TypeOK /\ CallSound(c)
  BY DEF IInv
<1>2. TypeOK' /\ Frame(c)
  BY <1>1, BeginTypes
<1>3. PICK r \in Requests :
        /\ request'[c] = r
        /\ step'[c] = IF ~Allowed(r) THEN "raised" ELSE IF r.key = None THEN "run" ELSE "lookup"
  BY <1>1 DEF Begin, Goto, TypeOK
<1>4. UNCHANGED <<tries, answer, row, doer>> /\ step[c] = "new"
  BY DEF Begin
<1>5. tries[c] = 0 /\ c \notin doer /\ MaxRetries[r.tool] \in Nat
  BY <1>1, <1>4, ToolAssumption DEF CallSound, Requests
<1>6. CallSound(c)'
  BY <1>3, <1>4, <1>5 DEF CallSound, Allowed, AttemptsAllowed
<1>7. AnswerSound(c)'
  BY <1>3 DEF AnswerSound
<1>8. QED
  BY <1>2, <1>4, <1>6, <1>7, NoNewRow, StepInv

LEMMA FindInv == ASSUME IInv, NEW c \in Calls, find_succeeded(c) PROVE IInv'
<1>1. TypeOK /\ CallSound(c) /\ step[c] = "lookup"
  BY DEF IInv, find_succeeded
<1>2. request[c] \in Requests /\ request[c].key # None /\ Allowed(request[c])
  BY <1>1 DEF CallSound
<1>3. Tool(c) \in Tools /\ Key(c) \in Keys
  BY <1>2 DEF Requests, Tool, Key
<1>4. TypeOK' /\ Frame(c)
  BY <1>1, <1>2, FindTypes
<1>5. UNCHANGED <<request, tries, row, doer>>
  BY DEF find_succeeded
<1>6. tries[c] = 0 /\ c \notin doer /\ MaxRetries[Tool(c)] \in Nat
  BY <1>1, <1>3, ToolAssumption DEF CallSound
<1>7. step'[c] \in {"run", "raised", "audit"}
  BY <1>1 DEF find_succeeded, Goto, TypeOK
<1>8. CallSound(c)'
  BY <1>1, <1>2, <1>5, <1>6, <1>7 DEF CallSound, Allowed, AttemptsAllowed, Tool
<1>9. AnswerSound(c)'
  <2>1. CASE step'[c] # "audit"
    BY <1>7, <2>1 DEF AnswerSound
  <2>2. CASE step'[c] = "audit"
    <3> DEFINE found == row[Tool(c)][Key(c)]
    <3>1. found # None /\ found.input = request[c].input /\ answer'[c] = found.output
      BY <1>1, <2>2 DEF find_succeeded, Goto, TypeOK
    <3>2. Computed(found.output, Tool(c), found.input)
      BY <1>3, <3>1 DEF IInv, RowSound
    <3>3. Computed(found.output, Tool(c), found.input)'
      BY <1>5, <3>2 DEF Computed, Tool, Key
    <3>4. QED
      BY <1>5, <2>2, <3>1, <3>3 DEF AnswerSound, Tool, Key
  <2>3. QED
    BY <2>1, <2>2
<1>10. QED
  BY <1>4, <1>5, <1>8, <1>9, NoNewRow, StepInv

LEMMA AttemptInv == ASSUME IInv, NEW c \in Calls, Attempt(c) PROVE IInv'
<1>1. TypeOK /\ CallSound(c) /\ step[c] = "run"
  BY DEF IInv, Attempt
<1>2. request[c] \in Requests /\ Allowed(request[c])
  BY <1>1 DEF CallSound
<1>3. TypeOK' /\ Frame(c)
  BY <1>1, <1>2, AttemptTypes
<1>4. tries'[c] = tries[c] + 1 /\ doer' = doer \union {c} /\ UNCHANGED <<request, row>>
  BY <1>1 DEF Attempt, TypeOK
<1>5. \/ step'[c] = "record" /\ answer'[c] = c
      \/ step'[c] \in {"recordFailure", "raised"}
      \/ step'[c] = "run" /\ tries[c] + 1 < AttemptsAllowed(Tool(c))
  BY <1>1 DEF Attempt, Goto, TypeOK
<1>6. tries[c] \in Nat /\ AttemptsAllowed(Tool(c)) \in Nat
  BY <1>1, <1>2, ToolAssumption DEF TypeOK, AttemptsAllowed, Tool, Requests
<1>7. CallSound(c)'
  <2>1. tries'[c] > 0 /\ tries'[c] =< AttemptsAllowed(Tool(c))
    BY <1>1, <1>4, <1>6 DEF CallSound, Tool
  <2>2. step'[c] = "run" => tries'[c] < AttemptsAllowed(Tool(c))
    BY <1>4, <1>5
  <2>3. QED
    BY <1>1, <1>2, <1>4, <1>5, <2>1, <2>2 DEF CallSound, Allowed, AttemptsAllowed, Tool
<1>8. AnswerSound(c)'
  BY <1>4, <1>5 DEF AnswerSound
<1>9. QED
  BY <1>3, <1>4, <1>7, <1>8, NoNewRow, StepInv

LEMMA RecordInv == ASSUME IInv, NEW c \in Calls, record(c) PROVE IInv'
<1>1. TypeOK /\ CallSound(c) /\ AnswerSound(c) /\ step[c] = "record"
  BY DEF IInv, record
<1>2. request[c] \in Requests /\ answer[c] = c /\ c \in doer
  BY <1>1 DEF CallSound, AnswerSound
<1>3. Tool(c) \in Tools /\ Key(c) \in Keys \union {None}
  BY <1>2 DEF Requests, Tool, Key
<1>4. TypeOK' /\ Frame(c)
  BY <1>1, <1>2, RecordTypes
<1>5. UNCHANGED <<request, tries, answer, doer>> /\ step'[c] \in {"audit", "raised"}
  BY <1>1 DEF record, Goto, TypeOK
<1>6. CallSound(c)'
  BY <1>1, <1>5 DEF CallSound, Allowed, AttemptsAllowed
<1> DEFINE new == [input |-> request[c].input, output |-> answer[c]]
<1>7. Computed(c, Tool(c), request[c].input)'
  BY <1>2, <1>5 DEF Computed, Tool
<1>8. new # None
  BY <1>2, ToolAssumption DEF Requests
<1>9. ASSUME NEW t \in Tools, NEW k \in Keys, row[t][k] = None PROVE RowSound(t, k)'
  <2>1. CASE t = Tool(c) /\ k = Key(c)
    <3>1. row'[t][k] = new
      BY <1>1, <1>9, <2>1, ToolAssumption DEF record, TypeOK
    <3>2. new.output = c /\ new.input = request[c].input
      BY <1>2
    <3>3. row'[t][k].output = c /\ row'[t][k].input = request[c].input
      BY <3>1, <3>2
    <3>4. Computed(c, t, request[c].input)'
      BY <1>7, <2>1, <1>5 DEF Computed, Tool
    <3>5. request'[c] = request[c]
      BY <1>5
    <3>6. QED
      BY <3>3, <3>4, <3>5 DEF RowSound, Computed
  <2>2. CASE ~(t = Tool(c) /\ k = Key(c))
    <3>1. row'[t][k] = row[t][k]
      BY <1>1, <1>3, <2>2 DEF record, TypeOK
    <3>2. QED
      BY <1>9, <3>1 DEF RowSound
  <2>3. QED
    BY <2>1, <2>2
<1>10. AnswerSound(c)'
  <2>1. CASE step'[c] = "raised"
    BY <2>1 DEF AnswerSound
  <2>2. CASE step'[c] = "audit"
    <3>1. Key(c) # None => row'[Tool(c)][Key(c)] = new
      BY <1>1, <1>3, <2>2 DEF record, TypeOK, Goto
    <3>2. QED
      BY <1>2, <1>5, <1>7, <1>8, <2>2, <3>1 DEF AnswerSound, Tool, Key
  <2>3. QED
    BY <1>5, <2>1, <2>2
<1>11. QED
  BY <1>4, <1>6, <1>9, <1>10, StepInv

LEMMA MoveInv ==
    ASSUME IInv, NEW c \in Calls, recordFailure(c) \/ _audit(c) \/ Stop(c) PROVE IInv'
<1>1. TypeOK /\ CallSound(c) /\ AnswerSound(c)
  BY DEF IInv
<1>2. TypeOK' /\ Frame(c)
  BY <1>1, MoveTypes
<1>3. UNCHANGED <<request, tries, answer, row, doer>>
  BY DEF recordFailure, _audit, Stop
<1>4. \/ step[c] = "audit" /\ step'[c] = "returned"
      \/ step[c] = "recordFailure" /\ step'[c] = "auditFailure"
      \/ step[c] # "new" /\ step'[c] = "raised"
  BY <1>1 DEF recordFailure, _audit, Stop, Goto, TypeOK
<1>5. CallSound(c)'
  BY <1>1, <1>3, <1>4 DEF CallSound, Allowed, AttemptsAllowed
<1>6. AnswerSound(c)'
  BY <1>1, <1>3, <1>4 DEF AnswerSound, Computed
<1>7. QED
  BY <1>2, <1>3, <1>5, <1>6, NoNewRow, StepInv

LEMMA StutterInv == ASSUME IInv, UNCHANGED vars PROVE IInv'
BY DEF IInv, vars, TypeOK, CallSound, AnswerSound, RowSound, Computed, Allowed, AttemptsAllowed

\* The inductive invariant of the executor holds in every reachable state,
\* however many calls execute() serves at once and wherever they stop.
THEOREM Invariance == Spec => []IInv
<1>1. Init => IInv
  BY InitInv
<1>2. IInv /\ [Next]_vars => IInv'
  <2> SUFFICES ASSUME IInv, [Next]_vars PROVE IInv'
    OBVIOUS
  <2>1. CASE Next
    <3>1. PICK c \in Calls : Begin(c) \/ Execute(c) \/ Stop(c)
      BY <2>1 DEF Next
    <3>2. QED
      BY <3>1, BeginInv, FindInv, AttemptInv, RecordInv, MoveInv DEF Execute
  <2>2. CASE UNCHANGED vars
    BY <2>2, StutterInv
  <2>3. QED
    BY <2>1, <2>2
<1>3. QED
  BY <1>1, <1>2, PTL DEF Spec

\* The rows, the requests and the answers keep their types.
THEOREM TypeCorrect == Spec => []TypeOK
<1>1. IInv => TypeOK
  BY DEF IInv
<1>2. QED
  BY <1>1, Invariance, PTL

\* Whatever calls race for one tool and key, those that execute() answers get
\* the output that the succeeded row keeps.
THEOREM AgreedAnswer == Spec => []OneAnswerPerKey
<1>1. IInv => OneAnswerPerKey
  BY DEF IInv, AnswerSound, OneAnswerPerKey, Tool, Key
<1>2. QED
  BY <1>1, Invariance, PTL

\* A replay never hands out the output of another payload.
THEOREM OwnAnswer == Spec => []AnswersOwnInput
<1>1. IInv => AnswersOwnInput
  BY DEF IInv, AnswerSound, Computed, AnswersOwnInput, Tool
<1>2. QED
  BY <1>1, Invariance, PTL

\* No handler runs without scopes, approval and key, nor more often than the
\* tool's definition allows.
THEOREM GuardedHandler == Spec => []HandlerIsGuarded
<1>1. ASSUME IInv, NEW c \in doer
      PROVE /\ request[c] \in Requests /\ Allowed(request[c]) /\ tries[c] > 0
            /\ tries[c] =< AttemptsAllowed(request[c].tool) /\ tries[c] \in Nat
  BY <1>1 DEF IInv, TypeOK, CallSound
<1>2. IInv => HandlerIsGuarded
  <2> SUFFICES ASSUME IInv, NEW c \in doer
               PROVE /\ request[c].scoped
                     /\ Tool(c) \in ApprovalTools => request[c].approved
                     /\ Tool(c) \in External => Key(c) # None
                     /\ tries[c] =< 1 + MaxRetries[Tool(c)]
                     /\ Tool(c) \notin IdempotentTools => tries[c] = 1
    BY DEF HandlerIsGuarded
  <2>1. MaxRetries[Tool(c)] \in Nat
    BY <1>1, ToolAssumption DEF Requests, Tool
  <2>2. Allowed(request[c])
    BY <1>1
  <2>3. tries[c] =< 1 + MaxRetries[Tool(c)]
    BY <1>1, <2>1 DEF AttemptsAllowed, Tool
  <2>4. Tool(c) \notin IdempotentTools => tries[c] = 1
    BY <1>1, <2>1 DEF AttemptsAllowed, Tool
  <2>5. QED
    BY <2>2, <2>3, <2>4 DEF Allowed, Tool, Key
<1>3. QED
  BY <1>2, Invariance, PTL

\* A succeeded row, once inserted, is never replaced: the unique index.
THEOREM FinalRows == Spec => RowIsFinal
<1>1. IInv /\ [Next]_vars =>
        [\A t \in Tools, k \in Keys : row[t][k] # None => row'[t][k] = row[t][k]]_row
  <2> SUFFICES ASSUME IInv, Next
               PROVE \A t \in Tools, k \in Keys : row[t][k] # None => row'[t][k] = row[t][k]
    BY DEF vars
  <2>1. PICK c \in Calls : Begin(c) \/ Execute(c) \/ Stop(c)
    BY DEF Next
  <2>2. CASE record(c)
    <3>1. /\ TypeOK /\ request[c] \in Requests /\ answer[c] \in Calls
      BY <2>2 DEF IInv, CallSound, AnswerSound, record, TypeOK
    <3>2. QED
      BY <2>2, <3>1, RecordTypes DEF Frame
  <2>3. CASE ~record(c)
    BY <2>1, <2>3 DEF Execute, Begin, find_succeeded, Attempt, recordFailure, _audit, Stop
  <2>4. QED
    BY <2>2, <2>3
<1>2. QED
  BY <1>1, Invariance, PTL DEF Spec, RowIsFinal
=============================================================================
