-------------------------- MODULE ApprovalRunProofs --------------------------
(***************************************************************************)
(* Proofs about ApprovalRun for any number of runs, requests, handlers and *)
(* gates: the inductive invariant, the safety properties it implies, and   *)
(* the refinement of GatedRun.                                             *)
(***************************************************************************)
EXTENDS ApprovalRun, TLAPS

\* The initial state has no requests and only idle handlers.
LEMMA InitIInv == Init => IInv
  <1> SUFFICES ASSUME Init PROVE IInv
    OBVIOUS
  <1> USE ConstantsAssumption DEF Init, NoRequest, NoRun, Idle
  <1>1. TypeOK
    BY DEF TypeOK, Request, Decision, Run, Task, Gates, End, Outcome
  <1>2. \A q \in Requests : RequestSound(q)
    BY DEF RequestSound, OthersApproved
  <1>3. \A p \in Tasks : TaskSound(p)
    BY DEF TaskSound
  <1>4. OneHolder /\ OneOpenRequest
    BY DEF OneHolder, Holds, OneOpenRequest
  <1>5. DecidedOnce /\ RequesterExcluded /\ ActsOnApproval
    BY DEF DecidedOnce, RequesterExcluded, ActsOnApproval, Outcome
  <1> QED
    BY <1>1, <1>2, <1>3, <1>4, <1>5 DEF IInv

\* A handler step that writes no table keeps what only depends on them.
LEMMA TablesKept ==
  ASSUME IInv, UNCHANGED <<requests, decisions, runs, checkpoint, acted>>
  PROVE  /\ \A q \in Requests : RequestSound(q)'
         /\ OneOpenRequest'
         /\ DecidedOnce'
         /\ RequesterExcluded'
         /\ ActsOnApproval'
  BY DEF IInv, RequestSound, OthersApproved, OneOpenRequest, DecidedOnce,
         RequesterExcluded, ActsOnApproval

\* Starting a run.
LEMMA StartIInv ==
  ASSUME IInv, NEW p \in Tasks, NEW r \in Runs, NEW u \in Users, Start(p, r, u)
  PROVE  IInv'
  <1> USE ConstantsAssumption DEF Start
  <1>1. TypeOK'
    <2>1. runs' \in [Runs -> Run]
      BY DEF IInv, TypeOK, Run
    <2>2. task' \in [Tasks -> Task]
      BY DEF IInv, TypeOK, Task, Idle
    <2> QED BY <2>1, <2>2 DEF IInv, TypeOK
  <1>2. \A q \in Requests : requests[q].status # "absent" => requests[q].run # r
    BY DEF IInv, RequestSound
  <1>3. \A q \in Requests : RequestSound(q)'
    <2> SUFFICES ASSUME NEW q \in Requests PROVE RequestSound(q)'
      OBVIOUS
    <2>1. RequestSound(q) /\ requests' = requests /\ checkpoint' = checkpoint
      BY DEF IInv
    <2>2. requests[q].status # "absent" =>
            runs'[requests[q].run] = runs[requests[q].run]
      BY <1>2, <2>1 DEF IInv, TypeOK, RequestSound
    <2> QED
      BY <2>1, <2>2 DEF RequestSound, OthersApproved
  <1>4. \A p2 \in Tasks : p2 # p /\ task[p2].pc # "idle" => task[p2].run # r
    BY DEF IInv, TaskSound
  <1>5. \A p2 \in Tasks : TaskSound(p2)'
    <2> SUFFICES ASSUME NEW p2 \in Tasks PROVE TaskSound(p2)'
      OBVIOUS
    <2>1. CASE p2 = p
      BY <2>1, <1>2 DEF IInv, TypeOK, TaskSound, Idle, AllApproved, Run, Task
    <2>2. CASE p2 # p
      BY <2>2, <1>4 DEF IInv, TypeOK, TaskSound, Carries, OthersApproved, AllApproved, Run, Task
    <2> QED BY <2>1, <2>2
  <1>6. OneHolder'
    BY <1>2, <1>4 DEF IInv, TypeOK, OneHolder, Holds, Idle, Task, Request
  <1>7. OneOpenRequest' /\ DecidedOnce' /\ RequesterExcluded' /\ ActsOnApproval'
    BY DEF IInv, OneOpenRequest, DecidedOnce, RequesterExcluded, ActsOnApproval
  <1> QED
    BY <1>1, <1>3, <1>5, <1>6, <1>7 DEF IInv

\* A handler that stops (conflict, refusal, crash) gives up whatever it held.
LEMMA StopIInv ==
  ASSUME IInv, NEW p \in Tasks, task' = [task EXCEPT ![p] = Idle],
         UNCHANGED <<requests, decisions, runs, checkpoint, acted>>
  PROVE  IInv'
  <1>1. TypeOK'
    BY DEF IInv, TypeOK, Task, Idle
  <1>2. \A p2 \in Tasks : TaskSound(p2)'
    <2> SUFFICES ASSUME NEW p2 \in Tasks PROVE TaskSound(p2)'
      OBVIOUS
    <2>1. CASE p2 = p
      BY <2>1 DEF IInv, TypeOK, TaskSound, Idle
    <2>2. CASE p2 # p
      BY <2>2 DEF IInv, TypeOK, TaskSound, Carries, OthersApproved, AllApproved
    <2> QED BY <2>1, <2>2
  <1>3. OneHolder'
    BY DEF IInv, TypeOK, OneHolder, Holds, Idle
  <1> QED
    BY <1>1, <1>2, <1>3, TablesKept DEF IInv

\* Reading a request in order to decide it.
LEMMA DecideReadIInv ==
  ASSUME IInv, NEW p \in Tasks, NEW u \in Users, NEW q \in Requests,
         NEW o \in Outcome, NEW c \in BOOLEAN, DecideRead(p, u, q, o, c)
  PROVE  IInv'
  <1> USE DEF DecideRead
  <1>0. requests[q] \in Request /\ RequestSound(q)
    BY DEF IInv, TypeOK
  <1>1. TypeOK'
    <2>1. task' \in [Tasks -> Task]
      BY <1>0 DEF IInv, TypeOK, Task, Request, RequestSound
    <2> QED BY <2>1 DEF IInv, TypeOK
  <1>2. \A p2 \in Tasks : TaskSound(p2)'
    <2> SUFFICES ASSUME NEW p2 \in Tasks PROVE TaskSound(p2)'
      OBVIOUS
    <2>1. CASE p2 = p
      BY <2>1, <1>0 DEF IInv, TypeOK, TaskSound, RequestSound, MayDecide
    <2>2. CASE p2 # p
      BY <2>2 DEF IInv, TypeOK, TaskSound, Carries, OthersApproved, AllApproved
    <2> QED BY <2>1, <2>2
  <1>3. OneHolder'
    BY DEF IInv, TypeOK, OneHolder, Holds
  <1> QED
    BY <1>1, <1>2, <1>3, TablesKept DEF IInv

\* Resuming the graph with the committed decision.
LEMMA ResumeIInv ==
  ASSUME IInv, NEW p \in Tasks, Resume(p)
  PROVE  IInv'
  <1> USE DEF Resume, ResumeActor
  <1>0. TaskSound(p) /\ task[p] \in Task /\ task[p].run \in Runs
    BY DEF IInv, TypeOK, TaskSound
  <1>1. TypeOK'
    <2>1. runs[task[p].run].requested_by \in Users \cup {None}
      BY <1>0 DEF IInv, TypeOK, Run
    <2>2. task' \in [Tasks -> Task]
      BY <1>0, <2>1 DEF IInv, TypeOK, Task
    <2> QED BY <2>2 DEF IInv, TypeOK
  <1>2. \A p2 \in Tasks : TaskSound(p2)'
    <2> SUFFICES ASSUME NEW p2 \in Tasks PROVE TaskSound(p2)'
      OBVIOUS
    <2>1. CASE p2 = p
      <3>1. task'[p].outcome = task[p].outcome /\ task'[p].run = task[p].run
            /\ task'[p].request = task[p].request /\ task'[p].pc = "graph"
            /\ task'[p].user = runs[task[p].run].requested_by
        BY <1>0 DEF IInv, TypeOK, Task
      <3>2. Carries(p)' /\ task[p].outcome # None
        BY <1>0, <3>1, ConstantsAssumption
        DEF TaskSound, Carries, OthersApproved, IInv, RequestSound, TypeOK, Request
      <3> QED BY <1>0, <2>1, <3>1, <3>2 DEF TaskSound
    <2>2. CASE p2 # p
      BY <2>2 DEF IInv, TypeOK, TaskSound, Carries, OthersApproved, AllApproved
    <2> QED BY <2>1, <2>2
  <1>3. OneHolder'
    BY <1>0 DEF IInv, TypeOK, OneHolder, Holds, Task
  <1> QED
    BY <1>1, <1>2, <1>3, TablesKept DEF IInv

\* set_status touches the run row only, never its requester.
LEMMA SetStatusIInv ==
  ASSUME IInv, NEW p \in Tasks, SetWaiting(p) \/ SetCompleted(p)
  PROVE  IInv'
  <1>0. TaskSound(p) /\ task[p] \in Task /\ task[p].run \in Runs
    BY DEF IInv, TypeOK, TaskSound, SetWaiting, SetCompleted
  <1>1. /\ runs' \in [Runs -> Run]
        /\ \A r \in Runs : /\ runs'[r].requested_by = runs[r].requested_by
                           /\ runs[r].status # "absent" => runs'[r].status # "absent"
        /\ task' = [task EXCEPT ![p] = Idle]
        /\ UNCHANGED <<requests, decisions, checkpoint, acted>>
    <2>1. CASE SetWaiting(p)
      <3>1. task[p].request \in Requests \cup {None}
        BY <1>0 DEF Task
      <3>2. runs' \in [Runs -> Run]
        BY <1>0, <2>1, <3>1 DEF IInv, TypeOK, SetWaiting, Run
      <3>3. \A r \in Runs :
              /\ runs'[r].requested_by = runs[r].requested_by
              /\ runs[r].status # "absent" => runs'[r].status # "absent"
        BY <1>0, <2>1 DEF IInv, TypeOK, SetWaiting, Run
      <3> QED BY <2>1, <3>2, <3>3 DEF SetWaiting
    <2>2. CASE SetCompleted(p)
      <3>1. runs' \in [Runs -> Run]
        BY <1>0, <2>2 DEF IInv, TypeOK, SetCompleted, Run
      <3>2. \A r \in Runs :
              /\ runs'[r].requested_by = runs[r].requested_by
              /\ runs[r].status # "absent" => runs'[r].status # "absent"
        BY <1>0, <2>2 DEF IInv, TypeOK, SetCompleted, Run
      <3> QED BY <2>2, <3>1, <3>2 DEF SetCompleted
    <2> QED BY <2>1, <2>2
  <1>2. TypeOK'
    BY <1>1 DEF IInv, TypeOK, Task, Idle
  <1>3. \A q \in Requests : RequestSound(q)'
    BY <1>1 DEF IInv, RequestSound, OthersApproved
  <1>4. \A p2 \in Tasks : TaskSound(p2)'
    <2> SUFFICES ASSUME NEW p2 \in Tasks PROVE TaskSound(p2)'
      OBVIOUS
    <2>1. CASE p2 = p
      BY <2>1, <1>1 DEF IInv, TypeOK, TaskSound, Idle
    <2>2. CASE p2 # p
      BY <2>2, <1>1 DEF IInv, TypeOK, TaskSound, Carries, OthersApproved, AllApproved
    <2> QED BY <2>1, <2>2
  <1>5. OneHolder'
    BY <1>1 DEF IInv, TypeOK, OneHolder, Holds, Idle
  <1>6. OneOpenRequest' /\ DecidedOnce' /\ RequesterExcluded' /\ ActsOnApproval'
    BY <1>1 DEF IInv, OneOpenRequest, DecidedOnce, RequesterExcluded, ActsOnApproval
  <1> QED
    BY <1>2, <1>3, <1>4, <1>5, <1>6 DEF IInv

\* Acting on an approval: the gate acted upon is the one it answers.
LEMMA GraphActIInv ==
  ASSUME IInv, NEW p \in Tasks, GraphAct(p)
  PROVE  IInv'
  <1> USE ConstantsAssumption DEF GraphAct
  <1> DEFINE r == task[p].run
             q == task[p].request
  <1>0. /\ TaskSound(p) /\ task[p] \in Task /\ r \in Runs /\ q \in Requests
        /\ Carries(p)
        /\ requests[q].status = "approved" /\ requests[q].run = r
        /\ requests[q].gate = checkpoint[r] /\ checkpoint[r] \in Gates
    BY DEF IInv, TypeOK, TaskSound, Carries, RequestSound, Outcome
  <1>1. TypeOK'
    <2>1. task' \in [Tasks -> Task]
      BY <1>0 DEF IInv, TypeOK, Task
    <2>2. acted' \in [Runs -> SUBSET Gates]
      BY <1>0 DEF IInv, TypeOK
    <2> QED BY <2>1, <2>2 DEF IInv, TypeOK
  <1>2. \A q2 \in Requests : RequestSound(q2)'
    BY DEF IInv, RequestSound, OthersApproved
  <1>3. \A p2 \in Tasks : TaskSound(p2)'
    <2> SUFFICES ASSUME NEW p2 \in Tasks PROVE TaskSound(p2)'
      OBVIOUS
    <2>1. CASE p2 = p
      <3>1. AllApproved(r)'
        BY <1>0 DEF AllApproved, Carries, OthersApproved
      <3>2. task'[p].pc = "graph" /\ task'[p].run = r /\ task'[p].outcome = None
            /\ task'[p].user = task[p].user
        BY <1>0 DEF IInv, TypeOK, Task
      <3> QED BY <1>0, <2>1, <3>1, <3>2 DEF TaskSound
    <2>2. CASE p2 # p
      <3>1. task'[p2] = task[p2] /\ TaskSound(p2)
        BY <2>2 DEF IInv, TypeOK
      <3>2. Holds(p2) => task[p2].run # r
        BY <2>2, <1>0 DEF IInv, OneHolder, Holds
      <3>3. Holds(p2) => acted'[task[p2].run] = acted[task[p2].run]
        BY <3>1, <3>2 DEF IInv, TypeOK, TaskSound, Holds
      <3>4. Holds(p2) /\ Carries(p2) => Carries(p2)'
        BY <3>1, <3>3 DEF Carries, OthersApproved
      <3> QED BY <3>1, <3>4 DEF TaskSound, AllApproved, Holds
    <2> QED BY <2>1, <2>2
  <1>4. OneHolder'
    BY <1>0 DEF IInv, TypeOK, OneHolder, Holds, Task
  <1>5. OneOpenRequest' /\ DecidedOnce' /\ RequesterExcluded'
    BY DEF IInv, OneOpenRequest, DecidedOnce, RequesterExcluded
  <1>6. ActsOnApproval'
    BY <1>0 DEF IInv, TypeOK, ActsOnApproval
  <1> QED
    BY <1>1, <1>2, <1>3, <1>4, <1>5, <1>6 DEF IInv

\* The graph moves on, to a later gate or to its end.
LEMMA GraphMoveIInv ==
  ASSUME IInv, NEW p \in Tasks,
         (\E g \in Gates : GraphPause(p, g)) \/ GraphEnd(p)
  PROVE  IInv'
  <1> USE ConstantsAssumption
  <1> DEFINE r == task[p].run
  <1>0. TaskSound(p) /\ task[p] \in Task /\ r \in Runs /\ task[p].pc = "graph"
    BY DEF IInv, TypeOK, TaskSound, GraphPause, GraphEnd
  <1>1. PICK c \in Gates \cup {End} :
          /\ checkpoint' = [checkpoint EXCEPT ![r] = c]
          /\ c # End => checkpoint[r] < c /\ task[p].outcome = None
          /\ checkpoint[r] <= c
    BY <1>0 DEF IInv, TypeOK, GraphPause, GraphEnd, Gates, End
  <1>2. /\ task' = [task EXCEPT ![p].pc = "outcome"]
        /\ UNCHANGED <<requests, decisions, runs, acted>>
    BY DEF GraphPause, GraphEnd
  <1>3. TypeOK'
    <2>1. task' \in [Tasks -> Task]
      BY <1>0, <1>2 DEF IInv, TypeOK, Task
    <2>2. checkpoint' \in [Runs -> 0..End]
      BY <1>0, <1>1 DEF IInv, TypeOK, Gates, End
    <2> QED BY <1>2, <2>1, <2>2 DEF IInv, TypeOK
  <1>4. /\ \A r2 \in Runs : r2 # r => checkpoint'[r2] = checkpoint[r2]
        /\ checkpoint'[r] = c
    BY <1>0, <1>1 DEF IInv, TypeOK
  <1>5. \A q \in Requests : requests[q].status = "pending" => requests[q].run # r
    BY <1>0 DEF IInv, OneHolder, Holds
  <1>6. \A q \in Requests : RequestSound(q)'
    <2> SUFFICES ASSUME NEW q \in Requests PROVE RequestSound(q)'
      OBVIOUS
    <2>1. RequestSound(q) /\ requests[q] \in Request
      BY DEF IInv, TypeOK
    <2>2. requests[q].status # "absent" =>
            requests[q].gate <= checkpoint'[requests[q].run]
      BY <1>0, <1>1, <1>4, <2>1 DEF RequestSound, IInv, TypeOK, Gates, End
    <2>3. requests[q].status = "pending" =>
            requests[q].gate = checkpoint'[requests[q].run]
      BY <1>4, <1>5, <2>1 DEF RequestSound
    <2>4. OthersApproved(q) => OthersApproved(q)'
      BY <1>2 DEF OthersApproved
    <2> QED BY <1>2, <2>1, <2>2, <2>3, <2>4 DEF RequestSound
  <1>7. \A p2 \in Tasks : TaskSound(p2)'
    <2> SUFFICES ASSUME NEW p2 \in Tasks PROVE TaskSound(p2)'
      OBVIOUS
    <2>1. CASE p2 = p
      <3>1. task'[p].pc = "outcome" /\ task'[p].run = r
            /\ task'[p].user = task[p].user
        BY <1>0, <1>2 DEF IInv, TypeOK, Task
      <3>2. c # End => AllApproved(r)'
        BY <1>0, <1>1, <1>2 DEF TaskSound, AllApproved
      <3>3. c # End => \A q \in Requests :
                         requests[q].run = r => requests[q].gate < c
        <4> SUFFICES ASSUME c # End, NEW q \in Requests, requests[q].run = r
                     PROVE  requests[q].gate < c
          OBVIOUS
        <4>1. RequestSound(q) /\ requests[q].status # "absent"
          BY <1>0 DEF IInv, RequestSound
        <4>2. requests[q].gate \in Gates /\ requests[q].gate <= checkpoint[r]
          BY <4>1 DEF RequestSound
        <4>3. checkpoint[r] \in 0..End /\ checkpoint[r] < c
          BY <1>0, <1>1 DEF IInv, TypeOK
        <4> QED BY <4>2, <4>3 DEF Gates, End
      <3> QED
        BY <1>0, <1>2, <1>4, <2>1, <3>1, <3>2, <3>3 DEF TaskSound
    <2>2. CASE p2 # p
      <3>1. task'[p2] = task[p2] /\ TaskSound(p2)
        BY <2>2, <1>2 DEF IInv, TypeOK
      <3>2. Holds(p2) => task[p2].run # r
        BY <2>2, <1>0 DEF IInv, OneHolder, Holds
      <3>3. Holds(p2) => checkpoint'[task[p2].run] = checkpoint[task[p2].run]
        BY <3>1, <3>2, <1>4 DEF TaskSound, Holds
      <3>4. Holds(p2) /\ Carries(p2) => Carries(p2)'
        BY <3>1, <3>3, <1>2 DEF Carries, OthersApproved
      <3>5. AllApproved(task[p2].run) => AllApproved(task[p2].run)'
        BY <1>2, <3>1 DEF AllApproved
      <3> QED BY <1>2, <3>1, <3>3, <3>4, <3>5 DEF TaskSound, Holds
    <2> QED BY <2>1, <2>2
  <1>8. OneHolder'
    BY <1>0, <1>2 DEF IInv, TypeOK, OneHolder, Holds, Task
  <1>9. OneOpenRequest' /\ DecidedOnce' /\ RequesterExcluded' /\ ActsOnApproval'
    BY <1>2 DEF IInv, OneOpenRequest, DecidedOnce, RequesterExcluded, ActsOnApproval
  <1> QED
    BY <1>3, <1>6, <1>7, <1>8, <1>9 DEF IInv

\* Raising the request of the gate the graph is paused at.
LEMMA CreateApprovalIInv ==
  ASSUME IInv, NEW p \in Tasks, NEW q \in Requests, CreateApproval(p, q)
  PROVE  IInv'
  <1> USE ConstantsAssumption DEF CreateApproval
  <1> DEFINE r == task[p].run
             new == [status |-> "pending", run |-> r, gate |-> checkpoint[r],
                     requested_by |-> task[p].user, version |-> 1]
  <1>0. /\ TaskSound(p) /\ task[p] \in Task /\ r \in Runs /\ RequestSound(q)
        /\ checkpoint[r] \in Gates /\ task[p].user = runs[r].requested_by
        /\ AllApproved(r)
        /\ \A q2 \in Requests : requests[q2].run = r
                                  => requests[q2].gate < checkpoint[r]
    BY DEF IInv, TypeOK, TaskSound
  <1>1. /\ new \in Request
        /\ requests'[q] = new
        /\ \A q2 \in Requests : q2 # q => requests'[q2] = requests[q2]
    <2>1. task[p].user \in Users \cup {None}
      BY <1>0 DEF Task
    <2>2. new \in Request
      BY <1>0, <2>1 DEF Request
    <2>3. requests' = [requests EXCEPT ![q] = new]
      OBVIOUS
    <2>4. requests \in [Requests -> Request]
      BY DEF IInv, TypeOK
    <2> HIDE DEF new
    <2> QED BY <2>2, <2>3, <2>4
  <1>2. TypeOK'
    <2>1. requests' \in [Requests -> Request]
      BY <1>1 DEF IInv, TypeOK
    <2>2. task' \in [Tasks -> Task]
      BY <1>0 DEF IInv, TypeOK, Task, Idle
    <2> QED BY <2>1, <2>2 DEF IInv, TypeOK
  <1>3. \A q2 \in Requests : OthersApproved(q2) /\ requests[q2].run \in Runs
                               /\ requests[q2].run # r => OthersApproved(q2)'
    BY <1>0, <1>1 DEF OthersApproved, RequestSound
  <1>4. \A q2 \in Requests : RequestSound(q2)'
    <2> SUFFICES ASSUME NEW q2 \in Requests PROVE RequestSound(q2)'
      OBVIOUS
    <2>1. CASE q2 = q
      <3>1. OthersApproved(q)'
        BY <1>0, <1>1 DEF OthersApproved, AllApproved
      <3> QED
        BY <1>0, <1>1, <2>1, <3>1 DEF RequestSound, IInv, TypeOK, TaskSound, Gates, End
    <2>2. CASE q2 # q
      <3>1. RequestSound(q2) /\ requests'[q2] = requests[q2]
        BY <1>1, <2>2 DEF IInv
      <3>2. requests[q2].status = "pending" => requests[q2].run # r
        BY DEF IInv, OneHolder, Holds
      <3>3. requests[q2].status = "pending" => OthersApproved(q2)'
        BY <1>3, <3>1, <3>2 DEF RequestSound
      <3> QED
        BY <3>1, <3>3 DEF RequestSound
    <2> QED BY <2>1, <2>2
  <1>5. \A p2 \in Tasks : TaskSound(p2)'
    <2> SUFFICES ASSUME NEW p2 \in Tasks PROVE TaskSound(p2)'
      OBVIOUS
    <2>1. CASE p2 = p
      BY <1>0, <2>1 DEF IInv, TypeOK, TaskSound, Idle
    <2>2. CASE p2 # p
      <3>1. task'[p2] = task[p2] /\ TaskSound(p2) /\ task[p2] \in Task
        BY <2>2 DEF IInv, TypeOK
      <3>2. Holds(p2) => task[p2].run # r
        BY <2>2 DEF IInv, OneHolder, Holds
      <3>3. Holds(p2) /\ Carries(p2) /\ task[p2].outcome \in Outcome => Carries(p2)'
        BY <1>1, <1>3, <3>1, <3>2 DEF Carries, Outcome, TaskSound, Holds
      <3>4. Holds(p2) /\ AllApproved(task[p2].run) => AllApproved(task[p2].run)'
        BY <1>1, <3>1, <3>2 DEF AllApproved
      <3>5. task[p2].pc = "deciding" => task[p2].request # q
        BY <3>1 DEF TaskSound
      <3>6. Holds(p2) => \A q2 \in Requests :
              requests'[q2].run = task[p2].run => requests[q2].run = task[p2].run
                                                  /\ requests'[q2] = requests[q2]
        BY <1>1, <3>2
      <3>7. task[p2].outcome \in Outcome \cup {None}
        BY <3>1 DEF Task
      <3> QED
        BY <1>1, <3>1, <3>3, <3>4, <3>5, <3>6, <3>7 DEF TaskSound, Holds
    <2> QED BY <2>1, <2>2
  <1>6. OneHolder'
    <2>1. \A p2 \in Tasks : Holds(p2)' => p2 # p /\ Holds(p2) /\ task'[p2] = task[p2]
      BY DEF IInv, TypeOK, Holds, Idle
    <2>2. \A p2 \in Tasks : p2 # p /\ Holds(p2) => task[p2].run # r
      BY DEF IInv, OneHolder, Holds
    <2> QED BY <1>1, <2>1, <2>2 DEF IInv, OneHolder
  <1>7. OneOpenRequest'
    <2> SUFFICES ASSUME NEW q1 \in Requests, NEW q2 \in Requests, q1 # q2,
                        requests'[q1].status # "absent",
                        requests'[q1].run = requests'[q2].run
                 PROVE  /\ requests'[q1].gate # requests'[q2].gate
                        /\ ~(/\ requests'[q1].status = "pending"
                             /\ requests'[q2].status = "pending")
      BY DEF OneOpenRequest
    <2>1. \A q3 \in Requests : requests[q3].run = r =>
            requests[q3].gate # checkpoint[r] /\ requests[q3].status # "pending"
      BY <1>0 DEF IInv, TypeOK, RequestSound, AllApproved, Request, Gates, End
    <2>2. CASE q1 = q
      BY <1>1, <2>1, <2>2
    <2>3. CASE q2 = q
      BY <1>1, <2>1, <2>3
    <2>4. CASE q1 # q /\ q2 # q
      BY <1>1, <2>4 DEF IInv, OneOpenRequest
    <2> QED BY <2>2, <2>3, <2>4
  <1>8. decisions[q] = <<>>
    BY DEF IInv, DecidedOnce, Outcome
  <1>9. DecidedOnce'
    BY <1>1, <1>8 DEF IInv, DecidedOnce, Outcome
  <1>10. RequesterExcluded'
    BY <1>1, <1>8 DEF IInv, RequesterExcluded
  <1>11. ActsOnApproval'
    <2> SUFFICES ASSUME NEW r2 \in Runs, NEW g \in acted[r2]
                 PROVE  \E q2 \in Requests :
                          /\ requests'[q2].run = r2 /\ requests'[q2].gate = g
                          /\ requests'[q2].status = "approved"
      BY DEF ActsOnApproval
    <2>1. PICK q2 \in Requests : /\ requests[q2].run = r2 /\ requests[q2].gate = g
                                 /\ requests[q2].status = "approved"
      BY DEF IInv, ActsOnApproval
    <2> QED BY <1>1, <2>1
  <1> QED
    BY <1>2, <1>4, <1>5, <1>6, <1>7, <1>9, <1>10, <1>11 DEF IInv

\* Answering an open request (a decision or a cancellation) frees no later
\* gate: the others of its run were approved before it.
LEMMA AnswerRequests ==
  ASSUME IInv, NEW q \in Requests, requests[q].status = "pending",
         NEW a \in {"approved", "rejected", "cancelled"},
         requests' = [requests EXCEPT ![q].status = a, ![q].version = 2],
         UNCHANGED <<runs, checkpoint, acted>>
  PROVE  /\ requests' \in [Requests -> Request]
         /\ \A q2 \in Requests : q2 # q => requests'[q2] = requests[q2]
         /\ requests'[q].run = requests[q].run
         /\ requests'[q].gate = requests[q].gate
         /\ requests'[q].requested_by = requests[q].requested_by
         /\ requests'[q].status = a /\ requests'[q].version = 2
         /\ \A q2 \in Requests : RequestSound(q2)'
         /\ OneOpenRequest'
         /\ ActsOnApproval'
  <1>1. /\ requests' \in [Requests -> Request]
        /\ \A q2 \in Requests : q2 # q => requests'[q2] = requests[q2]
        /\ requests'[q].run = requests[q].run
        /\ requests'[q].gate = requests[q].gate
        /\ requests'[q].requested_by = requests[q].requested_by
        /\ requests'[q].status = a /\ requests'[q].version = 2
    BY DEF IInv, TypeOK, Request
  <1>2. \A q2 \in Requests : RequestSound(q2)'
    <2> SUFFICES ASSUME NEW q2 \in Requests PROVE RequestSound(q2)'
      OBVIOUS
    <2>0. RequestSound(q2) /\ RequestSound(q)
      BY DEF IInv
    <2>1. CASE q2 = q
      BY <1>1, <2>0, <2>1 DEF RequestSound
    <2>2. CASE q2 # q
      <3>1. requests[q2].status = "pending" => requests[q2].run # requests[q].run
        BY <2>2 DEF IInv, OneOpenRequest
      <3>2. requests[q2].status = "pending" => OthersApproved(q2)'
        BY <1>1, <2>0, <2>2, <3>1 DEF RequestSound, OthersApproved
      <3> QED BY <1>1, <2>0, <2>2, <3>2 DEF RequestSound
    <2> QED BY <2>1, <2>2
  <1>3. \A q2 \in Requests :
          /\ requests'[q2].run = requests[q2].run
          /\ requests'[q2].gate = requests[q2].gate
          /\ requests'[q2].status = "absent" <=> requests[q2].status = "absent"
          /\ requests'[q2].status = "pending" => requests[q2].status = "pending"
          /\ requests[q2].status = "approved" => requests'[q2].status = "approved"
    BY <1>1
  <1>4. OneOpenRequest'
    <2> SUFFICES ASSUME NEW q1 \in Requests, NEW q2 \in Requests, q1 # q2,
                        requests'[q1].status # "absent",
                        requests'[q1].run = requests'[q2].run
                 PROVE  /\ requests'[q1].gate # requests'[q2].gate
                        /\ ~(/\ requests'[q1].status = "pending"
                             /\ requests'[q2].status = "pending")
      BY Zenon DEF OneOpenRequest
    <2>1. /\ requests[q1].status # "absent"
          /\ requests[q1].run = requests[q2].run
      BY <1>3
    <2>2. /\ requests[q1].gate # requests[q2].gate
          /\ ~(requests[q1].status = "pending" /\ requests[q2].status = "pending")
      BY <2>1 DEF IInv, OneOpenRequest
    <2> QED BY <1>3, <2>2
  <1>5. ActsOnApproval'
    <2> SUFFICES ASSUME NEW r \in Runs, NEW g \in acted[r]
                 PROVE  \E q2 \in Requests :
                          /\ requests'[q2].run = r /\ requests'[q2].gate = g
                          /\ requests'[q2].status = "approved"
      BY DEF ActsOnApproval
    <2>1. PICK q2 \in Requests : /\ requests[q2].run = r /\ requests[q2].gate = g
                                 /\ requests[q2].status = "approved"
      BY DEF IInv, ActsOnApproval
    <2> QED BY <1>3, <2>1
  <1> QED BY <1>1, <1>2, <1>4, <1>5

\* What a handler that does not carry the answer relies on survives it.
LEMMA AnswerTasks ==
  ASSUME IInv, NEW q \in Requests, requests[q].status = "pending",
         NEW a \in {"approved", "rejected", "cancelled"},
         requests' = [requests EXCEPT ![q].status = a, ![q].version = 2],
         UNCHANGED <<runs, checkpoint, acted>>,
         NEW p \in Tasks, task'[p] = task[p]
  PROVE  TaskSound(p)'
  <1> USE ConstantsAssumption
  <1>1. /\ \A q2 \in Requests : q2 # q => requests'[q2] = requests[q2]
        /\ requests'[q].run = requests[q].run
        /\ requests'[q].gate = requests[q].gate
        /\ requests'[q].requested_by = requests[q].requested_by
        /\ requests'[q].status = a
    BY AnswerRequests
  <1>2. TaskSound(p) /\ task[p] \in Task
    BY DEF IInv, TypeOK
  <1>3. Holds(p) => task[p].run # requests[q].run
    BY DEF IInv, OneHolder
  <1>4. Holds(p) /\ Carries(p) => Carries(p)'
    <2> SUFFICES ASSUME Holds(p), Carries(p) PROVE Carries(p)'
      OBVIOUS
    <2> DEFINE qp == task[p].request
    <2>1. /\ qp \in Requests /\ qp # q /\ requests'[qp] = requests[qp]
          /\ requests[qp].run = task[p].run
          /\ requests[qp].status = task[p].outcome
          /\ requests[qp].gate = checkpoint[task[p].run]
          /\ checkpoint[task[p].run] \notin acted[task[p].run]
      BY <1>1, <1>3 DEF Carries
    <2>2. OthersApproved(qp)'
      <3> SUFFICES ASSUME NEW q2 \in Requests, q2 # qp,
                          requests'[q2].status # "absent",
                          requests'[q2].run = requests'[qp].run
                   PROVE  /\ requests'[q2].status = "approved"
                          /\ requests'[q2].gate < requests'[qp].gate
        BY DEF OthersApproved
      <3>1. q2 # q /\ requests'[q2] = requests[q2]
        BY <1>1, <1>3, <2>1
      <3> QED BY <2>1, <3>1 DEF Carries, OthersApproved
    <2> QED BY <2>1, <2>2 DEF Carries
  <1>5. Holds(p) /\ AllApproved(task[p].run) => AllApproved(task[p].run)'
    BY <1>1, <1>2, <1>3 DEF AllApproved
  <1>6. \A q2 \in Requests : requests'[q2].run = requests[q2].run
                             /\ requests'[q2].gate = requests[q2].gate
    BY <1>1
  <1> QED
    <2>1. task[p].pc = "deciding" =>
            /\ requests'[task[p].request].status # "absent"
            /\ requests'[task[p].request].run = requests[task[p].request].run
            /\ requests'[task[p].request].gate = requests[task[p].request].gate
            /\ requests'[task[p].request].requested_by
                 = requests[task[p].request].requested_by
      BY <1>1, <1>2 DEF TaskSound
    <2>2. (task[p].pc = "deciding" => task'[p].pc = "deciding")
          /\ (Holds(p) <=> Holds(p)')
      BY DEF Holds
    <2> QED
      BY <1>2, <1>4, <1>5, <1>6, <2>1 DEF TaskSound, Holds

\* Withdrawing an open request.
LEMMA CancelIInv ==
  ASSUME IInv, NEW q \in Requests, Cancel(q)
  PROVE  IInv'
  <1>1. requests[q].version = 1
    BY DEF IInv, RequestSound, Cancel
  <1>2. /\ requests' = [requests EXCEPT ![q].status = "cancelled", ![q].version = 2]
        /\ requests[q].status = "pending"
        /\ UNCHANGED <<decisions, runs, checkpoint, acted, task>>
    BY <1>1 DEF Cancel
  <1>3. /\ requests' \in [Requests -> Request]
        /\ \A q2 \in Requests : q2 # q => requests'[q2] = requests[q2]
        /\ requests'[q].run = requests[q].run
        /\ requests'[q].gate = requests[q].gate
        /\ requests'[q].requested_by = requests[q].requested_by
        /\ requests'[q].status = "cancelled"
        /\ \A q2 \in Requests : RequestSound(q2)'
        /\ OneOpenRequest' /\ ActsOnApproval'
    BY <1>2, AnswerRequests
  <1>4. TypeOK'
    BY <1>2, <1>3 DEF IInv, TypeOK
  <1>5. \A p \in Tasks : TaskSound(p)'
    BY <1>2, AnswerTasks
  <1>6. OneHolder'
    BY <1>2, <1>3 DEF IInv, OneHolder, Holds
  <1>7. DecidedOnce'
    BY <1>2, <1>3 DEF IInv, DecidedOnce, Outcome
  <1>8. RequesterExcluded'
    BY <1>2, <1>3 DEF IInv, RequesterExcluded
  <1> QED
    BY <1>3, <1>4, <1>5, <1>6, <1>7, <1>8 DEF IInv

\* Committing a decision: the version that was read is still the current one,
\* so the request is still open and the handler takes over the run's turn.
LEMMA DecideSaveIInv ==
  ASSUME IInv, NEW p \in Tasks, DecideSave(p)
  PROVE  IInv'
  <1> USE ConstantsAssumption
  <1> DEFINE q == task[p].request
             a == task[p].outcome
             d == [decided_by |-> task[p].user, outcome |-> a]
  <1>0. /\ TaskSound(p) /\ task[p] \in Task /\ q \in Requests
        /\ task[p].run \in Runs /\ requests[q].run = task[p].run
        /\ a \in Outcome /\ task[p].user \in Users /\ task[p].seen = 1
        /\ requests[q].status # "absent" /\ requests[q].version = 1
    BY DEF IInv, TypeOK, TaskSound, DecideSave, VersionUnchanged
  <1>1. requests[q].status = "pending" /\ RequestSound(q)
    BY <1>0 DEF IInv, RequestSound
  <1>2. /\ requests' = [requests EXCEPT ![q].status = a, ![q].version = 2]
        /\ decisions' = [decisions EXCEPT ![q] = Append(@, d)]
        /\ task' = [task EXCEPT ![p].pc = "committed"]
        /\ UNCHANGED <<runs, checkpoint, acted>>
        /\ a \in {"approved", "rejected", "cancelled"}
    BY <1>0 DEF DecideSave, Outcome
  <1>3. /\ requests' \in [Requests -> Request]
        /\ \A q2 \in Requests : q2 # q => requests'[q2] = requests[q2]
        /\ requests'[q].run = requests[q].run
        /\ requests'[q].gate = requests[q].gate
        /\ requests'[q].requested_by = requests[q].requested_by
        /\ requests'[q].status = a
        /\ \A q2 \in Requests : RequestSound(q2)'
        /\ OneOpenRequest' /\ ActsOnApproval'
    BY <1>0, <1>1, <1>2, AnswerRequests
  <1>4. decisions[q] = <<>> /\ d \in Decision /\ decisions'[q] = <<d>>
    <2>1. decisions[q] = <<>>
      BY <1>0, <1>1 DEF IInv, DecidedOnce, Outcome
    <2>2. d \in Decision
      BY <1>0 DEF Decision
    <2>3. decisions'[q] = Append(<<>>, d)
      BY <1>0, <1>2, <2>1 DEF IInv, TypeOK
    <2> QED BY <2>1, <2>2, <2>3
  <1>5. TypeOK'
    <2>1. decisions' \in [Requests -> Seq(Decision)]
      BY <1>0, <1>2, <1>4 DEF IInv, TypeOK
    <2>2. task' \in [Tasks -> Task]
      BY <1>0, <1>2 DEF IInv, TypeOK, Task
    <2> QED BY <1>2, <1>3, <2>1, <2>2 DEF IInv, TypeOK
  <1>6. \A p2 \in Tasks : TaskSound(p2)'
    <2> SUFFICES ASSUME NEW p2 \in Tasks PROVE TaskSound(p2)'
      OBVIOUS
    <2>1. CASE p2 = p
      <3>1. /\ task'[p].pc = "committed" /\ task'[p].run = task[p].run
            /\ task'[p].request = q /\ task'[p].outcome = a
        BY <1>0, <1>2 DEF IInv, TypeOK, Task
      <3>2. OthersApproved(q)'
        <4> SUFFICES ASSUME NEW q2 \in Requests, q2 # q,
                            requests'[q2].status # "absent",
                            requests'[q2].run = requests'[q].run
                     PROVE  /\ requests'[q2].status = "approved"
                            /\ requests'[q2].gate < requests'[q].gate
          BY <3>1 DEF OthersApproved
        <4>1. requests'[q2] = requests[q2] /\ requests[q2].run = requests[q].run
          BY <1>3
        <4> QED BY <1>1, <1>3, <4>1 DEF RequestSound, OthersApproved
      <3>3. checkpoint[task[p].run] \notin acted[task[p].run]
        BY <1>0, <1>1 DEF IInv, ActsOnApproval, OneOpenRequest, RequestSound
      <3>4. Carries(p)'
        <4>1. requests[q].gate = checkpoint[task[p].run]
          BY <1>0, <1>1 DEF RequestSound
        <4> QED BY <1>0, <1>2, <1>3, <3>1, <3>2, <3>3, <4>1 DEF Carries
      <3>5. task[p].pc = "deciding"
        BY DEF DecideSave
      <3> QED BY <1>0, <1>2, <2>1, <3>1, <3>4, <3>5 DEF TaskSound
    <2>2. CASE p2 # p
      <3>1. task'[p2] = task[p2]
        BY <1>2, <2>2 DEF IInv, TypeOK
      <3> QED BY <1>0, <1>1, <1>2, <3>1, AnswerTasks
    <2> QED BY <2>1, <2>2
  <1>7. OneHolder'
    <2>1. \A p2 \in Tasks : p2 # p => task'[p2] = task[p2]
      BY <1>2 DEF IInv, TypeOK
    <2>2. \A p2 \in Tasks : Holds(p2) => task[p2].run # task[p].run
      BY <1>0, <1>1 DEF IInv, OneHolder
    <2>3. \A q2 \in Requests :
            requests'[q2].status = "pending" => /\ q2 # q
                                                /\ requests[q2].run # task[p].run
                                                /\ requests'[q2] = requests[q2]
      <3> SUFFICES ASSUME NEW q2 \in Requests, requests'[q2].status = "pending"
                   PROVE  /\ q2 # q /\ requests[q2].run # task[p].run
                          /\ requests'[q2] = requests[q2]
        OBVIOUS
      <3>1. q2 # q /\ requests'[q2] = requests[q2]
        BY <1>0, <1>3 DEF Outcome
      <3> QED BY <1>0, <1>1, <3>1 DEF IInv, OneOpenRequest
    <2>4. task'[p].run = task[p].run
      BY <1>0, <1>2 DEF IInv, TypeOK, Task
    <2> QED BY <2>1, <2>2, <2>3, <2>4 DEF IInv, OneHolder, Holds
  <1>8. DecidedOnce'
    <2>1. Len(decisions'[q]) = 1 /\ decisions'[q][1].outcome = a
      BY <1>4
    <2>2. \A q2 \in Requests : q2 # q => decisions'[q2] = decisions[q2]
      BY <1>2 DEF IInv, TypeOK
    <2> QED BY <1>0, <1>3, <2>1, <2>2 DEF IInv, DecidedOnce
  <1>9. RequesterExcluded'
    <2>1. \A q2 \in Requests : q2 # q => decisions'[q2] = decisions[q2]
      BY <1>2 DEF IInv, TypeOK
    <2>2. requests[q].gate \in Preparation => requests[q].requested_by # task[p].user
      BY <1>0 DEF TaskSound, DecideSave
    <2>3. \A i \in DOMAIN decisions'[q] : decisions'[q][i].decided_by = task[p].user
      BY <1>4
    <2> QED BY <1>3, <2>1, <2>2, <2>3 DEF IInv, RequesterExcluded
  <1> QED
    BY <1>3, <1>5, <1>6, <1>7, <1>8, <1>9 DEF IInv

\* The invariant is inductive.
LEMMA NextIInv == IInv /\ [Next]_vars => IInv'
  <1> SUFFICES ASSUME IInv, [Next]_vars PROVE IInv'
    OBVIOUS
  <1>1. ASSUME NEW p \in Tasks, NEW r \in Runs, NEW u \in Users, Start(p, r, u)
        PROVE  IInv'
    BY <1>1, StartIInv
  <1>2. ASSUME NEW p \in Tasks, Step(p) PROVE IInv'
    <2>1. CASE GraphAct(p)
      BY <2>1, GraphActIInv
    <2>2. CASE (\E g \in Gates : GraphPause(p, g)) \/ GraphEnd(p)
      BY <2>2, GraphMoveIInv
    <2>3. CASE \E q \in Requests : CreateApproval(p, q)
      BY <2>3, CreateApprovalIInv
    <2>4. CASE SetWaiting(p) \/ SetCompleted(p)
      BY <2>4, SetStatusIInv
    <2>5. CASE DecideSave(p)
      BY <2>5, DecideSaveIInv
    <2>6. CASE DecideConflict(p) \/ ResumeRefused(p)
      BY <2>6, StopIInv DEF DecideConflict, ResumeRefused
    <2>7. CASE Resume(p)
      BY <2>7, ResumeIInv
    <2> QED
      BY <1>2, <2>1, <2>2, <2>3, <2>4, <2>5, <2>6, <2>7 DEF Step
  <1>3. ASSUME NEW p \in Tasks, NEW u \in Users, NEW q \in Requests,
               NEW o \in Outcome, NEW c \in BOOLEAN, DecideRead(p, u, q, o, c)
        PROVE  IInv'
    BY <1>3, DecideReadIInv
  <1>4. ASSUME NEW q \in Requests, Cancel(q) PROVE IInv'
    BY <1>4, CancelIInv
  <1>5. ASSUME NEW p \in Tasks, Interrupted(p) PROVE IInv'
    BY <1>5, StopIInv DEF Interrupted
  <1>6. CASE UNCHANGED vars
    <2> USE <1>6 DEF vars
    <2>1. TypeOK' /\ OneHolder'
      BY DEF IInv, TypeOK, OneHolder, Holds
    <2>2. \A p \in Tasks : TaskSound(p)'
      BY DEF IInv, TaskSound, Carries, OthersApproved, AllApproved
    <2> QED BY <2>1, <2>2, TablesKept DEF IInv
  <1> QED
    BY <1>1, <1>2, <1>3, <1>4, <1>5, <1>6 DEF Next

\* Every reachable state of the approval service satisfies the inductive
\* invariant.
THEOREM Invariance == Spec => []IInv
  <1>1. Init => IInv
    BY InitIInv
  <1>2. IInv /\ [Next]_vars => IInv'
    BY NextIInv
  <1> QED
    BY <1>1, <1>2, PTL DEF Spec

\* Type correctness of the request, decision and run tables and of the
\* handlers' local state.
THEOREM TypeCorrect == Spec => []TypeOK
  <1>1. IInv => TypeOK
    BY DEF IInv
  <1> QED
    BY <1>1, Invariance, PTL

\* domain/approval.py, "a request is decided exactly once": no interleaving
\* of approvers, cancellations and crashes records two decisions, or one that
\* differs from the request's status.
THEOREM DecideOnce == Spec => []DecidedOnce
  <1>1. IInv => DecidedOnce
    BY DEF IInv
  <1> QED
    BY <1>1, Invariance, PTL

\* Separation of duties holds at every preparation gate of a run, for the
\* person who started the run.
THEOREM SeparationOfDuties == Spec => []RequesterNeverApproves
  <1>1. ASSUME IInv PROVE RequesterNeverApproves
    <2> SUFFICES ASSUME NEW q \in Requests, requests[q].gate \in Preparation,
                        NEW i \in DOMAIN decisions[q]
                 PROVE  decisions[q][i].decided_by
                          # runs[requests[q].run].requested_by
      BY DEF RequesterNeverApproves
    <2>1. decisions[q][i].decided_by # requests[q].requested_by
      BY <1>1 DEF IInv, RequesterExcluded
    <2>2. requests[q].status # "absent"
      BY <1>1, ConstantsAssumption DEF IInv, RequestSound, Gates
    <2> QED
      BY <1>1, <2>1, <2>2 DEF IInv, RequestSound
  <1> QED
    BY <1>1, Invariance, PTL

\* One handler at a time executes the graph of a run, although resume never
\* marks the run as taken.
THEOREM OneExecutor == Spec => []GraphExclusive
  <1>1. IInv => GraphExclusive
    BY DEF IInv, OneHolder, Holds, GraphExclusive
  <1> QED
    BY <1>1, Invariance, PTL

\* A run acts past a gate only on a persisted approval of that gate.
THEOREM GatedByApproval == Spec => []ActsOnApproval
  <1>1. IInv => ActsOnApproval
    BY DEF IInv
  <1> QED
    BY <1>1, Invariance, PTL

\* A run has at most one open question and asks each one once.
THEOREM OneQuestion == Spec => []OneOpenRequest
  <1>1. IInv => OneOpenRequest
    BY DEF IInv
  <1> QED
    BY <1>1, Invariance, PTL

-----------------------------------------------------------------------------
(* Refinement of GatedRun *)

\* The refinement mapping, point by point: the verdict on a gate is the status
\* of the one request raised for it.
VerdictTyped ==
  Verdict \in [Runs -> [Gates -> Gated!Answers \cup {"unasked", "pending"}]]

VerdictOfRequest ==
  \A q \in Requests : requests[q].status # "absent" =>
    Verdict[requests[q].run][requests[q].gate] = requests[q].status

VerdictOfGate ==
  \A r \in Runs, g \in Gates :
    \/ Verdict[r][g] = "unasked"
         /\ \A q \in Requests : ~(requests[q].run = r /\ requests[q].gate = g)
    \/ \E q \in Requests :
         /\ requests[q].run = r /\ requests[q].gate = g
         /\ requests[q].status # "absent"
         /\ Verdict[r][g] = requests[q].status

VerdictPoints == VerdictTyped /\ VerdictOfRequest /\ VerdictOfGate

LEMMA VerdictValue == IInv => VerdictPoints
  <1> SUFFICES ASSUME IInv PROVE VerdictPoints
    OBVIOUS
  <1>1. ASSUME NEW q \in Requests, requests[q].status # "absent"
        PROVE  Verdict[requests[q].run][requests[q].gate] = requests[q].status
    <2> DEFINE r == requests[q].run
               g == requests[q].gate
    <2>1. r \in Runs /\ g \in Gates
      BY <1>1 DEF IInv, RequestSound
    <2>2. RequestsFor(r, g) = {q}
      BY <1>1 DEF RequestsFor, IInv, OneOpenRequest
    <2>3. Verdict[r][g] = requests[CHOOSE x \in RequestsFor(r, g) : TRUE].status
      BY <2>1, <2>2 DEF Verdict
    <2>4. (CHOOSE x \in {q} : TRUE) = q
      OBVIOUS
    <2> QED BY <2>2, <2>3, <2>4
  <1>2. ASSUME NEW r \in Runs, NEW g \in Gates
        PROVE  \/ Verdict[r][g] = "unasked"
                    /\ \A q \in Requests : ~(requests[q].run = r /\ requests[q].gate = g)
               \/ \E q \in Requests :
                    /\ requests[q].run = r /\ requests[q].gate = g
                    /\ requests[q].status # "absent"
                    /\ Verdict[r][g] = requests[q].status
    <2>1. CASE RequestsFor(r, g) = {}
      BY <2>1 DEF RequestsFor, Verdict
    <2>2. CASE RequestsFor(r, g) # {}
      <3>1. PICK q \in Requests : requests[q].run = r /\ requests[q].gate = g
        BY <2>2 DEF RequestsFor
      <3>2. requests[q].status # "absent"
        BY <3>1, ConstantsAssumption DEF IInv, RequestSound
      <3> QED BY <1>1, <3>1, <3>2
    <2> QED BY <2>1, <2>2
  <1>3. Verdict \in [Runs -> [Gates -> Gated!Answers \cup {"unasked", "pending"}]]
    <2>1. \A r \in Runs, g \in Gates :
            Verdict[r][g] \in Gated!Answers \cup {"unasked", "pending"}
      BY <1>2 DEF IInv, TypeOK, Request, Gated!Answers
    <2>2. \A r \in Runs : Verdict[r] = [g \in Gates |-> Verdict[r][g]]
      BY DEF Verdict
    <2>3. Verdict = [r \in Runs |-> Verdict[r]]
      BY DEF Verdict
    <2> HIDE DEF Verdict
    <2> QED BY <2>1, <2>2, <2>3
  <1> QED BY <1>1, <1>2, <1>3
          DEF VerdictPoints, VerdictTyped, VerdictOfRequest, VerdictOfGate

\* Two verdict tables that differ at one gate.
LEMMA PointUpdate ==
  ASSUME NEW S, NEW V \in [Runs -> [Gates -> S]], NEW W \in [Runs -> [Gates -> S]],
         NEW r \in Runs, NEW g \in Gates, NEW a, W[r][g] = a,
         \A r2 \in Runs, h \in Gates :
           ~(r2 = r /\ h = g) => W[r2][h] = V[r2][h]
  PROVE  W = [V EXCEPT ![r][g] = a]
  OBVIOUS

\* Asking: a new request makes exactly its own gate pending.
LEMMA AskRefines ==
  ASSUME IInv, VerdictPoints, VerdictPoints',
         NEW p \in Tasks, NEW q \in Requests, CreateApproval(p, q)
  PROVE  Gated!Next
  <1> USE ConstantsAssumption
  <1> DEFINE r == task[p].run
             g == checkpoint[r]
  <1>0. /\ r \in Runs /\ g \in Gates /\ AllApproved(r)
        /\ \A q2 \in Requests : requests[q2].run = r => requests[q2].gate < g
    BY DEF IInv, TypeOK, TaskSound, CreateApproval
  <1>1. /\ requests'[q].run = r /\ requests'[q].gate = g
        /\ requests'[q].status = "pending"
        /\ \A q2 \in Requests : q2 # q => requests'[q2] = requests[q2]
        /\ acted' = acted /\ requests[q].run = None
    BY DEF IInv, TypeOK, RequestSound, CreateApproval
  <1>2. \A h \in Gates : Verdict[r][h] = "unasked"
                           \/ (h < g /\ Verdict[r][h] = "approved")
    <2> SUFFICES ASSUME NEW h \in Gates, Verdict[r][h] # "unasked"
                 PROVE  h < g /\ Verdict[r][h] = "approved"
      OBVIOUS
    <2>1. PICK q2 \in Requests : /\ requests[q2].run = r /\ requests[q2].gate = h
                                 /\ requests[q2].status # "absent"
                                 /\ Verdict[r][h] = requests[q2].status
      BY <1>0 DEF VerdictPoints, VerdictOfGate
    <2> QED BY <1>0, <2>1 DEF AllApproved
  <1>3. Verdict'[r][g] = "pending"
    BY <1>1 DEF VerdictPoints, VerdictOfRequest, VerdictOfGate
  <1>4. ASSUME NEW r2 \in Runs, NEW h \in Gates, ~(r2 = r /\ h = g)
        PROVE  Verdict'[r2][h] = Verdict[r2][h]
    <2>1. CASE \E q2 \in Requests : requests[q2].run = r2 /\ requests[q2].gate = h
      <3>1. PICK q2 \in Requests : requests[q2].run = r2 /\ requests[q2].gate = h
        BY <2>1
      <3>2. q2 # q /\ requests'[q2] = requests[q2] /\ requests[q2].status # "absent"
        BY <1>1, <3>1 DEF IInv, RequestSound
      <3> QED BY <3>1, <3>2 DEF VerdictPoints, VerdictOfRequest, VerdictOfGate
    <2>2. CASE ~\E q2 \in Requests : requests[q2].run = r2 /\ requests[q2].gate = h
      <3>1. Verdict[r2][h] = "unasked"
        BY <2>2 DEF VerdictPoints, VerdictOfRequest, VerdictOfGate
      <3>2. ~\E q2 \in Requests : requests'[q2].run = r2 /\ requests'[q2].gate = h
        BY <1>1, <1>4, <2>2
      <3>3. Verdict'[r2][h] = "unasked"
        BY <3>2 DEF VerdictPoints, VerdictOfRequest, VerdictOfGate
      <3> QED BY <3>1, <3>3
    <2> QED BY <2>1, <2>2
  <1>5. Verdict' = [Verdict EXCEPT ![r][g] = "pending"]
    <2>1. VerdictTyped /\ VerdictTyped'
      BY DEF VerdictPoints
    <2> DEFINE S == Gated!Answers \cup {"unasked", "pending"}
               V == Verdict
               W == Verdict'
    <2>2. V \in [Runs -> [Gates -> S]] /\ W \in [Runs -> [Gates -> S]]
      BY <2>1 DEF VerdictTyped
    <2>3. \A r2 \in Runs, h \in Gates : ~(r2 = r /\ h = g) => W[r2][h] = V[r2][h]
      BY <1>4
    <2> HIDE DEF S, V, W, r, g
    <2> QED BY <1>0, <1>3, <2>2, <2>3, PointUpdate DEF V, W
  <1> QED
    BY <1>0, <1>1, <1>2, <1>5 DEF Gated!Next, Gated!Ask, Gated!Gates, Gates

\* Answering: a decision or a cancellation changes exactly its own gate.
LEMMA AnswerRefines ==
  ASSUME IInv, VerdictPoints, VerdictPoints',
         NEW q \in Requests, requests[q].status = "pending",
         NEW a \in {"approved", "rejected", "cancelled"},
         requests'[q].run = requests[q].run, requests'[q].gate = requests[q].gate,
         requests'[q].status = a,
         \A q2 \in Requests : q2 # q => requests'[q2] = requests[q2],
         acted' = acted
  PROVE  Gated!Next
  <1> DEFINE r == requests[q].run
             g == requests[q].gate
  <1>0. r \in Runs /\ g \in Gates
    BY DEF IInv, RequestSound
  <1>1. /\ requests'[q].run = r /\ requests'[q].gate = g /\ requests'[q].status = a
        /\ \A q2 \in Requests : q2 # q => requests'[q2] = requests[q2]
    OBVIOUS
  <1>2. Verdict[r][g] = "pending"
    BY DEF VerdictPoints, VerdictOfRequest, VerdictOfGate
  <1>3. Verdict'[r][g] = a
    <2>1. requests'[q].status # "absent"
      BY <1>1
    <2>2. Verdict'[requests'[q].run][requests'[q].gate] = requests'[q].status
      BY <2>1 DEF VerdictPoints, VerdictOfRequest, VerdictOfGate
    <2> QED BY <1>1, <2>2
  <1>4. ASSUME NEW r2 \in Runs, NEW h \in Gates, ~(r2 = r /\ h = g)
        PROVE  Verdict'[r2][h] = Verdict[r2][h]
    <2>1. CASE \E q2 \in Requests : requests[q2].run = r2 /\ requests[q2].gate = h
      <3>1. PICK q2 \in Requests : requests[q2].run = r2 /\ requests[q2].gate = h
        BY <2>1
      <3>2. requests[q2].status # "absent"
        BY <3>1, ConstantsAssumption DEF IInv, RequestSound
      <3>3. q2 # q
        BY <1>4, <3>1
      <3>4. requests'[q2] = requests[q2]
        BY <1>1, <3>3
      <3>5. Verdict[r2][h] = requests[q2].status
        BY <3>1, <3>2 DEF VerdictPoints, VerdictOfRequest, VerdictOfGate
      <3>6. Verdict'[requests'[q2].run][requests'[q2].gate] = requests'[q2].status
        BY <3>2, <3>4 DEF VerdictPoints, VerdictOfRequest
      <3> QED BY <3>1, <3>4, <3>5, <3>6
    <2>2. CASE ~\E q2 \in Requests : requests[q2].run = r2 /\ requests[q2].gate = h
      <3>1. Verdict[r2][h] = "unasked"
        BY <2>2 DEF VerdictPoints, VerdictOfRequest, VerdictOfGate
      <3>2. \A q2 \in Requests : /\ requests'[q2].run = requests[q2].run
                                 /\ requests'[q2].gate = requests[q2].gate
        BY <1>1
      <3>3. ~\E q2 \in Requests : requests'[q2].run = r2 /\ requests'[q2].gate = h
        BY <2>2, <3>2
      <3>4. Verdict'[r2][h] = "unasked"
        BY <3>3 DEF VerdictPoints, VerdictOfRequest, VerdictOfGate
      <3> QED BY <3>1, <3>4
    <2> QED BY <2>1, <2>2
  <1>5. Verdict' = [Verdict EXCEPT ![r][g] = a]
    <2>1. VerdictTyped /\ VerdictTyped'
      BY DEF VerdictPoints
    <2> DEFINE S == Gated!Answers \cup {"unasked", "pending"}
               V == Verdict
               W == Verdict'
    <2>2. V \in [Runs -> [Gates -> S]] /\ W \in [Runs -> [Gates -> S]]
      BY <2>1 DEF VerdictTyped
    <2>3. \A r2 \in Runs, h \in Gates : ~(r2 = r /\ h = g) => W[r2][h] = V[r2][h]
      BY <1>4
    <2> HIDE DEF S, V, W, r, g
    <2> QED BY <1>0, <1>3, <2>2, <2>3, PointUpdate DEF V, W
  <1> QED
    BY <1>0, <1>2, <1>5 DEF Gated!Next, Gated!Answer, Gated!Gates, Gates, Gated!Answers

\* Acting: the gate was approved, not acted upon before, and no later gate has
\* been asked.
LEMMA ActRefines ==
  ASSUME IInv, VerdictPoints, NEW p \in Tasks, GraphAct(p)
  PROVE  Gated!Next
  <1> USE ConstantsAssumption
  <1> DEFINE r == task[p].run
             q == task[p].request
             g == checkpoint[r]
  <1>0. /\ r \in Runs /\ q \in Requests /\ requests[q].run = r /\ requests[q].gate = g
        /\ requests[q].status = "approved" /\ g \notin acted[r] /\ g \in Gates
        /\ OthersApproved(q)
    BY DEF IInv, TypeOK, TaskSound, Carries, RequestSound, GraphAct, Outcome
  <1>1. Verdict[r][g] = "approved"
    BY <1>0 DEF VerdictPoints, VerdictOfRequest, VerdictOfGate
  <1>2. ASSUME NEW h \in Gates, h > g PROVE Verdict[r][h] = "unasked"
    <2> SUFFICES ASSUME NEW q2 \in Requests, requests[q2].run = r,
                        requests[q2].gate = h, requests[q2].status # "absent"
                 PROVE  FALSE
      BY <1>0 DEF VerdictPoints, VerdictOfRequest, VerdictOfGate
    <2>1. q2 # q /\ h < g
      BY <1>0, <1>2 DEF OthersApproved, Gates
    <2> QED BY <1>0, <1>2, <2>1 DEF Gates
  <1>3. acted' = [acted EXCEPT ![r] = @ \cup {g}]
    BY DEF GraphAct
  <1>4. UNCHANGED Verdict
    BY DEF GraphAct, Verdict, RequestsFor
  <1> QED
    BY <1>0, <1>1, <1>2, <1>3, <1>4 DEF Gated!Next, Gated!Act, Gated!Gates, Gates

\* Every step of the handlers is a step of the gate discipline or changes
\* nothing it can see.
LEMMA StepRefines ==
  ASSUME IInv, VerdictPoints, VerdictPoints', [Next]_vars
  PROVE  [Gated!Next]_Gated!vars
  <1> DEFINE Quiet == UNCHANGED <<requests, acted>>
  <1>1. ASSUME Quiet PROVE [Gated!Next]_Gated!vars
    BY <1>1 DEF Gated!vars, Verdict, RequestsFor
  <1>2. ASSUME NEW p \in Tasks, Step(p) PROVE [Gated!Next]_Gated!vars
    <2>1. CASE GraphAct(p)
      BY <2>1, ActRefines
    <2>2. CASE \E q \in Requests : CreateApproval(p, q)
      BY <2>2, AskRefines
    <2>3. CASE DecideSave(p)
      <3>1. /\ task[p].request \in Requests
            /\ requests[task[p].request].status = "pending"
            /\ task[p].outcome \in {"approved", "rejected", "cancelled"}
            /\ task[p].seen = 1
        BY <2>3 DEF IInv, TaskSound, RequestSound, DecideSave, VersionUnchanged, Outcome
      <3>2. /\ requests' = [requests EXCEPT
                              ![task[p].request].status = task[p].outcome,
                              ![task[p].request].version = 2]
            /\ UNCHANGED <<runs, checkpoint, acted>>
        BY <2>3, <3>1 DEF DecideSave
      <3> QED BY <3>1, <3>2, AnswerRequests, AnswerRefines
    <2>4. CASE \/ \E g \in Gates : GraphPause(p, g)
               \/ GraphEnd(p) \/ SetWaiting(p) \/ SetCompleted(p)
               \/ DecideConflict(p) \/ Resume(p) \/ ResumeRefused(p)
      BY <1>1, <2>4 DEF GraphPause, GraphEnd, SetWaiting, SetCompleted,
                        DecideConflict, Resume, ResumeRefused
    <2> QED BY <1>2, <2>1, <2>2, <2>3, <2>4 DEF Step
  <1>3. ASSUME NEW q \in Requests, Cancel(q) PROVE [Gated!Next]_Gated!vars
    <2>1. requests[q].version = 1 /\ requests[q].status = "pending"
      BY <1>3 DEF IInv, RequestSound, Cancel
    <2>2. /\ requests' = [requests EXCEPT ![q].status = "cancelled", ![q].version = 2]
          /\ UNCHANGED <<runs, checkpoint, acted>>
      BY <1>3, <2>1 DEF Cancel
    <2> QED BY <2>1, <2>2, AnswerRequests, AnswerRefines
  <1>4. CASE \/ \E p \in Tasks, r \in Runs, u \in Users : Start(p, r, u)
             \/ \E p \in Tasks, u \in Users, q \in Requests, o \in Outcome,
                   c \in BOOLEAN : DecideRead(p, u, q, o, c)
             \/ \E p \in Tasks : Interrupted(p)
             \/ UNCHANGED vars
    BY <1>1, <1>4 DEF Start, DecideRead, Interrupted, vars
  <1> QED
    BY <1>2, <1>3, <1>4 DEF Next

\* The handlers of dw_agent_runtime implement the gate discipline of GatedRun.
THEOREM Refinement == Spec => ImplementsGatedRun
  <1>1. Init => Gated!Init
    BY ConstantsAssumption
    DEF Init, Gated!Init, Verdict, RequestsFor, NoRequest, Gates, Gated!Gates
  <1>2. IInv => VerdictPoints
    BY VerdictValue
  <1>3. IInv /\ VerdictPoints /\ VerdictPoints' /\ [Next]_vars
          => [Gated!Next]_Gated!vars
    BY StepRefines
  <1> QED
    BY <1>1, <1>2, <1>3, Invariance, PTL DEF Spec, ImplementsGatedRun, Gated!Spec
=============================================================================
