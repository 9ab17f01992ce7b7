----------------------------- MODULE ApprovalRun -----------------------------
(***************************************************************************)
(* Human approvals and the durable worker runs they pause.                 *)
(*                                                                         *)
(* A worker run executes a LangGraph graph.  When the graph interrupts at  *)
(* a review gate the runner raises an approval request and parks the run   *)
(* as waiting_approval; ApproveAndResumeService.decide persists a human    *)
(* decision and then, in separate transactions, resumes the run.  Every    *)
(* durable write of dw_agent_runtime is one action here, because each runs *)
(* in a transaction of its own and other request handlers interleave       *)
(* between two of them.                                                    *)
(*                                                                         *)
(* What a graph does between two gates is left open (any graph that only   *)
(* moves forward through its gates and ends when a reviewer rejects, which *)
(* is what the three registered graphs do).                                *)
(***************************************************************************)
EXTENDS Naturals, Sequences

CONSTANTS
  Runs,          \* worker run ids
  Requests,      \* approval request ids
  Tasks,         \* asynchronous request handlers (API calls being served)
  Users,         \* principals
  Deciders,      \* principals holding the scope approvals.decide
  NumGates,      \* number of interrupt() gates in the graph
  Preparation,   \* gates whose approval_type starts with "preparation."
  RoleMayDecide, \* per gate, principals holding its required_role
  Interruptible, \* whether a handler may be cut short (crash, failed call)
  None           \* the absent value

Gates == 1..NumGates
End == NumGates + 1

Outcome == {"approved", "rejected"}

ASSUME ConstantsAssumption ==
  /\ NumGates \in Nat \ {0}
  /\ Deciders \subseteq Users
  /\ Preparation \subseteq Gates
  /\ RoleMayDecide \in [Gates -> SUBSET Users]
  /\ Interruptible \in BOOLEAN
  /\ None \notin Runs \cup Requests \cup Users \cup Outcome

VARIABLES
  requests,   \* platform.approval_requests
  decisions,  \* platform.approval_decisions, per request, append only
  runs,       \* platform.worker_runs
  checkpoint, \* LangGraph's thread: the gate it is paused at, 0, or End
  acted,      \* gates whose approval the graph has acted upon
  task        \* the local state of each handler

vars == <<requests, decisions, runs, checkpoint, acted, task>>

Request ==
  [status : {"absent", "pending", "approved", "rejected", "cancelled"},
   run : Runs \cup {None}, gate : Gates \cup {0},
   requested_by : Users \cup {None}, version : Nat]
Decision == [decided_by : Users, outcome : Outcome]
Run ==
  [status : {"absent", "running", "waiting_approval", "completed"},
   requested_by : Users \cup {None}, request : Requests \cup {None}]
Task ==
  [pc : {"idle", "deciding", "committed", "graph", "outcome", "waiting"},
   run : Runs \cup {None}, request : Requests \cup {None}, seen : Nat,
   user : Users \cup {None}, outcome : Outcome \cup {None}]

NoRequest ==
  [status |-> "absent", run |-> None, gate |-> 0, requested_by |-> None,
   version |-> 0]
NoRun == [status |-> "absent", requested_by |-> None, request |-> None]
Idle ==
  [pc |-> "idle", run |-> None, request |-> None, seen |-> 0, user |-> None,
   outcome |-> None]

TypeOK ==
  /\ requests \in [Requests -> Request]
  /\ decisions \in [Requests -> Seq(Decision)]
  /\ runs \in [Runs -> Run]
  /\ checkpoint \in [Runs -> 0..End]
  /\ acted \in [Runs -> SUBSET Gates]
  /\ task \in [Tasks -> Task]

Init ==
  /\ requests = [q \in Requests |-> NoRequest]
  /\ decisions = [q \in Requests |-> <<>>]
  /\ runs = [r \in Runs |-> NoRun]
  /\ checkpoint = [r \in Runs |-> 0]
  /\ acted = [r \in Runs |-> {}]
  /\ task = [p \in Tasks |-> Idle]

-----------------------------------------------------------------------------
(* LangGraphWorkflowRunner.start *)

\* run_store.create: the run row is inserted as running, then the graph is
\* invoked on behalf of the requester.
Start(p, r, u) ==
  /\ task[p].pc = "idle"
  /\ runs[r].status = "absent"
  /\ runs' = [runs EXCEPT ![r].status = "running", ![r].requested_by = u]
  /\ task' = [task EXCEPT ![p] = [Idle EXCEPT !.pc = "graph", !.run = r,
                                              !.user = u]]
  /\ UNCHANGED <<requests, decisions, checkpoint, acted>>

(* graph.ainvoke: the LangGraph thread of the run *)

\* The nodes after a gate act on the approval the graph was resumed with.
GraphAct(p) ==
  LET r == task[p].run IN
  /\ task[p].pc = "graph"
  /\ task[p].outcome = "approved"
  /\ acted' = [acted EXCEPT ![r] = @ \cup {checkpoint[r]}]
  /\ task' = [task EXCEPT ![p].outcome = None]
  /\ UNCHANGED <<requests, decisions, runs, checkpoint>>

\* The graph reaches a later gate and interrupts there.
GraphPause(p, g) ==
  LET r == task[p].run IN
  /\ task[p].pc = "graph"
  /\ task[p].outcome = None
  /\ checkpoint[r] < g
  /\ checkpoint' = [checkpoint EXCEPT ![r] = g]
  /\ task' = [task EXCEPT ![p].pc = "outcome"]
  /\ UNCHANGED <<requests, decisions, runs, acted>>

\* The graph ends: after its last gate, after a rejection, or because its
\* own routing closed the run before a gate.
GraphEnd(p) ==
  LET r == task[p].run IN
  /\ task[p].pc = "graph"
  /\ task[p].outcome # "approved"
  /\ checkpoint' = [checkpoint EXCEPT ![r] = End]
  /\ task' = [task EXCEPT ![p].pc = "outcome"]
  /\ UNCHANGED <<requests, decisions, runs, acted>>

(* LangGraphWorkflowRunner._handle_outcome *)

\* _create_approval: its own transaction.  The requester is the actor the
\* graph ran for, which Resume takes from the run row.
CreateApproval(p, q) ==
  LET r == task[p].run IN
  /\ task[p].pc = "outcome"
  /\ checkpoint[r] # End
  /\ requests[q].status = "absent"
  /\ requests' = [requests EXCEPT ![q] =
       [status |-> "pending", run |-> r, gate |-> checkpoint[r],
        requested_by |-> task[p].user, version |-> 1]]
  /\ task' = [task EXCEPT ![p] = [Idle EXCEPT !.pc = "waiting", !.run = r,
                                              !.request = q]]
  /\ UNCHANGED <<decisions, runs, checkpoint, acted>>

\* run_store.set_status(WAITING_APPROVAL, approval_request_id): an
\* unconditional update, some time after the request became visible.
SetWaiting(p) ==
  LET r == task[p].run IN
  /\ task[p].pc = "waiting"
  /\ runs' = [runs EXCEPT ![r].status = "waiting_approval",
                          ![r].request = task[p].request]
  /\ task' = [task EXCEPT ![p] = Idle]
  /\ UNCHANGED <<requests, decisions, checkpoint, acted>>

\* run_store.set_status(COMPLETED).
SetCompleted(p) ==
  LET r == task[p].run IN
  /\ task[p].pc = "outcome"
  /\ checkpoint[r] = End
  /\ runs' = [runs EXCEPT ![r].status = "completed"]
  /\ task' = [task EXCEPT ![p] = Idle]
  /\ UNCHANGED <<requests, decisions, checkpoint, acted>>

-----------------------------------------------------------------------------
(* ApproveAndResumeService.decide *)

\* Scope, separation of duties, required role, and the review comment a
\* preparation checkpoint needs.
MayDecide(u, q, commented) ==
  /\ u \in Deciders
  /\ requests[q].gate \in Preparation => requests[q].requested_by # u
  /\ u \in RoleMayDecide[requests[q].gate]
  /\ requests[q].gate \in Preparation => commented

\* The read half of the deciding transaction: get, the checks, and
\* ApprovalRequest.decide's own _require_pending.
DecideRead(p, u, q, outcome, commented) ==
  /\ task[p].pc = "idle"
  /\ requests[q].status = "pending"
  /\ MayDecide(u, q, commented)
  /\ task' = [task EXCEPT ![p] =
       [pc |-> "deciding", run |-> requests[q].run, request |-> q,
        seen |-> requests[q].version, user |-> u, outcome |-> outcome]]
  /\ UNCHANGED <<requests, decisions, runs, checkpoint, acted>>

\* Mutant of VersionUnchanged: an update by id alone.
VersionIgnored(p) == task[p].request \in Requests

\* SqlApprovalRepository.save updates the row only WHERE version is still the
\* one that was read.
VersionUnchanged(p) == requests[task[p].request].version = task[p].seen

\* save, add_decision and commit.
DecideSave(p) ==
  LET q == task[p].request IN
  /\ task[p].pc = "deciding"
  /\ VersionUnchanged(p)
  /\ requests' = [requests EXCEPT ![q].status = task[p].outcome,
                                  ![q].version = task[p].seen + 1]
  /\ decisions' = [decisions EXCEPT ![q] =
       Append(@, [decided_by |-> task[p].user, outcome |-> task[p].outcome])]
  /\ task' = [task EXCEPT ![p].pc = "committed"]
  /\ UNCHANGED <<runs, checkpoint, acted>>

\* The update matched no row: ConflictError, nothing is written.
DecideConflict(p) ==
  /\ task[p].pc = "deciding"
  /\ ~VersionUnchanged(p)
  /\ task' = [task EXCEPT ![p] = Idle]
  /\ UNCHANGED <<requests, decisions, runs, checkpoint, acted>>

(* LangGraphWorkflowRunner.resume *)

\* Mutant of ResumeActor: the graph continues for the approver.
ResumeAsApprover(p) == task[p].user

\* The principal a resumed graph runs for: the requester on the run row, not
\* the approver.
ResumeActor(p) == runs[task[p].run].requested_by

\* The run row is read and must be waiting_approval; it is left as it is
\* while the graph runs.
Resume(p) ==
  /\ task[p].pc = "committed"
  /\ runs[task[p].run].status = "waiting_approval"
  /\ task' = [task EXCEPT ![p].pc = "graph", ![p].user = ResumeActor(p)]
  /\ UNCHANGED <<requests, decisions, runs, checkpoint, acted>>

\* "run is not waiting for approval": the decision stays, nothing resumes.
ResumeRefused(p) ==
  /\ task[p].pc = "committed"
  /\ runs[task[p].run].status # "waiting_approval"
  /\ task' = [task EXCEPT ![p] = Idle]
  /\ UNCHANGED <<requests, decisions, runs, checkpoint, acted>>

-----------------------------------------------------------------------------
\* Mutant of Cancel: the version is not increased.
CancelKeepsVersion(q) ==
  /\ requests[q].status = "pending"
  /\ requests' = [requests EXCEPT ![q].status = "cancelled"]
  /\ UNCHANGED <<decisions, runs, checkpoint, acted, task>>

\* ApprovalRequest.cancel and its save, used when a case is amended while a
\* checkpoint is open: list_pending and the versioned save are one transaction.
Cancel(q) ==
  /\ requests[q].status = "pending"
  /\ requests' = [requests EXCEPT ![q].status = "cancelled",
                                  ![q].version = @ + 1]
  /\ UNCHANGED <<decisions, runs, checkpoint, acted, task>>

\* The process dies, or a call of the handler (audit write, database, graph
\* node) raises: what was committed stays and nobody picks the handler up.
Interrupted(p) ==
  /\ Interruptible
  /\ task[p].pc # "idle"
  /\ task' = [task EXCEPT ![p] = Idle]
  /\ UNCHANGED <<requests, decisions, runs, checkpoint, acted>>

Step(p) ==
  \/ GraphAct(p)
  \/ \E g \in Gates : GraphPause(p, g)
  \/ GraphEnd(p)
  \/ \E q \in Requests : CreateApproval(p, q)
  \/ SetWaiting(p)
  \/ SetCompleted(p)
  \/ DecideSave(p)
  \/ DecideConflict(p)
  \/ Resume(p)
  \/ ResumeRefused(p)

Next ==
  \/ \E p \in Tasks : Step(p)
  \/ \E p \in Tasks, r \in Runs, u \in Users : Start(p, r, u)
  \/ \E p \in Tasks, u \in Users, q \in Requests, o \in Outcome,
        commented \in BOOLEAN : DecideRead(p, u, q, o, commented)
  \/ \E q \in Requests : Cancel(q)
  \/ \E p \in Tasks : Interrupted(p)

Spec == Init /\ [][Next]_vars

\* A handler that is being served keeps running; nobody has to start a run,
\* decide or amend.
FairSpec == Spec /\ \A p \in Tasks : WF_vars(Step(p))

-----------------------------------------------------------------------------
(* Properties *)

\* The aggregate invariant of dw_platform.domain.approval: a request is
\* decided exactly once and its status is the outcome on record, however
\* many approvers decide it at the same time.
DecidedOnce ==
  \A q \in Requests :
    /\ requests[q].status \in Outcome =>
         /\ Len(decisions[q]) = 1
         /\ decisions[q][1].outcome = requests[q].status
    /\ requests[q].status \notin Outcome => decisions[q] = <<>>

\* Separation of duties over the whole life of a run: nobody decides a
\* preparation checkpoint of a run they started, at any gate.  It rests on
\* decide resuming the graph for the run's requester and not the approver.
RequesterNeverApproves ==
  \A q \in Requests : requests[q].gate \in Preparation =>
    \A i \in DOMAIN decisions[q] :
      decisions[q][i].decided_by # runs[requests[q].run].requested_by

\* No two handlers execute the graph of one run: resume checks a status that
\* it does not change, so it is the decide-once rule that excludes them.
GraphExclusive ==
  \A p1, p2 \in Tasks :
    /\ p1 # p2
    /\ task[p1].pc \in {"graph", "outcome"}
    /\ task[p2].pc \in {"graph", "outcome"}
    => task[p1].run # task[p2].run

\* A run acts past a gate only on a persisted approval of that very gate.
ActsOnApproval ==
  \A r \in Runs : \A g \in acted[r] :
    \E q \in Requests :
      requests[q].run = r /\ requests[q].gate = g
        /\ requests[q].status = "approved"

\* A run asks one question at a time and never asks the same one twice.
OneOpenRequest ==
  \A q1, q2 \in Requests :
    /\ q1 # q2
    /\ requests[q1].status # "absent"
    /\ requests[q1].run = requests[q2].run
    => /\ requests[q1].gate # requests[q2].gate
       /\ ~(requests[q1].status = "pending" /\ requests[q2].status = "pending")

\* approval_flow.py, module docstring: "the human decision is persisted first
\* (...), then the durable run resumes with the decision payload."  Stated for
\* handlers that are never cut short: an approved gate is acted upon.
DecisionResumes ==
  \A q \in Requests :
    requests[q].status = "approved"
      ~> \E r \in Runs : requests[q].run = r /\ requests[q].gate \in acted[r]

-----------------------------------------------------------------------------
(* The inductive invariant behind these properties *)

\* The handler holds the run's turn: it has a decision to resume with, or it
\* is executing the graph.
Holds(p) == task[p].pc \in {"committed", "graph", "outcome"}

\* Every other request of the same run was approved at an earlier gate.
OthersApproved(q) ==
  \A q2 \in Requests :
    /\ q2 # q
    /\ requests[q2].status # "absent"
    /\ requests[q2].run = requests[q].run
    => requests[q2].status = "approved" /\ requests[q2].gate < requests[q].gate

AllApproved(r) ==
  \A q \in Requests :
    requests[q].status # "absent" /\ requests[q].run = r
      => requests[q].status = "approved"

\* A raised request belongs to a started run and its requester, at a gate the
\* graph has reached; its version says whether it is still open.
RequestSound(q) ==
  /\ requests[q].status = "absent" =>
       /\ requests[q].run = None
       /\ requests[q].version = 0
       /\ requests[q].gate = 0
  /\ requests[q].status # "absent" =>
       /\ requests[q].run \in Runs
       /\ requests[q].gate \in Gates
       /\ requests[q].gate <= checkpoint[requests[q].run]
       /\ runs[requests[q].run].status # "absent"
       /\ requests[q].requested_by = runs[requests[q].run].requested_by
       /\ requests[q].version = IF requests[q].status = "pending" THEN 1 ELSE 2
  /\ requests[q].status = "pending" =>
       /\ requests[q].gate = checkpoint[requests[q].run]
       /\ OthersApproved(q)

\* The answer a handler carries is the one on record for the gate the graph
\* is paused at, and the graph has not acted on it yet.
Carries(p) ==
  LET q == task[p].request IN
  /\ q \in Requests
  /\ requests[q].run = task[p].run
  /\ requests[q].status = task[p].outcome
  /\ requests[q].gate = checkpoint[task[p].run]
  /\ OthersApproved(q)
  /\ checkpoint[task[p].run] \notin acted[task[p].run]

TaskSound(p) ==
  /\ task[p].pc # "idle" =>
       task[p].run \in Runs /\ runs[task[p].run].status # "absent"
  /\ task[p].pc = "deciding" =>
       /\ task[p].request \in Requests
       /\ requests[task[p].request].status # "absent"
       /\ requests[task[p].request].run = task[p].run
       /\ task[p].seen = 1
       /\ task[p].user \in Users
       /\ task[p].outcome \in Outcome
       /\ requests[task[p].request].gate \in Preparation =>
            requests[task[p].request].requested_by # task[p].user
  /\ task[p].pc = "committed" =>
       task[p].outcome \in Outcome /\ Carries(p)
  /\ task[p].pc \in {"graph", "outcome"} =>
       task[p].user = runs[task[p].run].requested_by
  /\ task[p].pc = "graph" =>
       IF task[p].outcome = None THEN AllApproved(task[p].run) ELSE Carries(p)
  /\ task[p].pc = "outcome" =>
       /\ checkpoint[task[p].run] \in Gates \cup {End}
       /\ checkpoint[task[p].run] # End =>
            /\ AllApproved(task[p].run)
            /\ \A q \in Requests :
                 requests[q].run = task[p].run
                   => requests[q].gate < checkpoint[task[p].run]
  /\ task[p].pc = "waiting" => task[p].request \in Requests

\* A run's turn is held once: by one handler or by one open request.
OneHolder ==
  /\ \A p1, p2 \in Tasks :
       p1 # p2 /\ Holds(p1) /\ Holds(p2) => task[p1].run # task[p2].run
  /\ \A p \in Tasks, q \in Requests :
       Holds(p) /\ requests[q].status = "pending"
         => task[p].run # requests[q].run

RequesterExcluded ==
  \A q \in Requests : requests[q].gate \in Preparation =>
    \A i \in DOMAIN decisions[q] :
      decisions[q][i].decided_by # requests[q].requested_by

IInv ==
  /\ TypeOK
  /\ \A q \in Requests : RequestSound(q)
  /\ \A p \in Tasks : TaskSound(p)
  /\ OneHolder
  /\ OneOpenRequest
  /\ DecidedOnce
  /\ RequesterExcluded
  /\ ActsOnApproval

-----------------------------------------------------------------------------
(* What the approvals promise to a run, stated without handlers, versions or *)
(* run rows: module GatedRun.                                                *)

RequestsFor(r, g) ==
  {q \in Requests : requests[q].run = r /\ requests[q].gate = g}

Verdict ==
  [r \in Runs |-> [g \in Gates |->
     IF RequestsFor(r, g) = {} THEN "unasked"
     ELSE requests[CHOOSE q \in RequestsFor(r, g) : TRUE].status]]

Gated == INSTANCE GatedRun WITH verdict <- Verdict

\* The handlers of dw_agent_runtime, with their separate transactions and
\* their crashes, implement the gate discipline of GatedRun: a gate is asked
\* once, decided at most once, acted upon only if approved, and nothing is
\* asked after a gate was rejected or withdrawn.
ImplementsGatedRun == Gated!Spec
=============================================================================
