------------------------------ MODULE WorkOps ------------------------------
(***************************************************************************)
(* Meeting to action (dw_work_ops): a run reads a transcript, proposes     *)
(* action items (policy_gate), waits for a human, and dispatches what was  *)
(* approved through the tool executor.  Nothing keeps a second run of the  *)
(* same meeting away, so the runs share the meeting row and its action     *)
(* items.  Each node has one transaction; dispatch_tasks keeps its own     *)
(* open over all its external calls, which do not roll back with it.       *)
(* ApprovalRun models the approval itself; a decision resumes a run once.  *)
(***************************************************************************)
EXTENDS Naturals, FiniteSets

CONSTANTS WorkRuns,     \* runs of one meeting
          NumActions,   \* action items the model extracts from the transcript
          MaxRaises     \* bound: failing nodes and calls

ASSUME WorkOpsAssumption == {NumActions, MaxRaises} \subseteq Nat

VARIABLES
    mtg,      \* the status of the meeting
    item,     \* action_items by run and position
    wrun,     \* the node each run is at, the decision and the open transaction
    created,  \* items whose task exists in the connected system
    recorded, \* external_tasks
    raises

workVars == <<mtg, item, wrun, created, recorded, raises>>

Positions == 1..NumActions
ItemIds == WorkRuns \X Positions
NoRun == [pc |-> "idle", assigned |-> {}, chosen |-> {}, next |-> 1, staged |-> {}, to |-> {}]
NodeNames == {"idle", "read", "extract", "review", "dispatch", "call", "close", "done", "failed"}
MeetingStatus == {"created", "processing", "actions_ready", "completed"}
ItemStatus == {"absent", "proposed", "dispatched", "rejected"}

WorkInit ==
    /\ mtg = "created"
    /\ item = [a \in ItemIds |-> "absent"]
    /\ wrun = [r \in WorkRuns |-> NoRun]
    /\ created = {}
    /\ recorded = {}
    /\ raises = 0

\* GenerateActionsHandler: start_processing looks at the transcript only.
generate_actions(r) ==
    /\ wrun[r].pc = "idle"
    /\ mtg' = "processing"
    /\ wrun' = [wrun EXCEPT ![r].pc = "read"]
    /\ UNCHANGED <<item, created, recorded, raises>>

\* The transcript is fetched, cut into segments and its speakers are named.
ingest_transcript(r) ==
    /\ wrun[r].pc = "read"
    /\ wrun' = [wrun EXCEPT ![r].pc = "extract"]
    /\ UNCHANGED <<mtg, item, created, recorded, raises>>

\* An exception in a node, or a lost version check, ends the run: what its
\* open transaction staged is gone, what it sent stays sent.
Raise(r) ==
    /\ raises < MaxRaises
    /\ raises' = raises + 1
    /\ wrun' = [wrun EXCEPT ![r] = [@ EXCEPT !.pc = "failed", !.staged = {}]]
    /\ UNCHANGED <<mtg, item, recorded>>

NodeRaises(r) ==
    /\ wrun[r].pc \in {"read", "extract", "dispatch", "close"}
    /\ Raise(r)
    /\ UNCHANGED created

\* Nobody waits for another run's rows.
LockedNever(r) == FALSE

\* Rows another run's open transaction has written are locked.
Locked(r) == \E q \in WorkRuns \ {r} : wrun[q].staged # {}

\* external_tasks refers to action_items, so rows with a task stay.
Replaceable(a) == a \notin recorded

\* What the model may extract: some items, or none.
extract_action_items == SUBSET Positions

\* The items whose assignee is one person of the directory.
resolve_assignees(found) == SUBSET found

\* policy_gate replaces the items of the meeting by those extracted; a row
\* that may not go fails the run.
policy_gate(r) ==
    /\ wrun[r].pc = "extract"
    /\ ~Locked(r)
    /\ IF \A a \in ItemIds : item[a] # "absent" => Replaceable(a)
         THEN \E found \in extract_action_items : \E assigned \in resolve_assignees(found) :
                 /\ item' = [a \in ItemIds |-> IF a[1] = r /\ a[2] \in found
                                                THEN "proposed" ELSE "absent"]
                 /\ mtg' = "actions_ready"
                 /\ wrun' = [wrun EXCEPT ![r].pc = "review", ![r].assigned = assigned]
         ELSE /\ wrun' = [wrun EXCEPT ![r].pc = "failed"]
              /\ UNCHANGED <<item, mtg>>
    /\ UNCHANGED <<created, recorded, raises>>

\* What the approver selects: nothing when rejecting, the ids of the payload
\* otherwise, all of them when the payload names none.
Selected(approved, ids) == IF approved THEN ids ELSE {}

human_review(r) ==
    /\ wrun[r].pc = "review"
    /\ \E approved \in BOOLEAN, ids \in SUBSET Positions :
          wrun' = [wrun EXCEPT ![r].pc = "dispatch", ![r].to = IF approved THEN ids ELSE {},
                               ![r].chosen = Selected(approved, ids)]
    /\ UNCHANGED <<mtg, item, created, recorded, raises>>

Here(r) == <<r, wrun[r].next>>

Stage(r, status, pc) ==
    wrun' = [wrun EXCEPT ![r].pc = pc, ![r].next = @ + 1,
                         ![r].staged = @ \union {<<Here(r), status>>}]

\* dispatch_tasks, one item at a time.  A row that was replaced is skipped,
\* and so is an item nobody could be found for.
dispatch_tasks(r) ==
    /\ wrun[r].pc = "dispatch"
    /\ wrun[r].next <= NumActions
    /\ LET p == wrun[r].next
       IN  \/ /\ item[Here(r)] = "absent" \/ p \in wrun[r].chosen \ wrun[r].assigned
              /\ wrun' = [wrun EXCEPT ![r].next = @ + 1]
           \/ /\ item[Here(r)] = "proposed"
              /\ p \notin wrun[r].chosen
              /\ Stage(r, "rejected", "dispatch")
           \/ /\ item[Here(r)] = "proposed"
              /\ p \in wrun[r].chosen \cap wrun[r].assigned
              /\ wrun' = [wrun EXCEPT ![r].pc = "call",
                                      ![r].staged = @ \union {<<Here(r), "approved">>}]
    /\ UNCHANGED <<mtg, item, created, recorded, raises>>

\* task.create_external through the executor, and mark_dispatched after it.
\* The call may fail before or after the task exists.
create_external(r) ==
    /\ wrun[r].pc = "call"
    /\ \/ /\ created' = created \union {Here(r)}
          /\ Stage(r, "dispatched", "dispatch")
          /\ UNCHANGED <<mtg, item, recorded, raises>>
       \/ /\ created' \in {created, created \union {Here(r)}}
          /\ Raise(r)

Staged(r, a, status) == item[a] # "absent" /\ <<a, status>> \in wrun[r].staged

\* The transaction of dispatch_tasks commits, external_tasks included.
CommitDispatch(r) ==
    /\ wrun[r].pc = "dispatch"
    /\ wrun[r].next > NumActions
    /\ item' = [a \in ItemIds |->
                    IF Staged(r, a, "dispatched") THEN "dispatched"
                    ELSE IF Staged(r, a, "rejected") THEN "rejected" ELSE item[a]]
    /\ recorded' = recorded \union {a \in ItemIds : Staged(r, a, "dispatched")}
    /\ wrun' = [wrun EXCEPT ![r].pc = "close", ![r].staged = {}]
    /\ UNCHANGED <<mtg, created, raises>>

\* close_and_write_memory, track_and_follow_up before it.
close_meeting(r) ==
    /\ wrun[r].pc = "close"
    /\ mtg' = "completed"
    /\ wrun' = [wrun EXCEPT ![r].pc = "done"]
    /\ UNCHANGED <<item, created, recorded, raises>>

WorkNode(r) ==
    \/ ingest_transcript(r) \/ policy_gate(r) \/ dispatch_tasks(r) \/ create_external(r)
    \/ CommitDispatch(r) \/ close_meeting(r) \/ NodeRaises(r)

WorkNext == \E r \in WorkRuns : generate_actions(r) \/ human_review(r) \/ WorkNode(r)

\* A started or resumed graph runs on; nobody has to start or to decide.
WorkFair == \A r \in WorkRuns : WF_workVars(WorkNode(r))

WorkSpec == WorkInit /\ [][WorkNext]_workVars /\ WorkFair

-----------------------------------------------------------------------------
\* The variables have their types.
WorkTypeOK ==
    /\ mtg \in MeetingStatus
    /\ item \in [ItemIds -> ItemStatus]
    /\ \A r \in WorkRuns : wrun[r].pc \in NodeNames /\ wrun[r].next \in 1..(NumActions + 1)
    /\ recorded \union created \subseteq ItemIds
    /\ raises \in 0..MaxRaises

\* Only what a human approved in its own run reaches the task system, however
\* many runs share the meeting and wherever one fails (dispatch_tasks).
TasksWereApproved ==
    \A a \in created : a[2] \in wrun[a[1]].to

\* An item is marked dispatched, and its task recorded, only when the task
\* exists.
DispatchedExists ==
    \A a \in ItemIds : item[a] = "dispatched" \/ a \in recorded => a \in created

\* A task that exists is recorded with its item, except after a failure of its
\* run or while its transaction is open: another run of the meeting cannot
\* take the item away (the locks of dispatch_tasks against policy_gate).
TasksAreRecorded ==
    \A a \in created : wrun[a[1]].pc \in {"close", "done"} =>
        item[a] = "dispatched" /\ a \in recorded

\* A run that was started comes to its review or fails, and a decided run
\* ends: waiting for another run's locks does not last.
WorkEnds ==
    \A r \in WorkRuns :
        wrun[r].pc \in {"read", "dispatch"} ~> wrun[r].pc \in {"review", "done", "failed"}

\* What two runs of a meeting and their failures leave in the task system, in
\* action_items and in external_tasks fits together and was approved.
DispatchIsSound == WorkTypeOK /\ TasksWereApproved /\ DispatchedExists /\ TasksAreRecorded
=============================================================================
