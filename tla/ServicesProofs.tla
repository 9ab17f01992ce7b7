--------------------------- MODULE ServicesProofs ---------------------------
(***************************************************************************)
(* Proofs about the services around the procurement case: the meeting      *)
(* actions, the Telegram intake and the law watch.  Each has an inductive  *)
(* invariant that says what an unfinished step of it relies on.            *)
(***************************************************************************)
EXTENDS WorkOps, TelegramIntake, LawWatch, TLAPS, FiniteSetTheorems, SequenceTheorems

-----------------------------------------------------------------------------
(* Meeting actions *)

RunRow == [pc : NodeNames, assigned : SUBSET Positions, chosen : SUBSET Positions,
           next : 1..(NumActions + 1),
           staged : SUBSET (ItemIds \X {"approved", "dispatched", "rejected"}),
           to : SUBSET Positions]

WorkTypes == WorkTypeOK /\ wrun \in [WorkRuns -> RunRow]

\* An open transaction of a run has written rows of that run that exist, so
\* they are locked, and says "dispatched" only of a task that exists.
TransactionSound(r) ==
  /\ wrun[r].pc \notin {"dispatch", "call"} => wrun[r].staged = {}
  /\ wrun[r].chosen \subseteq wrun[r].to
  /\ wrun[r].pc = "call" =>
       wrun[r].next \in wrun[r].chosen /\ <<Here(r), "approved">> \in wrun[r].staged
  /\ \A s \in wrun[r].staged :
       s[1][1] = r /\ item[s[1]] # "absent" /\ (s[2] = "dispatched" => s[1] \in created)

\* A task that exists was approved, and its run has staged or recorded it or
\* has failed.
TaskSound(a) ==
  /\ a[2] \in wrun[a[1]].to
  /\ wrun[a[1]].pc \in {"dispatch", "call", "close", "done", "failed"}
  /\ wrun[a[1]].pc \in {"dispatch", "call"} => <<a, "dispatched">> \in wrun[a[1]].staged
  /\ wrun[a[1]].pc \in {"close", "done"} => item[a] = "dispatched" /\ a \in recorded

WorkInv ==
  /\ WorkTypes
  /\ DispatchedExists
  /\ \A r \in WorkRuns : TransactionSound(r)
  /\ \A a \in created : TaskSound(a)

LEMMA WorkStart == WorkInit => WorkInv
<1> SUFFICES ASSUME WorkInit PROVE WorkInv
  OBVIOUS
<1> USE WorkOpsAssumption DEF WorkInit
<1>1. NoRun \in RunRow
  BY DEF NoRun, RunRow, NodeNames
<1>2. WorkTypes
  BY <1>1 DEF WorkTypes, WorkTypeOK, MeetingStatus, ItemStatus, RunRow
<1>3. \A r \in WorkRuns : TransactionSound(r)
  BY DEF TransactionSound, NoRun
<1>4. QED
  BY <1>2, <1>3 DEF WorkInv, DispatchedExists

\* What a step of run r does to the runs: r is then at node pc, with the given
\* position and staged rows, and the others are as they were.
RunNow(r, pc, next, staged) ==
  /\ wrun' \in [WorkRuns -> RunRow]
  /\ wrun'[r].pc = pc /\ wrun'[r].next = next /\ wrun'[r].staged = staged
  /\ \A q \in WorkRuns \ {r} : wrun'[q] = wrun[q]

SameChoice(r) ==
  wrun'[r].chosen = wrun[r].chosen /\ wrun'[r].to = wrun[r].to
  /\ wrun'[r].assigned = wrun[r].assigned

LEMMA NodeMoves ==
  ASSUME wrun \in [WorkRuns -> RunRow],
         NEW r \in WorkRuns,
         NEW pc \in NodeNames,
         wrun' = [wrun EXCEPT ![r].pc = pc]
  PROVE  RunNow(r, pc, wrun[r].next, wrun[r].staged) /\ SameChoice(r)
  BY DEF RunNow, SameChoice, RunRow

LEMMA PositionMoves ==
  ASSUME wrun \in [WorkRuns -> RunRow],
         NEW r \in WorkRuns,
         NEW next \in 1..(NumActions + 1),
         wrun' = [wrun EXCEPT ![r].next = next]
  PROVE  RunNow(r, wrun[r].pc, next, wrun[r].staged) /\ SameChoice(r)
  BY DEF RunNow, SameChoice, RunRow

LEMMA RowsMove ==
  ASSUME wrun \in [WorkRuns -> RunRow],
         NEW r \in WorkRuns,
         NEW pc \in NodeNames,
         NEW staged \in SUBSET (ItemIds \X {"approved", "dispatched", "rejected"}),
         wrun' = [wrun EXCEPT ![r].pc = pc, ![r].staged = staged]
  PROVE  RunNow(r, pc, wrun[r].next, staged) /\ SameChoice(r)
  BY DEF RunNow, SameChoice, RunRow

LEMMA RunFails ==
  ASSUME wrun \in [WorkRuns -> RunRow],
         NEW r \in WorkRuns,
         wrun' = [wrun EXCEPT ![r] = [@ EXCEPT !.pc = "failed", !.staged = {}]]
  PROVE  RunNow(r, "failed", wrun[r].next, {}) /\ SameChoice(r)
  BY DEF RunNow, SameChoice, RunRow, NodeNames

LEMMA RowAndPositionMove ==
  ASSUME wrun \in [WorkRuns -> RunRow], NEW r \in WorkRuns, NEW pc \in NodeNames,
         NEW status \in {"approved", "dispatched", "rejected"},
         wrun[r].next + 1 \in 1..(NumActions + 1), Here(r) \in ItemIds, Stage(r, status, pc)
  PROVE  RunNow(r, pc, wrun[r].next + 1, wrun[r].staged \union {<<Here(r), status>>})
         /\ SameChoice(r)
<1> DEFINE w == wrun[r]
           h == Here(r)
           f == [[[w EXCEPT !.pc = pc] EXCEPT !.next = w.next + 1]
                    EXCEPT !.staged = w.staged \union {<<h, status>>}]
<1>1. wrun' = [wrun EXCEPT ![r] = f]
  BY DEF Stage
<1>2. w \in RunRow /\ w.next + 1 \in 1..(NumActions + 1)
  OBVIOUS
<1>3. w.staged \union {<<h, status>>} \in SUBSET (ItemIds \X {"approved", "dispatched", "rejected"})
  BY <1>2 DEF RunRow
<1> HIDE DEF h, w
<1>4. /\ f \in RunRow /\ f.pc = pc /\ f.next = w.next + 1
      /\ f.staged = w.staged \union {<<h, status>>}
      /\ f.chosen = w.chosen /\ f.to = w.to /\ f.assigned = w.assigned
  BY <1>2, <1>3 DEF RunRow
<1> HIDE DEF f
<1>5. QED
  BY <1>1, <1>4 DEF RunNow, SameChoice, w, h

LEMMA ChoiceMade ==
  ASSUME wrun \in [WorkRuns -> RunRow],
         NEW r \in WorkRuns,
         NEW pc \in NodeNames,
         NEW yes \in SUBSET Positions,
         wrun' = [wrun EXCEPT ![r].pc = pc, ![r].to = yes, ![r].chosen = yes]
  PROVE  /\ RunNow(r, pc, wrun[r].next, wrun[r].staged)
         /\ wrun'[r].chosen = yes /\ wrun'[r].to = yes
  BY DEF RunNow, SameChoice, RunRow

\* A row is added to the open transaction of run r.
LEMMA RowStaged ==
  ASSUME NEW r \in WorkRuns, TransactionSound(r), NEW h, NEW status,
         wrun'[r].staged = wrun[r].staged \union {<<h, status>>}, UNCHANGED item,
         created \subseteq created', h[1] = r, item[h] # "absent",
         status = "dispatched" => h \in created'
  PROVE  \A s \in wrun'[r].staged :
           s[1][1] = r /\ item'[s[1]] # "absent" /\ (s[2] = "dispatched" => s[1] \in created')
<1> SUFFICES ASSUME NEW s \in wrun'[r].staged
             PROVE  s[1][1] = r /\ item'[s[1]] # "absent" /\ (s[2] = "dispatched" => s[1] \in created')
  OBVIOUS
<1>1. CASE s \in wrun[r].staged
  BY <1>1 DEF TransactionSound
<1>2. CASE s = <<h, status>>
  <2>1. s[1] = h /\ s[2] = status
    BY <1>2
  <2>2. QED
    BY <2>1
<1>3. QED
  BY <1>1, <1>2

\* The rows and tasks of the other runs, when a step of run r leaves them alone.
LEMMA OthersSound ==
  ASSUME WorkInv, NEW r \in WorkRuns,
         \A q \in WorkRuns \ {r} : wrun'[q] = wrun[q],
         \A a \in ItemIds : a[1] # r => item'[a] = item[a],
         created \subseteq created', recorded \subseteq recorded'
  PROVE  /\ \A q \in WorkRuns \ {r} : TransactionSound(q)'
         /\ \A a \in created : a[1] # r => TaskSound(a)'
<1>0. wrun \in [WorkRuns -> RunRow] /\ created \subseteq ItemIds
  BY DEF WorkInv, WorkTypes, WorkTypeOK
<1>1. ASSUME NEW q \in WorkRuns \ {r} PROVE TransactionSound(q)'
  <2>1. wrun'[q] = wrun[q] /\ TransactionSound(q)
    BY DEF WorkInv
  <2>2. \A s \in wrun[q].staged : s[1] \in ItemIds
    BY <1>0 DEF RunRow
  <2>3. QED
    BY <2>1, <2>2 DEF TransactionSound, Here
<1>2. ASSUME NEW a \in created, a[1] # r PROVE TaskSound(a)'
  <2>1. TaskSound(a) /\ a \in ItemIds /\ a[1] \in WorkRuns
    BY <1>0 DEF WorkInv, ItemIds
  <2>2. wrun'[a[1]] = wrun[a[1]] /\ item'[a] = item[a]
    BY <1>2, <2>1
  <2>3. QED
    BY <2>1, <2>2 DEF TaskSound
<1>3. QED
  BY <1>1, <1>2

LEMMA WorkKept == ASSUME WorkInv, [WorkNext]_workVars PROVE WorkInv'
<1> USE WorkOpsAssumption
<1>0. /\ WorkTypeOK /\ wrun \in [WorkRuns -> RunRow] /\ DispatchedExists
      /\ created \subseteq ItemIds /\ recorded \subseteq ItemIds
      /\ \A r \in WorkRuns : TransactionSound(r) /\ wrun[r] \in RunRow
      /\ \A a \in created : TaskSound(a)
  BY DEF WorkInv, WorkTypes, WorkTypeOK
<1>p. /\ \A r \in WorkRuns : wrun[r].next \in 1..(NumActions + 1)
      /\ \A r \in WorkRuns :
           wrun[r].staged \in SUBSET (ItemIds \X {"approved", "dispatched", "rejected"})
      /\ \A r \in WorkRuns : wrun[r].next =< NumActions =>
           wrun[r].next + 1 \in 1..(NumActions + 1) /\ Here(r) \in ItemIds
      /\ \A r \in WorkRuns : Here(r)[1] = r /\ Here(r)[2] = wrun[r].next
  BY <1>0 DEF RunRow, Here, ItemIds, Positions
\* A step that changes neither rows nor tasks.
<1>a. ASSUME NEW r \in WorkRuns, UNCHANGED <<item, created, recorded>>,
             NEW pc, NEW next, NEW staged, RunNow(r, pc, next, staged), SameChoice(r),
             mtg' \in MeetingStatus, raises' \in 0..MaxRaises, pc # "call",
             \/ wrun[r].pc \notin {"dispatch", "call", "close", "done", "failed"}
                /\ pc \in NodeNames /\ staged = {}
             \/ wrun[r].pc = "dispatch" /\ pc = "dispatch" /\ staged = wrun[r].staged
             \/ pc = "failed" /\ staged = {}
             \/ wrun[r].pc = "close" /\ pc = "done" /\ staged = {}
      PROVE  WorkInv'
  <2>1. WorkTypes'
    BY <1>0, <1>a DEF WorkTypes, WorkTypeOK, RunNow, RunRow
  <2>2. DispatchedExists'
    BY <1>0, <1>a DEF DispatchedExists
  <2>3. TransactionSound(r)'
    BY <1>0, <1>a DEF TransactionSound, RunNow, SameChoice
  <2>4. \A a \in created : a[1] = r => TaskSound(a)'
    BY <1>0, <1>a DEF TaskSound, RunNow, SameChoice
  <2>5. QED
    BY <1>0, <1>a, <2>1, <2>2, <2>3, <2>4, OthersSound DEF WorkInv, RunNow
<1>1. ASSUME NEW r \in WorkRuns, generate_actions(r) PROVE WorkInv'
  <2>1. RunNow(r, "read", wrun[r].next, wrun[r].staged) /\ SameChoice(r)
    BY <1>0, <1>1, <1>p, NodeMoves DEF generate_actions, NodeNames
  <2>2. wrun[r].pc = "idle" /\ wrun[r].staged = {} /\ mtg' = "processing" /\ raises' = raises
        /\ UNCHANGED <<item, created, recorded>>
    BY <1>0, <1>1 DEF generate_actions, TransactionSound
  <2>3. QED
    BY <1>0, <1>a, <2>1, <2>2 DEF WorkTypeOK, MeetingStatus, NodeNames
<1>2. ASSUME NEW r \in WorkRuns, ingest_transcript(r) PROVE WorkInv'
  <2>1. RunNow(r, "extract", wrun[r].next, wrun[r].staged) /\ SameChoice(r)
    BY <1>0, <1>2, <1>p, NodeMoves DEF ingest_transcript, NodeNames
  <2>2. wrun[r].pc = "read" /\ wrun[r].staged = {} /\ mtg' = mtg /\ raises' = raises
        /\ UNCHANGED <<item, created, recorded>>
    BY <1>0, <1>2 DEF ingest_transcript, TransactionSound
  <2>3. QED
    BY <1>0, <1>a, <2>1, <2>2 DEF WorkTypeOK, NodeNames
<1>3. ASSUME NEW r \in WorkRuns, policy_gate(r) PROVE WorkInv'
  <2>1. wrun[r].pc = "extract" /\ ~Locked(r) /\ UNCHANGED <<created, recorded, raises>>
    BY <1>3 DEF policy_gate
  <2>2. \A q \in WorkRuns : wrun[q].staged = {}
    BY <1>0, <2>1 DEF Locked, TransactionSound
  <2>3. CASE \A a \in ItemIds : item[a] # "absent" => Replaceable(a)
    <3>1. PICK found \in SUBSET Positions, assigned \in SUBSET Positions :
            /\ item' = [a \in ItemIds |-> IF a[1] = r /\ a[2] \in found THEN "proposed" ELSE "absent"]
            /\ wrun' = [wrun EXCEPT ![r].pc = "review", ![r].assigned = assigned]
      BY <1>3, <2>3 DEF policy_gate, extract_action_items, resolve_assignees
    <3>2. mtg' = "actions_ready"
      BY <1>3, <2>3 DEF policy_gate
    <3>3. RunNow(r, "review", wrun[r].next, wrun[r].staged)
          /\ wrun'[r].chosen = wrun[r].chosen /\ wrun'[r].to = wrun[r].to
      BY <1>0, <3>1 DEF RunNow, RunRow, NodeNames
    <3>4. item' \in [ItemIds -> {"proposed", "absent"}]
      BY <3>1
    <3>5. WorkTypes'
      BY <1>0, <2>1, <3>2, <3>3, <3>4
        DEF WorkTypes, WorkTypeOK, RunNow, RunRow, MeetingStatus, ItemStatus
    <3>6. DispatchedExists'
      BY <1>0, <2>1, <3>4 DEF DispatchedExists
    <3>7. \A q \in WorkRuns : TransactionSound(q)'
      BY <1>0, <2>1, <2>2, <3>3 DEF TransactionSound, RunNow, Here
    <3>8. ASSUME NEW a \in created PROVE TaskSound(a)'
      <4>1. a[1] \in WorkRuns /\ a[1] # r /\ TaskSound(a) /\ a \in ItemIds
        BY <1>0, <2>1 DEF TaskSound, ItemIds
      <4>2. wrun[a[1]].pc \notin {"dispatch", "call"}
        BY <2>2, <4>1 DEF TaskSound
      <4>3. wrun[a[1]].pc \notin {"close", "done"}
        BY <2>3, <4>1 DEF TaskSound, Replaceable
      <4>4. wrun'[a[1]] = wrun[a[1]]
        BY <3>3, <4>1 DEF RunNow
      <4>5. QED
        BY <4>1, <4>2, <4>3, <4>4 DEF TaskSound
    <3>9. QED
      BY <2>1, <3>5, <3>6, <3>7, <3>8 DEF WorkInv
  <2>4. CASE ~ \A a \in ItemIds : item[a] # "absent" => Replaceable(a)
    <3>1. wrun' = [wrun EXCEPT ![r].pc = "failed"] /\ UNCHANGED <<item, mtg>>
      BY <1>3, <2>4 DEF policy_gate
    <3>2. RunNow(r, "failed", wrun[r].next, wrun[r].staged) /\ SameChoice(r)
      BY <1>0, <1>p, <3>1, NodeMoves DEF NodeNames
    <3>3. QED
      BY <1>0, <1>a, <2>1, <2>2, <3>1, <3>2 DEF WorkTypeOK
  <2>5. QED
    BY <2>3, <2>4
<1>4. ASSUME NEW r \in WorkRuns, human_review(r) PROVE WorkInv'
  <2>1. PICK approved \in BOOLEAN, ids \in SUBSET Positions :
          wrun' = [wrun EXCEPT ![r].pc = "dispatch", ![r].to = IF approved THEN ids ELSE {},
                               ![r].chosen = Selected(approved, ids)]
    BY <1>4 DEF human_review
  <2>2. wrun[r].pc = "review" /\ UNCHANGED <<mtg, item, created, recorded, raises>>
    BY <1>4 DEF human_review
  <2>3. PICK yes \in SUBSET Positions :
          wrun' = [wrun EXCEPT ![r].pc = "dispatch", ![r].to = yes, ![r].chosen = yes]
    BY <2>1 DEF Selected
  <2>4. RunNow(r, "dispatch", wrun[r].next, wrun[r].staged)
        /\ wrun'[r].chosen = yes /\ wrun'[r].to = yes
    BY <1>0, <1>p, <2>3, ChoiceMade DEF NodeNames
  <2>5. WorkTypes'
    BY <1>0, <2>2, <2>4 DEF WorkTypes, WorkTypeOK, RunNow, RunRow
  <2>6. DispatchedExists'
    BY <1>0, <2>2 DEF DispatchedExists
  <2>7. TransactionSound(r)'
    BY <1>0, <2>2, <2>4 DEF TransactionSound, RunNow
  <2>8. \A a \in created : a[1] # r
    BY <1>0, <2>2 DEF TaskSound
  <2>9. QED
    BY <1>0, <2>2, <2>4, <2>5, <2>6, <2>7, <2>8, OthersSound DEF WorkInv, RunNow
<1>5. ASSUME NEW r \in WorkRuns, dispatch_tasks(r) PROVE WorkInv'
  <2> DEFINE w == wrun[r]
  <2>1. w.pc = "dispatch" /\ w.next =< NumActions
        /\ UNCHANGED <<mtg, item, created, recorded, raises>>
    BY <1>5 DEF dispatch_tasks
  <2>2. CASE wrun' = [wrun EXCEPT ![r].next = @ + 1]
    <3>1. RunNow(r, w.pc, w.next + 1, w.staged) /\ SameChoice(r)
      BY <1>0, <1>p, <2>1, <2>2, PositionMoves DEF NodeNames
    <3>2. QED
      BY <1>0, <1>a, <2>1, <3>1 DEF WorkTypeOK
  <2>3. CASE item[Here(r)] = "proposed" /\ Stage(r, "rejected", "dispatch")
    <3>1. w.staged \union {<<Here(r), "rejected">>}
            \in SUBSET (ItemIds \X {"approved", "dispatched", "rejected"})
      BY <1>p, <2>1
    <3>2. RunNow(r, "dispatch", w.next + 1, w.staged \union {<<Here(r), "rejected">>})
          /\ SameChoice(r)
      <4>1. "dispatch" \in NodeNames
        BY DEF NodeNames
      <4>2. QED
        BY <1>0, <1>p, <2>1, <2>3, <4>1, RowAndPositionMove
    <3>3. WorkTypes'
      BY <1>0, <2>1, <3>2 DEF WorkTypes, WorkTypeOK, RunNow, RunRow
    <3>4. DispatchedExists'
      BY <1>0, <2>1 DEF DispatchedExists
    <3>5. TransactionSound(r)'
      <4>1. \A s \in wrun'[r].staged :
              s[1][1] = r /\ item'[s[1]] # "absent" /\ (s[2] = "dispatched" => s[1] \in created')
        <5>1. wrun'[r].staged = w.staged \union {<<Here(r), "rejected">>}
              /\ Here(r)[1] = r /\ TransactionSound(r)
          BY <1>0, <1>p, <3>2 DEF RunNow
        <5>2. QED
          BY <2>1, <2>3, <5>1, RowStaged
      <4>2. QED
        BY <1>0, <3>2, <4>1 DEF TransactionSound, RunNow, SameChoice
    <3>6. \A a \in created : a[1] = r => TaskSound(a)'
      BY <1>0, <2>1, <3>2 DEF TaskSound, RunNow, SameChoice
    <3>7. QED
      BY <1>0, <2>1, <3>2, <3>3, <3>4, <3>5, <3>6, OthersSound DEF WorkInv, RunNow
  <2>4. CASE /\ item[Here(r)] = "proposed" /\ w.next \in w.chosen \cap w.assigned
             /\ wrun' = [wrun EXCEPT ![r].pc = "call",
                                     ![r].staged = @ \union {<<Here(r), "approved">>}]
    <3>1. w.staged \union {<<Here(r), "approved">>}
            \in SUBSET (ItemIds \X {"approved", "dispatched", "rejected"})
      BY <1>p, <2>1
    <3>2. RunNow(r, "call", w.next, w.staged \union {<<Here(r), "approved">>})
          /\ SameChoice(r)
      <4>1. "call" \in NodeNames
            /\ wrun' = [wrun EXCEPT ![r].pc = "call", ![r].staged = w.staged \union {<<Here(r), "approved">>}]
        BY <2>4 DEF NodeNames
      <4>2. QED
        BY <1>0, <3>1, <4>1, RowsMove
    <3>3. WorkTypes'
      BY <1>0, <2>1, <3>2 DEF WorkTypes, WorkTypeOK, RunNow, RunRow
    <3>4. DispatchedExists'
      BY <1>0, <2>1 DEF DispatchedExists
    <3>5. Here(r)' = Here(r)
      BY <3>2 DEF RunNow, Here
    <3>6. TransactionSound(r)'
      <4>1. \A s \in wrun'[r].staged :
              s[1][1] = r /\ item'[s[1]] # "absent" /\ (s[2] = "dispatched" => s[1] \in created')
        <5>1. wrun'[r].staged = w.staged \union {<<Here(r), "approved">>}
              /\ Here(r)[1] = r /\ TransactionSound(r)
          BY <1>0, <1>p, <3>2 DEF RunNow
        <5>2. item[Here(r)] # "absent" /\ created \subseteq created' /\ UNCHANGED item
          BY <2>1, <2>4
        <5>3. QED
          BY <5>1, <5>2, RowStaged
      <4>2. QED
        BY <1>0, <2>4, <3>2, <3>5, <4>1 DEF TransactionSound, RunNow, SameChoice
    <3>7. \A a \in created : a[1] = r => TaskSound(a)'
      BY <1>0, <2>1, <3>2 DEF TaskSound, RunNow, SameChoice
    <3>8. QED
      BY <1>0, <2>1, <3>2, <3>3, <3>4, <3>6, <3>7, OthersSound DEF WorkInv, RunNow
  <2>5. QED
    BY <1>5, <2>2, <2>3, <2>4 DEF dispatch_tasks
<1>6. ASSUME NEW r \in WorkRuns, create_external(r) PROVE WorkInv'
  <2> DEFINE w == wrun[r]
             h == Here(r)
  <2>1. /\ w.pc = "call" /\ w.next =< NumActions /\ h \in ItemIds /\ h[1] = r /\ h[2] \in w.to
        /\ created' \in {created, created \union {h}} /\ UNCHANGED <<mtg, item, recorded>>
        /\ item[h] # "absent" /\ <<h, "approved">> \in w.staged
    <3>1. w.pc = "call" /\ UNCHANGED <<mtg, item, recorded>>
          /\ created' \in {created, created \union {h}}
      BY <1>6 DEF create_external, Raise
    <3>2. w.next \in Positions /\ w.next \in w.to /\ <<h, "approved">> \in w.staged
      BY <1>0, <3>1 DEF TransactionSound, RunRow
    <3>3. item[h] # "absent"
      BY <1>0, <3>2 DEF TransactionSound
    <3>4. QED
      BY <1>p, <3>1, <3>2, <3>3 DEF Positions
  <2>2. CASE Stage(r, "dispatched", "dispatch") /\ created' = created \union {h} /\ UNCHANGED raises
    <3>1. w.staged \union {<<h, "dispatched">>}
            \in SUBSET (ItemIds \X {"approved", "dispatched", "rejected"})
      BY <1>p, <2>1
    <3>2. RunNow(r, "dispatch", w.next + 1, w.staged \union {<<h, "dispatched">>})
          /\ SameChoice(r)
      <4>1. "dispatch" \in NodeNames
        BY DEF NodeNames
      <4>2. QED
        BY <1>0, <1>p, <2>1, <2>2, <4>1, RowAndPositionMove
    <3> HIDE DEF h
    <3>3. WorkTypes'
      BY <1>0, <2>1, <2>2, <3>2 DEF WorkTypes, WorkTypeOK, RunNow, RunRow
    <3>4. DispatchedExists'
      BY <1>0, <2>1 DEF DispatchedExists
    <3>5. TransactionSound(r)'
      <4>1. \A s \in wrun'[r].staged :
              s[1][1] = r /\ item'[s[1]] # "absent" /\ (s[2] = "dispatched" => s[1] \in created')
        BY <1>0, <2>1, <2>2, <3>2, RowStaged DEF RunNow
      <4>2. QED
        BY <1>0, <3>2, <4>1 DEF TransactionSound, RunNow, SameChoice
    <3>6. \A a \in created' : a[1] = r => TaskSound(a)'
      BY <1>0, <2>1, <2>2, <3>2 DEF TaskSound, RunNow, SameChoice
    <3>7. QED
      BY <1>0, <2>1, <2>2, <3>2, <3>3, <3>4, <3>5, <3>6, OthersSound DEF WorkInv, RunNow
  <2>3. CASE Raise(r)
    <3>1. RunNow(r, "failed", w.next, {}) /\ SameChoice(r) /\ raises' \in 0..MaxRaises
      <4>1. {} \in SUBSET (ItemIds \X {"approved", "dispatched", "rejected"})
        OBVIOUS
      <4>2. wrun' = [wrun EXCEPT ![r] = [@ EXCEPT !.pc = "failed", !.staged = {}]]
            /\ raises < MaxRaises /\ raises' = raises + 1
        BY <2>3 DEF Raise
      <4>3. "failed" \in NodeNames /\ raises' \in 0..MaxRaises
        BY <1>0, <4>2 DEF NodeNames, WorkTypeOK
      <4>4. QED
        BY <1>0, <1>p, <4>1, <4>2, <4>3, RunFails
    <3> HIDE DEF h
    <3>3. WorkTypes'
      BY <1>0, <2>1, <3>1 DEF WorkTypes, WorkTypeOK, RunNow, RunRow
    <3>4. DispatchedExists'
      BY <1>0, <2>1 DEF DispatchedExists
    <3>5. TransactionSound(r)'
      BY <1>0, <2>1, <3>1 DEF TransactionSound, RunNow, SameChoice
    <3>6. \A a \in created' : a[1] = r => TaskSound(a)'
      BY <1>0, <2>1, <3>1 DEF TaskSound, RunNow, SameChoice
    <3>7. QED
      BY <1>0, <2>1, <3>1, <3>3, <3>4, <3>5, <3>6, OthersSound DEF WorkInv, RunNow
  <2>4. QED
    BY <1>6, <2>2, <2>3 DEF create_external
<1>7. ASSUME NEW r \in WorkRuns, CommitDispatch(r) PROVE WorkInv'
  <2> DEFINE w == wrun[r]
  <2>1. /\ w.pc = "dispatch" /\ UNCHANGED <<mtg, created, raises>>
        /\ item' = [a \in ItemIds |->
                      IF Staged(r, a, "dispatched") THEN "dispatched"
                      ELSE IF Staged(r, a, "rejected") THEN "rejected" ELSE item[a]]
        /\ recorded' = recorded \union {a \in ItemIds : Staged(r, a, "dispatched")}
    BY <1>7 DEF CommitDispatch
  <2>2. RunNow(r, "close", w.next, {}) /\ SameChoice(r)
    <3>1. {} \in SUBSET (ItemIds \X {"approved", "dispatched", "rejected"})
      OBVIOUS
    <3>2. QED
      BY <1>0, <1>7, <1>p, <3>1, RowsMove DEF NodeNames, CommitDispatch
  <2>3. \A a \in ItemIds, s \in {"dispatched", "rejected"} :
          Staged(r, a, s) => a[1] = r /\ (s = "dispatched" => a \in created)
    BY <1>0 DEF Staged, TransactionSound
  <2>4. WorkTypes'
    <3>1. item' \in [ItemIds -> ItemStatus]
      BY <1>0, <2>1 DEF WorkTypeOK, ItemStatus
    <3>2. QED
      BY <1>0, <2>1, <2>2, <3>1 DEF WorkTypes, WorkTypeOK, RunNow, RunRow
  <2>5. DispatchedExists'
    BY <1>0, <2>1, <2>3 DEF DispatchedExists
  <2>6. TransactionSound(r)'
    BY <1>0, <2>2 DEF TransactionSound, RunNow, SameChoice
  <2>7. \A a \in created : a[1] = r => TaskSound(a)'
    <3>1. \A a \in created : a[1] = r => Staged(r, a, "dispatched")
      <4>1. ASSUME NEW a \in created, a[1] = r PROVE Staged(r, a, "dispatched")
        <5>1. <<a, "dispatched">> \in w.staged
          BY <1>0, <2>1, <4>1 DEF TaskSound
        <5>2. item[<<a, "dispatched">>[1]] # "absent"
          BY <1>0, <5>1 DEF TransactionSound
        <5>3. QED
          BY <5>1, <5>2 DEF Staged
      <4>2. QED
        BY <4>1
    <3>2. QED
      BY <1>0, <2>1, <2>2, <3>1 DEF TaskSound, RunNow, SameChoice
  <2>8. \A a \in ItemIds : a[1] # r => item'[a] = item[a]
    BY <2>1, <2>3
  <2>9. QED
    BY <1>0, <2>1, <2>2, <2>4, <2>5, <2>6, <2>7, <2>8, OthersSound DEF WorkInv, RunNow
<1>8. ASSUME NEW r \in WorkRuns, close_meeting(r) PROVE WorkInv'
  <2>1. RunNow(r, "done", wrun[r].next, wrun[r].staged) /\ SameChoice(r)
    BY <1>0, <1>8, <1>p, NodeMoves DEF close_meeting, NodeNames
  <2>2. wrun[r].pc = "close" /\ wrun[r].staged = {} /\ mtg' = "completed" /\ raises' = raises
        /\ UNCHANGED <<item, created, recorded>>
    BY <1>0, <1>8 DEF close_meeting, TransactionSound
  <2>3. QED
    BY <1>0, <1>a, <2>1, <2>2 DEF WorkTypeOK, MeetingStatus
<1>9. ASSUME NEW r \in WorkRuns, NodeRaises(r) PROVE WorkInv'
  <2>1. RunNow(r, "failed", wrun[r].next, {}) /\ SameChoice(r)
    <3>1. {} \in SUBSET (ItemIds \X {"approved", "dispatched", "rejected"})
      OBVIOUS
    <3>2. QED
      BY <1>0, <1>9, <1>p, <3>1, RunFails DEF NodeNames, NodeRaises, Raise
  <2>2. UNCHANGED <<mtg, item, created, recorded>> /\ raises' \in 0..MaxRaises
    BY <1>0, <1>9 DEF NodeRaises, Raise, WorkTypeOK
  <2>3. QED
    BY <1>0, <1>a, <2>1, <2>2 DEF WorkTypeOK
<1>10. ASSUME UNCHANGED workVars PROVE WorkInv'
  BY <1>10 DEF workVars, WorkInv, WorkTypes, WorkTypeOK, DispatchedExists, TransactionSound,
    TaskSound, Here
<1>11. QED
  BY <1>1, <1>2, <1>3, <1>4, <1>5, <1>6, <1>7, <1>8, <1>9, <1>10 DEF WorkNext, WorkNode

\* What every number of runs of a meeting and their failures keep.
THEOREM WorkInvariant == WorkSpec => []WorkInv
  BY WorkStart, WorkKept, PTL DEF WorkSpec

\* dispatch_tasks: only what was approved in its own run becomes a task, what is
\* marked dispatched exists, and a run that ended well recorded all its tasks,
\* though runs of one meeting overwrite each other's items and nodes fail.
THEOREM DispatchSound == WorkSpec => []DispatchIsSound
<1>1. WorkInv => DispatchIsSound
  BY DEF WorkInv, WorkTypes, TaskSound, DispatchIsSound, TasksWereApproved, TasksAreRecorded
<1>2. QED
  BY WorkInvariant, <1>1, PTL

-----------------------------------------------------------------------------
(* Telegram intake *)

Busy == {"create", "generate"} \union {"result", "error"}

\* What is left of a poll is the updates from m to n, none of them confirmed.
BatchIs(m, n) == batch = m..n /\ confirmed =< m /\ n =< arrived

\* An update the offset or Telegram has left behind, other than one at hand.
Behind(v) == (v < confirmed \/ v < _offset) /\ v \notin batch

\* The loop works off the rest of a poll, in order, and its offset is at the
\* update it takes next or, while it works on one, just behind it.
LoopSound ==
  /\ \E m, n \in Nat : BatchIs(m, n)
  /\ at = "poll" <=> batch = {}
  /\ \A u \in batch, v \in UpdateIds : v < u => v \in batch \/ v < confirmed \/ v < _offset
  /\ at = "take" => \A u \in batch : _offset =< u
  /\ at \in Busy => _offset = First + 1

AnswersSound ==
  \A u \in UpdateIds : Behind(u) /\ Kinds[u] # "empty" /\ u \notin unsent => reply[u] \in Ending

\* What the offset has not passed since the last restart has a meeting for an
\* earlier run of the process at most.
MeetingsSound ==
  /\ meetings \in [UpdateIds -> Nat]
  /\ \A u \in UpdateIds : meetings[u] =< 1 + restarts /\ (_offset =< u => meetings[u] =< restarts)
  /\ at = "create" => meetings[First] =< restarts

TelegramInv ==
  /\ TelegramTypeOK
  /\ 1 =< confirmed /\ arrived =< Len(Kinds) /\ restarts \in Nat
  /\ LoopSound
  /\ AnswersSound
  /\ MeetingsSound

LEMMA UpdateNumbers == Len(Kinds) \in Nat /\ UpdateIds = 1..Len(Kinds)
  BY TelegramAssumption DEF UpdateIds

LEMMA TelegramStart == TelegramInit => TelegramInv
<1> SUFFICES ASSUME TelegramInit PROVE TelegramInv
  OBVIOUS
<1> USE UpdateNumbers DEF TelegramInit
<1>1. TelegramTypeOK
  BY DEF TelegramTypeOK, Ending
<1>2. LoopSound
  <2>1. BatchIs(1, 0)
    BY DEF BatchIs
  <2>2. QED
    BY <2>1 DEF LoopSound, Busy
<1>3. AnswersSound
  BY DEF AnswersSound, Behind
<1>4. MeetingsSound
  BY DEF MeetingsSound
<1>5. QED
  BY <1>1, <1>2, <1>3, <1>4 DEF TelegramInv

\* The first of an interval.
LEMMA FirstOfBatch ==
  ASSUME NEW m \in Nat, NEW n \in Nat, batch = m..n, batch # {}
  PROVE  First = m /\ m =< n /\ m \in batch /\ batch \ {m} = (m + 1)..n
         /\ \A u \in batch \ {m} : m < u
<1>1. m =< n /\ m \in batch
  OBVIOUS
<1>2. \A u \in batch : (\A v \in batch : u =< v) <=> u = m
  BY <1>1
<1>3. First = m
  BY <1>1, <1>2 DEF First
<1>4. QED
  BY <1>1, <1>3

\* The loop is done with the first of the batch: it got its last word, needs
\* none, or a send failed.
LEMMA UpdateLeaves ==
  ASSUME TelegramInv, NEW u, u = First, at # "poll", UNCHANGED <<arrived, confirmed, meetings, restarts>>,
         _offset' = u + 1, _offset =< u + 1, Leave(batch \ {u}),
         unsent' \in SUBSET UpdateIds, unsent \subseteq unsent',
         \/ reply' = reply /\ (Kinds[u] = "empty" \/ u \in unsent')
         \/ \E text \in Ending : reply' = [reply EXCEPT ![u] = text]
  PROVE  TelegramInv'
<1> USE UpdateNumbers
<1>0. /\ TelegramTypeOK /\ LoopSound /\ AnswersSound /\ MeetingsSound
      /\ 1 =< confirmed /\ arrived =< Len(Kinds) /\ restarts \in Nat
      /\ arrived \in Nat /\ confirmed \in Nat /\ _offset \in Nat
  BY DEF TelegramInv, TelegramTypeOK
<1>1. PICK m, n \in Nat : BatchIs(m, n)
  BY <1>0 DEF LoopSound
<1>2. /\ u = m /\ m =< n /\ m \in batch /\ batch' = (m + 1)..n
      /\ at' = IF batch' = {} THEN "poll" ELSE "take"
      /\ u \in UpdateIds /\ u \in Nat /\ u =< arrived /\ confirmed =< u
      /\ \A v \in batch' : u < v
  <2>1. batch # {} /\ batch = m..n
    BY <1>0, <1>1 DEF BatchIs, LoopSound
  <2>2. u = m /\ m =< n /\ m \in batch /\ batch \ {u} = (m + 1)..n
    BY <2>1, FirstOfBatch
  <2>3. batch' = (m + 1)..n /\ at' = IF batch' = {} THEN "poll" ELSE "take"
    BY <2>2 DEF Leave
  <2>4. u \in UpdateIds /\ u \in Nat /\ u =< arrived /\ confirmed =< u
    BY <1>0, <1>1, <2>2 DEF BatchIs
  <2>5. \A v \in batch' : u < v
    BY <2>2, <2>3, <2>4
  <2>6. QED
    BY <2>2, <2>3, <2>4, <2>5, Zenon
<1>3. TelegramTypeOK'
  <2>1. reply' \in [UpdateIds -> Ending \union {"none", "received"}]
    BY <1>0, <1>2 DEF TelegramTypeOK
  <2>2. batch' \subseteq UpdateIds /\ _offset' \in 0..arrived + 1
    BY <1>0, <1>1, <1>2 DEF TelegramTypeOK, BatchIs
  <2>3. QED
    BY <1>0, <1>2, <2>1, <2>2 DEF TelegramTypeOK
<1>4. LoopSound'
  <2>1. BatchIs(m + 1, n)'
    BY <1>0, <1>1, <1>2 DEF BatchIs
  <2>2. at' \notin Busy /\ (at' = "poll" <=> batch' = {})
    <3>1. CASE batch' = {}
      BY <1>2, <3>1 DEF Busy
    <3>2. CASE batch' # {}
      BY <1>2, <3>2 DEF Busy
    <3>3. QED
      BY <3>1, <3>2
  <2>3. \A v \in UpdateIds, o \in batch' : v < o => v \in batch' \/ v < _offset'
    BY <1>0, <1>1, <1>2 DEF BatchIs
  <2>4. \A v \in batch' : _offset' =< v
    BY <1>0, <1>1, <1>2 DEF BatchIs
  <2>5. m + 1 \in Nat /\ n \in Nat
    OBVIOUS
  <2>6. QED
    BY <2>1, <2>2, <2>3, <2>4, <2>5 DEF LoopSound
<1>5. AnswersSound'
  <2> SUFFICES ASSUME NEW v \in UpdateIds, Behind(v)', Kinds[v] # "empty", v \notin unsent'
               PROVE  reply'[v] \in Ending
    BY DEF AnswersSound
  <2>1. CASE v = u
    BY <1>0, <1>2, <2>1 DEF TelegramTypeOK
  <2>2. CASE v # u
    <3>1. v \notin batch
      BY <1>0, <1>1, <1>2, <2>2 DEF Behind, BatchIs
    <3>2. v < confirmed \/ v < u
      BY <1>0, <1>2, <2>2 DEF Behind
    <3>3. Behind(v)
      BY <1>0, <1>2, <3>1, <3>2 DEF Behind, LoopSound
    <3>4. reply'[v] = reply[v]
      BY <1>0, <2>2 DEF TelegramTypeOK
    <3>5. QED
      BY <1>0, <3>3, <3>4 DEF AnswersSound
  <2>3. QED
    BY <2>1, <2>2
<1>6. MeetingsSound'
  <2>1. at' # "create"
    BY <1>2
  <2>2. \A v \in UpdateIds : _offset' =< v => _offset =< v
    BY <1>0, <1>2
  <2>3. QED
    BY <1>0, <2>1, <2>2 DEF MeetingsSound
<1>7. QED
  BY <1>0, <1>3, <1>4, <1>5, <1>6 DEF TelegramInv

LEMMA TelegramKept == ASSUME TelegramInv, [TelegramNext]_telegramVars PROVE TelegramInv'
<1> USE UpdateNumbers
<1>0. /\ TelegramTypeOK /\ LoopSound /\ AnswersSound /\ MeetingsSound
      /\ 1 =< confirmed /\ arrived =< Len(Kinds) /\ restarts \in Nat
      /\ arrived \in Nat /\ confirmed \in Nat /\ _offset \in Nat
  BY DEF TelegramInv, TelegramTypeOK
<1>m. PICK m, n \in Nat : BatchIs(m, n)
  BY <1>0 DEF LoopSound
<1>1. CASE Arrive
  <2>1. arrived' = arrived + 1 /\ arrived' =< Len(Kinds)
        /\ UNCHANGED <<confirmed, _offset, batch, at, reply, unsent, meetings, restarts>>
    BY <1>0, <1>1 DEF Arrive
  <2>2. TelegramTypeOK'
    BY <1>0, <2>1 DEF TelegramTypeOK
  <2>3. LoopSound'
    <3>1. BatchIs(m, n)'
      BY <1>0, <1>m, <2>1 DEF BatchIs
    <3>2. First' = First
      BY <2>1 DEF First
    <3>3. QED
      BY <1>0, <2>1, <3>1, <3>2 DEF LoopSound
  <2>4. AnswersSound' /\ MeetingsSound'
    BY <1>0, <2>1 DEF AnswersSound, Behind, MeetingsSound, First
  <2>5. QED
    BY <1>0, <2>1, <2>2, <2>3, <2>4 DEF TelegramInv
<1>2. CASE _get_updates
  <2>1. /\ at = "poll" /\ batch = {} /\ confirmed' = Larger(confirmed, _offset)
        /\ UNCHANGED <<arrived, _offset, reply, unsent, meetings, restarts>>
        /\ \/ batch' = confirmed'..arrived /\ at' = IF batch' = {} THEN "poll" ELSE "take"
           \/ UNCHANGED <<batch, at>>
    BY <1>2 DEF _get_updates
  <2>2. confirmed' \in 0..arrived + 1 /\ confirmed =< confirmed' /\ _offset =< confirmed'
        /\ (confirmed' = confirmed \/ confirmed' = _offset)
    BY <1>0, <2>1 DEF Larger, TelegramTypeOK
  <2>3. \E i, j \in Nat : batch' = i..j /\ confirmed' =< i /\ j =< arrived
    <3>1. confirmed' \in Nat /\ 1 =< confirmed'
      BY <1>0, <2>2
    <3>2. CASE batch' = confirmed'..arrived
      BY <1>0, <3>1, <3>2
    <3>3. CASE UNCHANGED batch
      <4>1. batch' = confirmed'..0
        BY <2>1, <3>1, <3>3
      <4>2. QED
        BY <1>0, <3>1, <4>1
    <3>4. QED
      BY <2>1, <3>2, <3>3
  <2>4. TelegramTypeOK'
    BY <1>0, <2>1, <2>2 DEF TelegramTypeOK
  <2>5. LoopSound'
    <3>1. \E i, j \in Nat : BatchIs(i, j)'
      BY <2>1, <2>3 DEF BatchIs
    <3>2. at' \notin Busy /\ (at' = "poll" <=> batch' = {})
      <4>1. CASE batch' = {}
        BY <2>1, <4>1 DEF Busy
      <4>2. CASE batch' # {}
        BY <2>1, <4>2 DEF Busy
      <4>3. QED
        BY <4>1, <4>2
    <3>3. \A u \in batch' : _offset' =< u
      BY <1>0, <2>1, <2>2
    <3>4. \A u \in batch', v \in UpdateIds : v < u => v \in batch' \/ v < confirmed'
      BY <1>0, <2>1, <2>2
    <3>5. QED
      BY <3>1, <3>2, <3>3, <3>4 DEF LoopSound
  <2>6. AnswersSound'
    <3>1. \A u \in UpdateIds : Behind(u)' => Behind(u)
      BY <1>0, <2>1, <2>2 DEF Behind
    <3>2. QED
      BY <1>0, <2>1, <3>1 DEF AnswersSound
  <2>7. MeetingsSound'
    BY <1>0, <2>1 DEF MeetingsSound
  <2>8. QED
    BY <1>0, <2>1, <2>2, <2>4, <2>5, <2>6, <2>7 DEF TelegramInv
<1>3. CASE _handle_update
  <2> DEFINE u == First
  <2>1. /\ at = "take" /\ _offset' = Larger(_offset, u + 1)
        /\ UNCHANGED <<arrived, confirmed, meetings, restarts>>
    BY <1>3 DEF _handle_update
  <2>2. batch # {} /\ u = m /\ u \in batch /\ u \in UpdateIds /\ u \in Nat
    BY <1>0, <1>m, <2>1, FirstOfBatch DEF LoopSound, BatchIs, TelegramTypeOK
  <2>3. _offset' = u + 1 /\ _offset =< u
    BY <1>0, <2>1, <2>2 DEF LoopSound, Larger
  <2>4. \/ Leave(batch \ {u}) /\ \/ Kinds[u] = "empty" /\ UNCHANGED <<reply, unsent>>
                                 \/ reply' = [reply EXCEPT ![u] = "help"] /\ UNCHANGED unsent
                                 \/ unsent' = unsent \union {u} /\ UNCHANGED reply
        \/ /\ at' = "create" /\ UNCHANGED <<batch, unsent>>
           /\ reply' = [reply EXCEPT ![u] = "received"] \/ reply' = reply
    BY <1>3 DEF _handle_update, _send, Ending
  <2> HIDE DEF u
  <2>5. CASE Leave(batch \ {u}) /\ \/ Kinds[u] = "empty" /\ UNCHANGED <<reply, unsent>>
                                   \/ reply' = [reply EXCEPT ![u] = "help"] /\ UNCHANGED unsent
                                   \/ unsent' = unsent \union {u} /\ UNCHANGED reply
    <3>1. unsent' \in SUBSET UpdateIds /\ unsent \subseteq unsent'
      BY <1>0, <2>2, <2>5 DEF TelegramTypeOK
    <3>2. \/ reply' = reply /\ (Kinds[u] = "empty" \/ u \in unsent')
          \/ \E text \in Ending : reply' = [reply EXCEPT ![u] = text]
      BY <2>5 DEF Ending
    <3>3. _offset =< u + 1 /\ u = First
      BY <1>0, <2>2, <2>3 DEF u
    <3>4. QED
      BY <2>1, <2>3, <2>5, <3>1, <3>2, <3>3, UpdateLeaves
  <2>6. CASE /\ at' = "create" /\ UNCHANGED <<batch, unsent>>
             /\ reply' = [reply EXCEPT ![u] = "received"] \/ reply' = reply
    <3>1. First' = u /\ u = First
      BY <2>6 DEF First, u
    <3>2. TelegramTypeOK'
      <4>1. reply' \in [UpdateIds -> Ending \union {"none", "received"}]
        BY <1>0, <2>2, <2>6 DEF TelegramTypeOK
      <4>2. _offset' \in 0..arrived + 1
        BY <1>0, <1>m, <2>2, <2>3 DEF BatchIs
      <4>3. QED
        BY <1>0, <2>1, <2>6, <4>1, <4>2 DEF TelegramTypeOK
    <3>3. LoopSound'
      <4>1. BatchIs(m, n)'
        BY <1>0, <1>m, <2>1, <2>6 DEF BatchIs
      <4>2. at' \in Busy /\ at' # "take" /\ at' # "poll" /\ batch' # {}
        BY <2>2, <2>6 DEF Busy
      <4>3. \A o \in batch', v \in UpdateIds : v < o => v \in batch' \/ v < confirmed \/ v < _offset'
        BY <1>0, <2>2, <2>3, <2>6 DEF LoopSound
      <4>4. QED
        BY <2>1, <2>3, <3>1, <4>1, <4>2, <4>3 DEF LoopSound
    <3>4. AnswersSound'
      <4> SUFFICES ASSUME NEW v \in UpdateIds, Behind(v)', Kinds[v] # "empty", v \notin unsent'
                   PROVE  reply'[v] \in Ending
        BY DEF AnswersSound
      <4>1. v # u /\ v \notin batch
        BY <2>2, <2>6 DEF Behind
      <4>2. v < confirmed \/ v < u
        BY <1>0, <2>1, <2>2, <2>3, <4>1 DEF Behind
      <4>3. Behind(v)
        BY <1>0, <2>2, <4>1, <4>2 DEF Behind, LoopSound
      <4>4. reply'[v] = reply[v]
        BY <1>0, <2>6, <4>1 DEF TelegramTypeOK
      <4>5. QED
        BY <1>0, <2>6, <4>3, <4>4 DEF AnswersSound
    <3>5. MeetingsSound'
      <4>1. meetings[u] =< restarts
        BY <1>0, <2>2, <2>3 DEF MeetingsSound
      <4>2. \A v \in UpdateIds : _offset' =< v => _offset =< v
        BY <1>0, <2>2, <2>3
      <4>3. QED
        BY <1>0, <2>1, <3>1, <4>1, <4>2 DEF MeetingsSound
    <3>6. QED
      BY <1>0, <2>1, <3>2, <3>3, <3>4, <3>5 DEF TelegramInv
  <2>7. QED
    BY <2>4, <2>5, <2>6
<1>4. CASE _process_transcript
  <2>1. /\ at \in Busy /\ at' \in Busy \ {"create"}
        /\ \/ UNCHANGED meetings
           \/ at = "create" /\ meetings' = [meetings EXCEPT ![First] = @ + 1]
        /\ UNCHANGED <<arrived, confirmed, _offset, batch, reply, unsent, restarts>>
    BY <1>4 DEF _process_transcript, Busy
  <2>2. batch # {} /\ First = m /\ First \in UpdateIds /\ First \in Nat /\ _offset = First + 1
    <3>1. at # "poll"
      BY <2>1 DEF Busy
    <3>2. QED
      BY <1>0, <1>m, <2>1, <3>1, FirstOfBatch DEF LoopSound, BatchIs, TelegramTypeOK
  <2>3. First' = First
    BY <2>1 DEF First
  <2>4. TelegramTypeOK'
    BY <1>0, <2>1 DEF TelegramTypeOK, Busy
  <2>5. LoopSound'
    <3>1. BatchIs(m, n)'
      BY <1>m, <2>1 DEF BatchIs
    <3>2. at' # "poll" /\ at' # "take" /\ batch' # {}
      BY <2>1, <2>2 DEF Busy
    <3>3. QED
      BY <1>0, <2>1, <2>2, <2>3, <3>1, <3>2 DEF LoopSound
  <2>6. AnswersSound'
    BY <1>0, <2>1 DEF AnswersSound, Behind
  <2>7. MeetingsSound'
    <3>1. CASE UNCHANGED meetings
      BY <1>0, <2>1, <3>1 DEF MeetingsSound
    <3>2. CASE at = "create" /\ meetings' = [meetings EXCEPT ![First] = @ + 1]
      <4>1. meetings[First] =< restarts /\ meetings \in [UpdateIds -> Nat]
        BY <1>0, <3>2 DEF MeetingsSound
      <4>2. meetings' \in [UpdateIds -> Nat] /\ meetings'[First] = meetings[First] + 1
            /\ \A v \in UpdateIds \ {First} : meetings'[v] = meetings[v]
        BY <2>2, <3>2, <4>1
      <4>3. QED
        BY <1>0, <2>1, <2>2, <4>1, <4>2 DEF MeetingsSound
    <3>3. QED
      BY <2>1, <3>1, <3>2
  <2>8. QED
    BY <1>0, <2>1, <2>4, <2>5, <2>6, <2>7 DEF TelegramInv
<1>5. CASE Reply
  <2> DEFINE u == First
  <2>1. /\ at \in {"result", "error"} /\ UNCHANGED <<arrived, confirmed, _offset, meetings, restarts>>
        /\ Leave(batch \ {u}) /\ \/ reply' = [reply EXCEPT ![u] = at] /\ UNCHANGED unsent
                                 \/ unsent' = unsent \union {u} /\ UNCHANGED reply
    BY <1>5 DEF Reply, _send, Ending
  <2>2. batch # {} /\ u = m /\ u \in UpdateIds /\ u \in Nat /\ _offset = u + 1
    BY <1>0, <1>m, <2>1, FirstOfBatch DEF LoopSound, BatchIs, TelegramTypeOK, Busy
  <2>3. unsent' \in SUBSET UpdateIds /\ unsent \subseteq unsent'
    BY <1>0, <2>1, <2>2 DEF TelegramTypeOK
  <2>4. u = First
    OBVIOUS
  <2> HIDE DEF u
  <2>5. \/ reply' = reply /\ u \in unsent'
        \/ \E text \in Ending : reply' = [reply EXCEPT ![u] = text]
    BY <2>1 DEF Ending
  <2>6. QED
    BY <2>1, <2>2, <2>3, <2>4, <2>5, UpdateLeaves
<1>6. CASE TelegramRestart
  <2>1. /\ restarts' = restarts + 1 /\ _offset' = 0 /\ batch' = {} /\ at' = "poll"
        /\ UNCHANGED <<arrived, confirmed, reply, unsent, meetings>>
    BY <1>6 DEF TelegramRestart
  <2>2. TelegramTypeOK'
    BY <1>0, <2>1 DEF TelegramTypeOK
  <2>3. LoopSound'
    <3>1. BatchIs(confirmed, 0)'
      BY <1>0, <2>1 DEF BatchIs
    <3>2. QED
      BY <1>0, <2>1, <3>1 DEF LoopSound, Busy
  <2>4. AnswersSound'
    <3>1. \A v \in UpdateIds : v < confirmed => v \notin batch
      BY <1>0, <1>m DEF BatchIs
    <3>2. \A v \in UpdateIds : Behind(v)' => Behind(v)
      BY <1>0, <2>1, <3>1 DEF Behind
    <3>3. QED
      BY <1>0, <2>1, <3>2 DEF AnswersSound
  <2>5. MeetingsSound'
    BY <1>0, <2>1 DEF MeetingsSound
  <2>6. QED
    BY <1>0, <2>1, <2>2, <2>3, <2>4, <2>5 DEF TelegramInv
<1>7. CASE UNCHANGED telegramVars
  BY <1>0, <1>7 DEF telegramVars, TelegramInv, TelegramTypeOK, LoopSound, BatchIs, AnswersSound, Behind,
    MeetingsSound, First
<1>8. QED
  BY <1>1, <1>2, <1>3, <1>4, <1>5, <1>6, <1>7 DEF TelegramNext, run_forever

\* What the loop keeps, whatever the network and the process do.
THEOREM TelegramInvariant == TelegramSpec => []TelegramInv
  BY TelegramStart, TelegramKept, PTL DEF TelegramSpec

\* TelegramBotService: an update that Telegram has forgotten got its last word
\* unless a send failed or was refused, and becomes at most one meeting per life of the process.
THEOREM NoUpdateLost == TelegramSpec => []NoUpdateIsLost
<1>1. TelegramInv => NoUpdateIsLost
  <2> SUFFICES ASSUME TelegramInv PROVE NoUpdateIsLost
    OBVIOUS
  <2>1. \A u \in UpdateIds : u < confirmed => u \notin batch
    BY UpdateNumbers DEF TelegramInv, TelegramTypeOK, LoopSound, BatchIs
  <2>2. QED
    BY <2>1 DEF TelegramInv, AnswersSound, Behind, MeetingsSound, NoUpdateIsLost,
      ForgottenWasAnswered, MeetingsBounded
<1>2. QED
  BY TelegramInvariant, <1>1, PTL

-----------------------------------------------------------------------------
(* Law watch *)

LookRow == [at : {"idle", "sources", "record", "alert"},
            old : LegalPositions \union {Unverified}, now : LegalPositions \union {Unverified}]

\* A review that goes on is one of a case at hand, of a verified position, and
\* what it is about to alert of is on record.
LookSound ==
  /\ look \in LookRow
  /\ look.at = "idle" => look = NoLook
  /\ look.at # "idle" => todo # << >> /\ look.old \in LegalPositions
  /\ look.at = "alert" => reviewed[Current] # "none"

LawInv ==
  /\ LawTypeOK
  /\ waiting \in Seq(WatchedCases) /\ todo \in Seq(WatchedCases)
  /\ LookSound
  /\ alerts \in [AlertKeys -> 0..1]
  /\ AlertIsOnRecord

NoneTwice(s) == \A i, j \in DOMAIN s : s[i] = s[j] => i = j

\* t is what a and b, the parts of s before and behind its i-th element, make.
IsJoin(t, a, b, s, i, l) ==
  /\ l \in Nat /\ i \in 1..l
  /\ \A j \in 1..(i - 1) : a[j] = s[j]
  /\ \A j \in 1..(l - i) : b[j] = s[j + i]
  /\ \A j \in 1..(i - 1 + (l - i)) : t[j] = IF j =< i - 1 THEN a[j] ELSE b[j - (i - 1)]

Shifted(t, s, i, l) == \A j \in 1..(l - 1) : t[j] = IF j < i THEN s[j] ELSE s[j + 1]

Misses(t, e) == \A j \in DOMAIN t : t[j] # e

\* t is s, of length l and without an element twice, without its i-th element.
IsSplice(t, s, i, l) ==
  /\ l \in Nat /\ i \in 1..l
  /\ \A x, y \in 1..l : s[x] = s[y] => x = y
  /\ DOMAIN t = 1..(l - 1)
  /\ Shifted(t, s, i, l)

LEMMA Joined ==
  ASSUME NEW l, NEW i, NEW a, NEW b, NEW s, NEW t, IsJoin(t, a, b, s, i, l)
  PROVE  Shifted(t, s, i, l)
<1> USE DEF IsJoin, Shifted
<1> SUFFICES ASSUME NEW j \in 1..(l - 1) PROVE t[j] = IF j < i THEN s[j] ELSE s[j + 1]
  OBVIOUS
<1>1. j \in 1..(i - 1 + (l - i))
  OBVIOUS
<1>2. CASE j < i
  BY <1>1, <1>2
<1>3. CASE ~(j < i)
  <2>1. j - (i - 1) \in 1..(l - i) /\ j - (i - 1) + i = j + 1
    BY <1>3
  <2>2. t[j] = s[j - (i - 1) + i]
    BY <1>1, <1>3, <2>1
  <2>3. QED
    BY <1>3, <2>1, <2>2
<1>4. QED
  BY <1>2, <1>3

LEMMA Spliced ==
  ASSUME NEW l, NEW i, NEW s, NEW t, IsSplice(t, s, i, l)
  PROVE  NoneTwice(t) /\ Misses(t, s[i])
  BY DEF NoneTwice, Misses, IsSplice, Shifted

\* Without its i-th element a sequence has no element twice if it had none, and
\* that element is gone.
LEMMA WithoutOne ==
  ASSUME NEW S, NEW s \in Seq(S), NoneTwice(s), NEW i \in DOMAIN s,
         NEW t, t = SubSeq(s, 1, i - 1) \o SubSeq(s, i + 1, Len(s))
  PROVE  t \in Seq(S) /\ NoneTwice(t) /\ Misses(t, s[i])
<1> DEFINE l == Len(s)
           a == SubSeq(s, 1, i - 1)
           b == SubSeq(s, i + 1, l)
<1>1. l \in Nat /\ DOMAIN s = 1..l /\ i \in 1..l /\ \A j \in 1..l : s[j] \in S
  BY LenProperties, ElementOfSeq
<1>2. /\ a \in Seq(S) /\ Len(a) = IF 1 =< i - 1 THEN i - 1 - 1 + 1 ELSE 0
      /\ \A j \in 1..(i - 1 - 1 + 1) : a[j] = s[1 + j - 1]
  <2>1. 1 \in Int /\ i - 1 \in Int /\ \A j \in 1..(i - 1) : s[j] \in S
    BY <1>1
  <2>2. QED
    BY <2>1, SubSeqProperties
<1>3. /\ b \in Seq(S) /\ Len(b) = IF i + 1 =< l THEN l - (i + 1) + 1 ELSE 0
      /\ \A j \in 1..(l - (i + 1) + 1) : b[j] = s[i + 1 + j - 1]
  <2>1. i + 1 \in Int /\ l \in Int /\ \A j \in (i + 1)..l : s[j] \in S
    BY <1>1
  <2>2. QED
    BY <2>1, SubSeqProperties
<1>4. t = a \o b
  OBVIOUS
<1> HIDE DEF a, b, l
<1>5. /\ t \in Seq(S) /\ Len(t) = Len(a) + Len(b)
      /\ \A j \in 1..(Len(a) + Len(b)) : t[j] = IF j =< Len(a) THEN a[j] ELSE b[j - Len(a)]
  <2>1. a \in Seq(S) /\ b \in Seq(S)
    BY <1>2, <1>3
  <2>2. /\ a \o b \in Seq(S) /\ Len(a \o b) = Len(a) + Len(b)
        /\ \A j \in 1..(Len(a) + Len(b)) :
              (a \o b)[j] = IF j =< Len(a) THEN a[j] ELSE b[j - Len(a)]
    BY <2>1, ConcatProperties, Zenon
  <2>3. QED
    BY <1>4, <2>2, Zenon
<1>6. Len(a) = i - 1 /\ \A j \in 1..(i - 1) : a[j] = s[j]
  BY <1>1, <1>2
<1>7. Len(b) = l - i
  BY <1>1, <1>3
<1>8. ASSUME NEW j \in 1..(l - i) PROVE b[j] = s[j + i]
  <2>1. j \in 1..(l - (i + 1) + 1) /\ i + 1 + j - 1 = j + i
    BY <1>1
  <2>2. b[j] = s[i + 1 + j - 1]
    BY <1>3, <2>1
  <2>3. QED
    BY <2>1, <2>2
<1>9. DOMAIN t = 1..(l - 1)
  <2>1. Len(t) = l - 1
    BY <1>1, <1>5, <1>6, <1>7
  <2>2. QED
    BY <1>5, <2>1, LenProperties
<1>10. Shifted(t, s, i, l)
  <2>1. \A j \in 1..(i - 1 + (l - i)) : t[j] = IF j =< i - 1 THEN a[j] ELSE b[j - (i - 1)]
    BY <1>5, <1>6, <1>7
  <2>2. IsJoin(t, a, b, s, i, l)
    BY <1>1, <1>6, <1>8, <2>1, Zenon DEF IsJoin
  <2>3. QED
    BY <2>2, Joined, Zenon
<1>11. \A x, y \in 1..l : s[x] = s[y] => x = y
  BY <1>1, Zenon DEF NoneTwice
<1>12. IsSplice(t, s, i, l)
  BY <1>1, <1>9, <1>10, <1>11, Zenon DEF IsSplice
<1>13. QED
  BY <1>5, <1>12, Spliced, Zenon

LEMMA LawStart == LawInit => LawInv
<1> SUFFICES ASSUME LawInit PROVE LawInv
  OBVIOUS
<1> USE LawAssumption DEF LawInit
<1>1. waiting \in Seq(WatchedCases) /\ NoneTwice(waiting)
  <2>1. Cardinality(WatchedCases) \in Nat
    BY FS_CardinalityType
  <2>2. QED
    BY <2>1 DEF NoneTwice
<1>2. LawTypeOK
  BY <1>1 DEF LawTypeOK, NoneTwice, NoLook
<1>3. LookSound
  BY DEF LookSound, LookRow, NoLook
<1>4. todo \in Seq(WatchedCases) /\ alerts \in [AlertKeys -> 0..1]
  BY EmptySeq
<1>5. AlertIsOnRecord
  BY DEF AlertIsOnRecord, AlertKeys
<1>6. QED
  BY <1>1, <1>2, <1>3, <1>4, <1>5 DEF LawInv

LEMMA LawKept == ASSUME LawInv, [LawNext]_lawVars PROVE LawInv'
<1> USE LawAssumption
<1>0. /\ LawTypeOK /\ LookSound /\ AlertIsOnRecord /\ NoneTwice(waiting)
      /\ waiting \in Seq(WatchedCases) /\ todo \in Seq(WatchedCases)
      /\ alerts \in [AlertKeys -> 0..1]
  BY DEF LawInv, LawTypeOK, NoneTwice
\* The world moves and the review stays.
<1>a. ASSUME law' \in LegalPositions, drafted' \in [WatchedCases -> LegalPositions \union {Unverified}],
             waiting' \in Seq(WatchedCases), NoneTwice(waiting'),
             UNCHANGED <<todo, look, alerts, reviewed>>
      PROVE  LawInv'
  <2>1. LawTypeOK'
    BY <1>0, <1>a DEF LawTypeOK, NoneTwice
  <2>2. Current' = Current /\ NoLook' = NoLook
    BY <1>a DEF Current, NoLook
  <2>3. LookSound' /\ AlertIsOnRecord'
    BY <1>0, <1>a, <2>2 DEF LookSound, AlertIsOnRecord
  <2>4. QED
    BY <1>0, <1>a, <2>1, <2>3 DEF LawInv
\* The review moves and the world stays.
<1>b. ASSUME UNCHANGED <<law, drafted, waiting>>, todo' \in Seq(WatchedCases), LookSound',
             look'.at \in {"record", "alert"} => look'.now \in LegalPositions,
             alerts' \in [AlertKeys -> 0..1], reviewed' \in [WatchedCases -> {"none", "same", "changed"}],
             AlertIsOnRecord'
      PROVE  LawInv'
  <2>1. LawTypeOK'
    BY <1>0, <1>b DEF LawTypeOK, LookSound, LookRow
  <2>2. QED
    BY <1>0, <1>b, <2>1 DEF LawInv
\* A review ends, without more on record.
<1>c. ASSUME UNCHANGED <<law, drafted, waiting, alerts, reviewed>>, Done, todo # << >> PROVE LawInv'
  <2>1. todo' \in Seq(WatchedCases)
    BY <1>0, <1>c, HeadTailProperties DEF Done
  <2>2. look' = NoLook /\ look'.at = "idle"
    BY <1>c DEF Done, NoLook
  <2>3. LookSound'
    BY <2>2 DEF LookSound, LookRow, NoLook
  <2>4. AlertIsOnRecord'
    BY <1>0, <1>c DEF AlertIsOnRecord
  <2>5. QED
    BY <1>0, <1>b, <1>c, <2>1, <2>2, <2>3, <2>4 DEF LawTypeOK
<1>1. CASE poll_once
  <2>1. /\ UNCHANGED <<law, drafted, waiting, look, alerts, reviewed>> /\ look = NoLook
        /\ waiting # << >> /\ \E k \in Int : todo' = SubSeq(waiting, 1, k) /\ k =< Len(waiting)
    <3>1. Len(waiting) \in Int /\ ReviewLimit \in Int
      BY <1>0, LenProperties
    <3>2. QED
      BY <1>1, <3>1 DEF poll_once, world
  <2>2. todo' \in Seq(WatchedCases)
    <3>1. PICK k \in Int : todo' = SubSeq(waiting, 1, k) /\ k =< Len(waiting)
      BY <2>1
    <3>2. \A i \in 1..k : waiting[i] \in WatchedCases
      BY <1>0, <3>1, LenProperties, ElementOfSeq
    <3>3. 1 \in Int
      OBVIOUS
    <3>4. QED
      BY <3>1, <3>2, <3>3, SubSeqProperties
  <2>3. LookSound'
    BY <1>0, <2>1 DEF LookSound, NoLook
  <2>4. AlertIsOnRecord' /\ reviewed' \in [WatchedCases -> {"none", "same", "changed"}]
        /\ alerts' \in [AlertKeys -> 0..1] /\ look'.at = "idle"
    BY <1>0, <2>1 DEF AlertIsOnRecord, LawTypeOK, NoLook
  <2>5. QED
    BY <1>b, <2>1, <2>2, <2>3, <2>4
<1>2. CASE ReadDrafted
  <2>1. UNCHANGED <<law, drafted, waiting, alerts, reviewed>> /\ todo # << >>
    BY <1>2 DEF ReadDrafted, world
  <2>2. CASE Done
    BY <1>c, <2>1, <2>2
  <2>3. CASE /\ drafted[Current] # Unverified /\ UNCHANGED todo
             /\ look' = [at |-> "sources", old |-> drafted[Current], now |-> Unverified]
    <3>1. Current \in WatchedCases
      BY <1>0, <2>1, HeadTailProperties DEF Current
    <3>2. drafted[Current] \in LegalPositions
      BY <1>0, <2>3, <3>1 DEF LawTypeOK
    <3>3. LookSound'
      BY <2>1, <2>3, <3>2 DEF LookSound, LookRow
    <3>4. AlertIsOnRecord' /\ reviewed' \in [WatchedCases -> {"none", "same", "changed"}]
          /\ alerts' \in [AlertKeys -> 0..1] /\ look'.at = "sources"
      BY <1>0, <2>1, <2>3 DEF AlertIsOnRecord, LawTypeOK
    <3>5. QED
      BY <1>0, <1>b, <2>1, <2>3, <3>3, <3>4
  <2>4. QED
    BY <1>2, <2>2, <2>3 DEF ReadDrafted
<1>3. CASE read_current
  <2>1. UNCHANGED <<law, drafted, waiting, alerts, reviewed>> /\ todo # << >>
        /\ look.at = "sources" /\ look.old \in LegalPositions /\ law \in LegalPositions
    BY <1>0, <1>3 DEF read_current, world, LookSound, LawTypeOK
  <2>2. CASE Done
    BY <1>c, <2>1, <2>2
  <2>3. CASE look' = [look EXCEPT !.at = "record", !.now = law] /\ UNCHANGED todo
    <3>1. look' \in LookRow /\ look'.at = "record" /\ look'.old = look.old /\ look'.now = law
      BY <1>0, <2>1, <2>3 DEF LookSound, LookRow
    <3>2. LookSound'
      BY <2>1, <2>3, <3>1 DEF LookSound
    <3>3. AlertIsOnRecord' /\ reviewed' \in [WatchedCases -> {"none", "same", "changed"}]
          /\ alerts' \in [AlertKeys -> 0..1]
      BY <1>0, <2>1 DEF AlertIsOnRecord, LawTypeOK
    <3>4. QED
      BY <1>0, <1>b, <2>1, <2>3, <3>1, <3>2, <3>3
  <2>4. QED
    BY <1>3, <2>2, <2>3 DEF read_current
<1>4. CASE _record
  <2>1. /\ UNCHANGED <<law, drafted, waiting, alerts>> /\ look.at = "record" /\ todo # << >>
        /\ reviewed' = [reviewed EXCEPT ![Current] = Verdict] /\ Verdict \in {"same", "changed"}
        /\ {look.old, look.now} \subseteq LegalPositions
    BY <1>0, <1>4 DEF _record, world, LookSound, LawTypeOK, Verdict
  <2>2. Current \in WatchedCases /\ reviewed \in [WatchedCases -> {"none", "same", "changed"}]
    BY <1>0, <2>1, HeadTailProperties DEF Current, LawTypeOK
  <2>3. /\ reviewed' \in [WatchedCases -> {"none", "same", "changed"}]
        /\ reviewed'[Current] # "none"
        /\ \A c \in WatchedCases : reviewed[c] # "none" => reviewed'[c] # "none"
    BY <2>1, <2>2
  <2>4. AlertIsOnRecord' /\ alerts' \in [AlertKeys -> 0..1]
    BY <1>0, <2>1, <2>3 DEF AlertIsOnRecord
  <2>5. CASE Done
    <3>1. todo' \in Seq(WatchedCases) /\ look' = NoLook /\ look'.at = "idle"
      BY <1>0, <2>1, <2>5, HeadTailProperties DEF Done, NoLook
    <3>2. LookSound'
      BY <3>1 DEF LookSound, LookRow, NoLook
    <3>3. QED
      BY <1>b, <2>1, <2>3, <2>4, <3>1, <3>2
  <2>6. CASE look' = [look EXCEPT !.at = "alert"] /\ UNCHANGED todo
    <3>1. look' \in LookRow /\ look'.at = "alert" /\ look'.old = look.old /\ look'.now = look.now
      BY <1>0, <2>6 DEF LookSound, LookRow
    <3>2. Current' = Current
      BY <2>6 DEF Current
    <3>3. LookSound'
      BY <2>1, <2>3, <2>6, <3>1, <3>2 DEF LookSound
    <3>4. QED
      BY <1>0, <1>b, <2>1, <2>3, <2>4, <2>6, <3>1, <3>3
  <2>7. QED
    BY <1>4, <2>5, <2>6 DEF _record
<1>5. CASE _alert
  <2> DEFINE k == AlertKey(Current, look.now)
  <2>1. /\ UNCHANGED <<law, drafted, waiting, reviewed>> /\ look.at = "alert" /\ todo # << >>
        /\ reviewed[Current] # "none" /\ look.now \in LegalPositions
        /\ (UNCHANGED alerts \/ enqueue(k)) /\ Done
    BY <1>0, <1>5 DEF _alert, world, LookSound, LawTypeOK
  <2>2. Current \in WatchedCases
    BY <1>0, <2>1, HeadTailProperties DEF Current
  <2>3. k \in AlertKeys /\ k = <<Current, look.now>>
    BY <2>1, <2>2 DEF AlertKey, AlertKeys
  <2> HIDE DEF k
  <2>4. alerts' \in [AlertKeys -> 0..1] /\ \A o \in AlertKeys \ {k} : alerts'[o] = alerts[o]
    <3>1. CASE UNCHANGED alerts
      BY <1>0, <3>1
    <3>2. CASE alerts' = [alerts EXCEPT ![k] = 1]
      BY <1>0, <2>3, <3>2
    <3>3. QED
      BY <2>1, <3>1, <3>2 DEF enqueue
  <2>5. AlertIsOnRecord'
    <3> SUFFICES ASSUME NEW c \in WatchedCases, NEW p \in LegalPositions, alerts'[<<c, p>>] > 0
                 PROVE  reviewed[c] # "none"
      BY <2>1 DEF AlertIsOnRecord
    <3>1. CASE <<c, p>> = k
      BY <2>1, <2>3, <3>1
    <3>2. CASE <<c, p>> # k
      <4>1. <<c, p>> \in AlertKeys
        BY DEF AlertKeys
      <4>2. alerts'[<<c, p>>] = alerts[<<c, p>>]
        BY <2>4, <3>2, <4>1
      <4>3. QED
        BY <1>0, <4>2 DEF AlertIsOnRecord
    <3>3. QED
      BY <3>1, <3>2
  <2>6. todo' \in Seq(WatchedCases) /\ look' = NoLook /\ look'.at = "idle"
    BY <1>0, <2>1, HeadTailProperties DEF Done, NoLook
  <2>7. LookSound'
    BY <2>6 DEF LookSound, LookRow, NoLook
  <2>8. reviewed' \in [WatchedCases -> {"none", "same", "changed"}]
    BY <1>0, <2>1 DEF LawTypeOK
  <2>9. QED
    BY <1>b, <2>1, <2>4, <2>5, <2>6, <2>7, <2>8
<1>6. CASE Fails
  <2>1. UNCHANGED <<law, drafted, waiting, alerts, reviewed>> /\ todo # << >>
    BY <1>6 DEF Fails, world
  <2>2. CASE Done
    BY <1>c, <2>1, <2>2
  <2>3. CASE todo' = << >> /\ look' = NoLook
    <3>1. todo' \in Seq(WatchedCases) /\ look'.at = "idle"
      BY <2>3, EmptySeq DEF NoLook
    <3>2. LookSound'
      BY <2>3 DEF LookSound, LookRow, NoLook
    <3>3. AlertIsOnRecord' /\ reviewed' \in [WatchedCases -> {"none", "same", "changed"}]
          /\ alerts' \in [AlertKeys -> 0..1]
      BY <1>0, <2>1 DEF AlertIsOnRecord, LawTypeOK
    <3>4. QED
      BY <1>b, <2>1, <3>1, <3>2, <3>3
  <2>4. QED
    BY <1>6, <2>2, <2>3 DEF Fails
<1>7. CASE LawMoves
  BY <1>0, <1>7, <1>a DEF LawMoves, LawTypeOK
<1>8. CASE Hire
  BY <1>0, <1>8, <1>a DEF Hire, LawTypeOK
<1>9. ASSUME NEW c \in WatchedCases, Amend(c) PROVE LawInv'
  <2>1. PICK i \in DOMAIN waiting : /\ waiting[i] = c
          /\ waiting' = Append(SubSeq(waiting, 1, i - 1) \o SubSeq(waiting, i + 1, Len(waiting)), c)
    BY <1>9 DEF Amend
  <2> DEFINE t == SubSeq(waiting, 1, i - 1) \o SubSeq(waiting, i + 1, Len(waiting))
  <2>2. t \in Seq(WatchedCases) /\ NoneTwice(t) /\ Misses(t, c)
    BY <1>0, <2>1, WithoutOne
  <2>3. waiting' = Append(t, c)
    BY <2>1
  <2> HIDE DEF t
  <2>4. waiting' \in Seq(WatchedCases) /\ NoneTwice(waiting')
    <3>1. /\ waiting' \in Seq(WatchedCases) /\ Len(waiting') = Len(t) + 1
          /\ \A j \in 1..Len(t) : waiting'[j] = t[j]
          /\ waiting'[Len(t) + 1] = c
      BY <2>2, <2>3, AppendProperties
    <3>2. DOMAIN waiting' = 1..(Len(t) + 1) /\ DOMAIN t = 1..Len(t) /\ Len(t) \in Nat
      BY <2>2, <3>1, LenProperties
    <3>3. QED
      BY <2>2, <3>1, <3>2 DEF NoneTwice, Misses
  <2>5. /\ law' \in LegalPositions /\ drafted' \in [WatchedCases -> LegalPositions \union {Unverified}]
        /\ UNCHANGED <<todo, look, alerts, reviewed>>
    BY <1>0, <1>9 DEF Amend, LawTypeOK, verified_constraint
  <2>6. QED
    BY <1>a, <2>4, <2>5
<1>10. ASSUME NEW c \in WatchedCases, LeaveStates(c) PROVE LawInv'
  <2>1. PICK i \in DOMAIN waiting : /\ waiting[i] = c
          /\ waiting' = SubSeq(waiting, 1, i - 1) \o SubSeq(waiting, i + 1, Len(waiting))
    BY <1>10 DEF LeaveStates
  <2>2. waiting' \in Seq(WatchedCases) /\ NoneTwice(waiting')
    BY <1>0, <2>1, WithoutOne
  <2>3. UNCHANGED <<law, drafted, todo, look, alerts, reviewed>>
    BY <1>10 DEF LeaveStates
  <2>4. QED
    BY <1>0, <1>a, <2>2, <2>3 DEF LawTypeOK
<1>11. CASE UNCHANGED lawVars
  BY <1>0, <1>11, <1>a DEF lawVars, LawTypeOK
<1>12. QED
  BY <1>1, <1>2, <1>3, <1>4, <1>5, <1>6, <1>7, <1>8, <1>9, <1>10, <1>11 DEF LawNext, Sweep

\* What sweeps, failures, restarts and the amendments of the cases keep.
THEOREM LawInvariant == LawSpec => []LawInv
  BY LawStart, LawKept, PTL DEF LawSpec

\* LawChangeScanner: only verified positions are compared, what is alerted is on
\* record, and an alert is queued once whatever fails between these steps.
THEOREM ReportsSound == LawSpec => []ReportsAreSound
<1>1. LawInv => ReportsAreSound
  BY DEF LawInv, ReportsAreSound, ReportedOnce
<1>2. QED
  BY LawInvariant, <1>1, PTL
=============================================================================
